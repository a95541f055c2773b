------------------------------- MODULE Skulls -------------------------------
(***************************************************************************)
(* Fights between players, and what marks them: the fight itself (the      *)
(* condition CONDITION_INFIGHT), the lock of protection zones, whom a      *)
(* player has attacked, and skulls.  A white skull lasts as long as the    *)
(* fight; red and black ones are a sentence of skullTicks seconds for      *)
(* murders, which is served in the game (one second for every think) and   *)
(* outside (it is saved as a point in time).                               *)
(*                                                                         *)
(* The world is one for PvP; wars of guilds and gamemasters, who take no   *)
(* part in fights, are left out.  Time goes in seconds.                    *)
(***************************************************************************)
EXTENDS Integers, FiniteSets, Once

CONSTANTS
    Fighters,
    Mates,          \* pairs in the same party or guild
    NoFighter,
    LockAttacker,   \* pzLockSkullAttacker of the configuration
    PzTime,         \* pzLocked: how long a fight lasts after the last blow
    WhiteTime,      \* whiteSkullTime: how long after a murder
    FragTime,       \* timeToDecreaseFrags: the sentence for one
    KillsToRed,
    KillsToBlack,
    MaxTicks,       \* bound on a sentence
    MaxBlows        \* bound on blows

ASSUME SkullsAssumption ==
    /\ {PzTime, WhiteTime, FragTime, KillsToRed, KillsToBlack} \subseteq Nat \ {0}
    /\ NoFighter \notin Fighters
    /\ \A pair \in Mates : <<pair[2], pair[1]>> \in Mates

VARIABLES
    fighter,        \* the players, records: see Unmarked
    skullRow,       \* skull, skulltime and the fight, as saved
    owed,           \* seconds that each must still bear for murders
    blows

skullVars == <<fighter, skullRow, owed, blows>>

NoFight == -2       \* the condition is not listed
RunOut == -1        \* it has run out, and is still listed

Unmarked ==
    [online |-> TRUE, fight |-> NoFight, pzLocked |-> FALSE, attacked |-> {}, skull |-> "none",
     skullTicks |-> 0, damagedBy |-> {}, lastHit |-> NoFighter]

(* The point in time is kept as what is left until then.                    *)
SkullRow(f) ==
    [until |-> f.skullTicks, fight |-> f.fight,
     skull |-> IF f.skull \in {"red", "black"} THEN f.skull ELSE "none"]

SkullInit ==
    /\ fighter = [p \in Fighters |-> Unmarked]
    /\ skullRow = [p \in Fighters |-> SkullRow(Unmarked)]
    /\ owed = [p \in Fighters |-> 0]
    /\ blows = 0

-----------------------------------------------------------------------------
(* Operators on the players together: m is all of fighter.                  *)
InFight(f) == f.fight > RunOut                   \* hasCondition
Longer(f, ticks) == [f EXCEPT !.fight = IF @ <= ticks THEN ticks ELSE @]

(* Player::addInFightTicks.                                                 *)
AddInFightTicks(m, p) == [m EXCEPT ![p] = Longer(@, PzTime)]

(* A bug it could have: every skull goes with the fight.                    *)
BadSkullAfter(f) == "none"
SkullAfter(f) == IF f.skull \in {"red", "black"} THEN f.skull ELSE "none"

(* Player::onEndCondition: those who hurt the player are forgotten too,     *)
(* unless it is dying of them (Creature::onIdleStatus).                     *)
EndsFight(f, alive) ==
    [f EXCEPT !.fight = NoFight, !.pzLocked = FALSE, !.attacked = {}, !.skull = SkullAfter(f),
              !.damagedBy = IF alive THEN {} ELSE @, !.lastHit = IF alive THEN NoFighter ELSE @]

HasAttacked(m, a, v) == v \in m[a].attacked

(* Player::getSkullClient: one who has attacked me is marked for me alone.  *)
LooksYellow(m, a, v) == m[v].skull = "none" /\ HasAttacked(m, v, a)

(* Player::onAttackedCreature, outside of an arena.                         *)
MarkedFor(m, a, v) ==
    IF m[a].skull = "none" /\ LooksYellow(m, a, v)
    THEN [m EXCEPT ![a].attacked = @ \cup {v}]
    ELSE IF HasAttacked(m, v, a) /\ LockAttacker THEN m
    ELSE [m EXCEPT ![a].pzLocked = TRUE, ![a].attacked = @ \cup {v},
                   ![a].skull = IF m[v].skull = "none" /\ @ = "none" THEN "white" ELSE @]
OnAttackedCreature(m, a, v) ==
    AddInFightTicks(IF <<a, v>> \in Mates THEN m
                    ELSE With(AddInFightTicks(m, v), LAMBDA d : MarkedFor(d, a, v)), a)

(* Player::addUnjustifiedDead.                                              *)
Convicted(f) ==
    LET ticks == f.skullTicks + FragTime
    IN  [f EXCEPT !.skullTicks = ticks,
                  !.skull = IF @ = "black" \/ ticks > (KillsToBlack - 1) * FragTime THEN "black"
                            ELSE IF ticks > (KillsToRed - 1) * FragTime THEN "red" ELSE @]

(* Player::onKilledCreature, outside of an arena.                           *)
Blamed(m, a, v) ==
    /\ <<a, v>> \notin Mates
    /\ HasAttacked(m, a, v)
    /\ ~HasAttacked(m, v, a)
Murders(m, a, v) == Blamed(m, a, v) /\ m[v].skull = "none"
OnKilledCreature(m, a, v, lastHit) ==
    IF ~Blamed(m, a, v) THEN m
    ELSE LET f == IF Murders(m, a, v) THEN Convicted(m[a]) ELSE m[a]
         IN  [m EXCEPT ![a] = IF lastHit /\ InFight(f)
                              THEN [Longer(f, WhiteTime) EXCEPT !.pzLocked = TRUE] ELSE f]

(* Removed from the game: the creature's id is found no more, but others    *)
(* have attacked the guid.                                                  *)
WithoutFighter(m, v) ==
    [p \in Fighters |->
        IF p = v THEN [Unmarked EXCEPT !.online = FALSE]
        ELSE [m[p] EXCEPT !.damagedBy = @ \ {v}, !.lastHit = IF @ = v THEN NoFighter ELSE @]]

-----------------------------------------------------------------------------
Strikes ==
    /\ blows < MaxBlows
    /\ blows' = blows + 1
    /\ UNCHANGED <<skullRow, owed>>

(* Creature::setAttackedCreature, blockHit and addDamagePoints.  In an      *)
(* arena only the one that is attacked is in a fight.                       *)
Attack(a, v, arena, hurts) ==
    /\ a # v /\ fighter[a].online /\ fighter[v].online
    /\ Strikes
    /\ LET m == AddInFightTicks(IF arena THEN fighter ELSE OnAttackedCreature(fighter, a, v), v)
       IN  fighter' = IF hurts THEN [m EXCEPT ![v].damagedBy = @ \cup {a}, ![v].lastHit = a] ELSE m

(* An aggressive spell; a monster that attacks, and then has the last hit.  *)
Skirmish(p, hurts) ==
    /\ fighter[p].online
    /\ Strikes
    /\ fighter' = [AddInFightTicks(fighter, p) EXCEPT ![p].lastHit = IF hurts THEN NoFighter ELSE @]

(* Creature::onDeath: the one with the last hit answers for it, then all    *)
(* who did damage are cleared of having attacked, then the one who did the  *)
(* most answers.  Then Player::death: all conditions end, and in an arena   *)
(* the player stays.                                                        *)
Death(v, most, arena) ==
    /\ fighter[v].online
    /\ most \in fighter[v].damagedBy \cup {NoFighter}
    /\ LET f == fighter[v]
           answers(m, a, last) == IF a = NoFighter \/ arena THEN m ELSE OnKilledCreature(m, a, v, last)
           cleared(m) == [p \in Fighters |->
                             IF p \in f.damagedBy THEN [m[p] EXCEPT !.attacked = @ \ {v}] ELSE m[p]]
           judged == With(answers(fighter, f.lastHit, TRUE), LAMBDA m :
                       IF most = f.lastHit THEN cleared(m) ELSE answers(cleared(m), most, FALSE))
           dead == IF judged[v].fight = NoFight THEN judged[v] ELSE EndsFight(judged[v], FALSE)
       IN  /\ f.lastHit # NoFighter => judged[f.lastHit].skullTicks <= MaxTicks
           /\ owed' = [p \in Fighters |->
                         owed[p] + IF p = f.lastHit /\ ~arena /\ Murders(fighter, p, v) THEN FragTime ELSE 0]
           /\ IF arena /\ f.lastHit # NoFighter
              THEN /\ fighter' = [judged EXCEPT ![v] = [dead EXCEPT !.damagedBy = {}, !.lastHit = NoFighter]]
                   /\ UNCHANGED skullRow
              ELSE /\ fighter' = WithoutFighter(judged, v)
                   /\ skullRow' = [skullRow EXCEPT ![v] = SkullRow(dead)]
    /\ UNCHANGED blows

(* The player logs out, is kicked or loses the connection for good.         *)
LeaveGame(p) ==
    /\ fighter[p].online
    /\ skullRow' = [skullRow EXCEPT ![p] = SkullRow(fighter[p])]
    /\ fighter' = WithoutFighter(fighter, p)
    /\ UNCHANGED <<owed, blows>>

(* IOLoginData::loadPlayer: what is left is rounded up.                     *)
ReturnToGame(p) ==
    /\ ~fighter[p].online
    /\ skullRow[p].until + 2 <= MaxTicks
    /\ fighter' = [fighter EXCEPT ![p] =
          LET f == [Unmarked EXCEPT !.fight = IF skullRow[p].fight = 0 THEN RunOut ELSE skullRow[p].fight]
          IN  IF skullRow[p].until > 0
              THEN [f EXCEPT !.skullTicks = skullRow[p].until + 2, !.skull = skullRow[p].skull] ELSE f]
    /\ UNCHANGED <<skullRow, owed, blows>>

(* A second, in which some of the players think: checkSkullTicks, then      *)
(* executeConditions.  A late think still counts for one second.            *)
Thinks(f) ==
    LET ticks == IF f.skullTicks < 1 THEN 0 ELSE f.skullTicks - 1
        served == f.skull \in {"red", "black"} /\ ticks < 1 /\ ~InFight(f)
        g == [f EXCEPT !.skullTicks = ticks, !.skull = IF served THEN "none" ELSE @]
    IN  IF g.fight = RunOut THEN EndsFight(g, TRUE) ELSE g
Second(thinking) ==
    LET less(n) == IF n > 0 THEN n - 1 ELSE 0
        passed(f) == [f EXCEPT !.fight = IF @ > RunOut THEN @ - 1 ELSE @]
    IN  /\ fighter' = [p \in Fighters |->
              IF p \in thinking THEN Thinks(passed(fighter[p])) ELSE passed(fighter[p])]
        /\ skullRow' = [p \in Fighters |-> [skullRow[p] EXCEPT !.until = less(@)]]
        /\ owed' = [p \in Fighters |-> less(owed[p])]
        /\ UNCHANGED blows

SkullNext ==
    \/ \E a, v \in Fighters, arena, hurts \in BOOLEAN : Attack(a, v, arena, hurts)
    \/ \E p \in Fighters : LeaveGame(p) \/ ReturnToGame(p) \/ \E hurts \in BOOLEAN : Skirmish(p, hurts)
    \/ \E v \in Fighters, most \in Fighters \cup {NoFighter}, arena \in BOOLEAN : Death(v, most, arena)
    \/ \E thinking \in SUBSET {p \in Fighters : fighter[p].online} : Second(thinking)

SkullSpec == SkullInit /\ [][SkullNext]_skullVars

-----------------------------------------------------------------------------
(* No mark outlives the fight it stands for: who is locked out of           *)
(* protection zones, has attacked somebody or wears a white skull is in a   *)
(* fight that will end (Player::onAttackedCreature, onKilledCreature,       *)
(* onEndCondition, death).                                                  *)
MarksEndWithFight ==
    \A p \in Fighters :
        LET f == fighter[p]
        IN  f.pzLocked \/ f.attacked # {} \/ f.skull = "white" => f.fight # NoFight

(* A sentence is served in full: through fights, deaths, logouts and late   *)
(* thinks a murderer's skullTicks are never less than what is still to be   *)
(* borne, and the red or black skull stays until then                       *)
(* (Player::checkSkullTicks, addUnjustifiedDead, IOLoginData::savePlayer    *)
(* and loadPlayer).                                                         *)
SentenceServed ==
    \A p \in Fighters :
        LET f == fighter[p]
        IN  IF f.online
            THEN /\ f.skullTicks >= owed[p]
                 /\ owed[p] > (KillsToRed - 1) * FragTime => f.skull \in {"red", "black"}
                 /\ owed[p] > (KillsToBlack - 1) * FragTime => f.skull = "black"
            ELSE skullRow[p].until >= owed[p]

(* Skulls and fights mean what they say, whatever players do and suffer     *)
(* meanwhile.                                                               *)
SkullsTrue == MarksEndWithFight /\ SentenceServed
=============================================================================
