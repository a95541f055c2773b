----------------------------- MODULE Conditions -----------------------------
(***************************************************************************)
(* The conditions of a player (Creature::conditions) and the way from the  *)
(* last hit to death.  Conditions begin, are renewed, run out, are         *)
(* dispelled, come with equipment, are saved and loaded; each changes      *)
(* something of the player by a difference and must take back what it      *)
(* gave.  A haste for a paralysed player, and the end of a paralysis, wait *)
(* while the player is still on a step (getWalkDelay), as events of the    *)
(* scheduler.  Death is a task posted when health reaches 0; conditions,   *)
(* scripts and a game save come in between.                                *)
(*                                                                         *)
(* Time goes in units of one think; ticks and endTime run together.        *)
(* Immunities, suppressions, health scripts and the effects of fields on   *)
(* damage are left out: what they prevent simply does not happen.          *)
(***************************************************************************)
EXTENDS Integers, SequencesExt, Once

CONSTANTS
    Spells,       \* the conditions that combat and scripts give
    MaxHealth,
    BootSpeed,    \* what the boots add to the speed
    MaxCasts,     \* bound on what befalls the player
    MaxWaiting,   \* bound on the events that wait for the end of a step
    MaxDeaths     \* bound on the deaths that are posted before the first is run

Forever == 1000     \* of ticks -1
Past == -1
Combat == 0         \* CONDITIONID_COMBAT
RingSlot == 9       \* the id of what the ring gives
Speeds == {"haste", "paralyze"}

(* Combat and scripts give conditions of CONDITIONID_COMBAT; drunkenness is *)
(* 25 where nothing else is said.  Whoever is born has health.              *)
ASSUME ConditionsAssumption ==
    /\ Spells \subseteq [type : STRING, id : {Combat}, ends : Int, value : Int]
    /\ \A c \in Spells : c.type = "drunk" => c.value > 0
    /\ MaxHealth \in Nat \ {0} /\ BootSpeed \in Int

VARIABLES
    sick,         \* the player, a record: see Fresh
    saved,        \* its row in the database
    casts         \* how much has befallen it so far

condVars == <<sick, saved, casts>>

(* A player as it is loaded, with nothing put on yet.                       *)
Fresh(health) ==
    [online |-> TRUE, health |-> health, deaths |-> 0,
     conditions |-> <<>>, varSpeed |-> 0, varSkill |-> 0, drunkenness |-> 0,
     shown |-> TRUE, ring |-> FALSE, boots |-> FALSE,
     stepping |-> FALSE, waiting |-> <<>>]

Condition(type, id, ends, value) ==
    [type |-> type, id |-> id, ends |-> ends, value |-> value]

(* What savePlayer writes: the conditions that are persistent.              *)
IsPersistent(c) == c.ends # Forever /\ c.id = Combat
Persistent(list) ==
    FoldLeft(LAMBDA s, c : IF IsPersistent(c) THEN Append(s, c) ELSE s, <<>>, list)
Row(m) ==
    [health |-> m.health, conditions |-> Persistent(m.conditions),
     ring |-> m.ring, boots |-> m.boots]

CondInit ==
    /\ sick = Fresh(MaxHealth)
    /\ saved = Row(sick)
    /\ casts = 0

-----------------------------------------------------------------------------
(* Creature::changeHealth: every change that leaves none posts a death.     *)
ChangeHealth(m, n) ==
    LET health == IF m.health + n < 0 THEN 0
                  ELSE IF m.health + n > MaxHealth THEN MaxHealth ELSE m.health + n
    IN  [m EXCEPT !.health = health, !.deaths = IF health = 0 THEN @ + 1 ELSE @]

(* Game::combatChangeHealth: no more is lost than there is, and nothing     *)
(* happens to who has none.                                                 *)
Hurt(m, n) ==
    IF m.health = 0 THEN m
    ELSE ChangeHealth(m, -(IF n > m.health THEN m.health ELSE n))

(* hasCondition: one that has run out but is still listed does not count.   *)
Listed(m, type) == {i \in DOMAIN m.conditions : m.conditions[i].type = type}
HasCondition(m, type) == \E i \in Listed(m, type) : m.conditions[i].ends > Past

(* startCondition.                                                          *)
Begun(m, c) ==
    CASE c.type \in Speeds      -> [m EXCEPT !.varSpeed = @ + c.value]
      [] c.type = "attributes"  -> [m EXCEPT !.varSkill = @ + c.value]
      [] c.type = "drunk"       -> [m EXCEPT !.drunkenness = c.value]
      [] c.type = "invisible"   -> [m EXCEPT !.shown = FALSE]
      [] c.type = "fire"        -> Hurt(m, 1)
      [] OTHER                  -> m

(* endCondition of one that is no longer listed.                            *)
Ended(m, c) ==
    CASE c.type \in Speeds      -> [m EXCEPT !.varSpeed = @ - c.value]
      [] c.type = "attributes"  -> [m EXCEPT !.varSkill = @ - c.value]
      [] c.type = "drunk"       -> [m EXCEPT !.drunkenness = 0]
      [] c.type = "invisible"   -> [m EXCEPT !.shown = @ \/ Listed(m, "invisible") = {}]
      [] OTHER                  -> m

(* updateCondition: whether a new one counts against the old one of its     *)
(* kind.  A haste or a paralysis always does, but not against a permanent   *)
(* one; drink and damage do when they are stronger.                         *)
Renews(old, c) ==
    CASE c.type \in Speeds           -> old.ends # Forever \/ c.ends = Forever
      [] c.type \in {"drunk", "fire"} -> c.value > old.value
      [] OTHER                       -> c.ends = Forever \/ old.ends <= c.ends

(* A bug: the old haste is not taken back.                                  *)
BadSpeedChange(old, c) == c.value
SpeedChange(old, c) == c.value - old.value

(* addCondition of the one that is listed.  A drunk player's drunkenness    *)
(* grows, and the listed condition keeps the old measure.                   *)
Renewed(m, i, c) ==
    LET old == m.conditions[i]
        value == IF c.type = "drunk" THEN old.value ELSE c.value
        d == [m EXCEPT !.conditions[i] = [c EXCEPT !.value = value]]
    IN  IF ~Renews(old, c) THEN m
        ELSE CASE c.type \in Speeds     -> [d EXCEPT !.varSpeed = @ + SpeedChange(old, c)]
               [] c.type = "attributes" -> [d EXCEPT !.varSkill = @ - old.value + c.value]
               [] c.type = "drunk"      -> [d EXCEPT !.drunkenness = c.value]
               [] c.type = "fire"       -> Hurt(d, 1)
               [] OTHER                 -> d

-----------------------------------------------------------------------------
(* The three removeCondition: the condition leaves the list, then ends.     *)
Erased(m, c) == Ended([m EXCEPT !.conditions = RemoveFirst(@, c)], c)
Without(m, gone) ==
    FoldLeft(LAMBDA d, c : IF c \in gone THEN With(d, LAMBDA v : Erased(v, c)) ELSE d,
             m, m.conditions)

(* The listed conditions of a type.                                         *)
Of(m, type) == {c \in ToSet(m.conditions) : c.type = type}

(* The end of a paralysis waits for the end of the step, unless forced.     *)
RemoveCondition(m, type, force) ==
    IF type = "paralyze" /\ ~force /\ m.stepping
    THEN IF Listed(m, type) = {} THEN m
         ELSE [m EXCEPT !.waiting = Append(@, Condition("remove", Combat, Past, 0))]
    ELSE Without(m, Of(m, type))

(* Creature::onAddCondition.                                                *)
OnAddCondition(m, type) ==
    CASE type = "paralyze" /\ HasCondition(m, "haste") -> RemoveCondition(m, "haste", FALSE)
      [] type = "haste" /\ HasCondition(m, "paralyze") -> RemoveCondition(m, "paralyze", FALSE)
      [] OTHER -> m

(* Creature::addCondition.                                                  *)
AddCondition(m, c, force) ==
    LET same == {i \in Listed(m, c.type) : m.conditions[i].id = c.id}
    IN  IF ~force /\ c.type = "haste" /\ m.stepping /\ HasCondition(m, "paralyze")
        THEN [m EXCEPT !.waiting = Append(@, c)]
        ELSE IF same # {} THEN Renewed(m, CHOOSE i \in same : TRUE, c)
        ELSE With([Begun(m, c) EXCEPT !.conditions = Append(@, c)],
                  LAMBDA d : OnAddCondition(d, c.type))

(* The ring and the boots: MoveEvent::EquipItem and DeEquipItem.            *)
RingOn(m) == [AddCondition(m, Condition("invisible", RingSlot, Forever, 0), FALSE) EXCEPT !.ring = TRUE]
RingOff(m) == [Without(m, {c \in Of(m, "invisible") : c.id = RingSlot}) EXCEPT !.ring = FALSE]
BootsOn(m) == [m EXCEPT !.varSpeed = @ + BootSpeed, !.boots = TRUE]
BootsOff(m) == [m EXCEPT !.varSpeed = @ - BootSpeed, !.boots = FALSE]

(* executeConditions: the copy of the list is gone through; what one of     *)
(* them removed meanwhile is passed over.                                   *)
Executed(m, c) ==
    LET d == CASE c.type = "fire" -> Hurt(m, 1)
               [] c.type = "regeneration" -> ChangeHealth(m, c.value)
               [] OTHER -> m
    IN  IF ~Contains(m.conditions, c) THEN m
        ELSE IF c.ends = Past THEN Erased(d, c) ELSE d
ExecuteConditions(m) ==
    FoldLeft(LAMBDA d, c : With(d, LAMBDA v : Executed(v, c)), m, m.conditions)

(* The loop of Player::death, which waits for nothing.                      *)
Cured(m) == Without(m, {c \in ToSet(m.conditions) : IsPersistent(c)})

(* IOLoginData::savePlayer does not save a player without health.           *)
WithHealth(m) == IF m.health = 0 THEN ChangeHealth(m, 1) ELSE m

-----------------------------------------------------------------------------
Befalls == sick.online /\ casts < MaxCasts /\ casts' = casts + 1 /\ UNCHANGED saved
Goes == sick.online /\ UNCHANGED <<saved, casts>>

(* Combat and scripts; a script may force what it gives.                    *)
Cast(c, force) ==
    /\ Befalls
    /\ Len(sick.waiting) < MaxWaiting
    /\ sick' = AddCondition(sick, c, force)

(* Combat dispels: what an item gives stays, unless it is destroyed (only   *)
(* where PvP is enforced); what was cast on a player still busy ends when   *)
(* it may act again.                                                        *)
Dispel(type, busy) ==
    /\ Befalls
    /\ Listed(sick, type) # {}
    /\ Len(sick.waiting) < MaxWaiting
    /\ sick' = IF type = "paralyze" THEN RemoveCondition(sick, type, FALSE)
               ELSE IF busy
               THEN [sick EXCEPT !.conditions = [i \in DOMAIN @ |->
                       IF @[i].type = type /\ @[i].id = Combat THEN [@[i] EXCEPT !.ends = 0] ELSE @[i]]]
               ELSE Without(sick, {c \in Of(sick, type) : c.id = Combat})

DispelDestroys == Befalls /\ sick.ring /\ sick' = RingOff(sick)

Hit == Befalls /\ sick' = Hurt(sick, 1)
Heal == Befalls /\ sick.health > 0 /\ sick' = ChangeHealth(sick, 1)

ChangeRing == Befalls /\ sick' = IF sick.ring THEN RingOff(sick) ELSE RingOn(sick)
ChangeBoots == Befalls /\ sick' = IF sick.boots THEN BootsOff(sick) ELSE BootsOn(sick)

(* The player begins a step, or its walk delay is over.                     *)
Steps == Goes /\ sick' = [sick EXCEPT !.stepping = ~@]

Older(c) == IF c.ends \in {Forever, Past} THEN c ELSE [c EXCEPT !.ends = @ - 1]
TimePasses ==
    /\ Goes
    /\ sick' = [sick EXCEPT !.conditions = [i \in DOMAIN @ |-> Older(@[i])]]

(* Game::checkCreatures.                                                    *)
Think ==
    /\ Goes
    /\ sick.health > 0
    /\ sick.deaths < MaxDeaths
    /\ sick' = ExecuteConditions(sick)

(* Game::forceAddCondition and forceRemoveCondition, which removes every    *)
(* paralysis there is by then.                                              *)
RunWaiting(k) ==
    /\ Goes
    /\ k \in DOMAIN sick.waiting
    /\ LET c == sick.waiting[k]
           m == [sick EXCEPT !.waiting = RemoveAt(@, k)]
       IN  sick' = IF c.type = "remove" THEN RemoveCondition(m, "paralyze", TRUE)
                   ELSE AddCondition(m, c, TRUE)

(* Whoever leaves the game is saved.  What a game save writes before is     *)
(* never read: the row is written again when the player leaves.             *)
Leaves(m) ==
    /\ saved' = Row(WithHealth(m))
    /\ sick' = [Fresh(MaxHealth) EXCEPT !.online = FALSE]
SaveGame == Goes /\ sick' = WithHealth(sick)
LogsOut == sick.online /\ Leaves(sick) /\ UNCHANGED casts

(* Game::executeDeath: Player::onDeath.  Who was killed in an arena is not  *)
(* removed.  What was posted for a player who is gone finds nobody.         *)
ExecuteDeath(dropsCorpse) ==
    /\ sick.online
    /\ sick.deaths > 0
    /\ LET m == Cured([sick EXCEPT !.deaths = @ - 1, !.health = MaxHealth])
       IN  IF dropsCorpse THEN Leaves(m) ELSE sick' = m /\ UNCHANGED saved
    /\ UNCHANGED casts

(* Player::onCreatureAppear: the equipment first, then what was saved, the  *)
(* last first.                                                              *)
Loaded(m, c) == AddCondition(m, [c EXCEPT !.ends = IF @ = 0 THEN Past ELSE @], FALSE)
LogsIn ==
    /\ ~sick.online
    /\ LET bare == Fresh(saved.health)
           shod == IF saved.boots THEN BootsOn(bare) ELSE bare
           worn == IF saved.ring THEN RingOn(shod) ELSE shod
       IN  sick' = FoldLeft(LAMBDA d, c : With(d, LAMBDA v : Loaded(v, c)),
                            worn, Reverse(saved.conditions))
    /\ saved' = Row(Fresh(MaxHealth))
    /\ UNCHANGED casts

CondNext ==
    \/ \E c \in Spells : Cast(c, FALSE) \/ (c.type = "haste" /\ Cast(c, TRUE))
    \/ \E c \in Spells, busy \in BOOLEAN : Dispel(c.type, busy)
    \/ DispelDestroys \/ Hit \/ Heal \/ ChangeRing \/ ChangeBoots
    \/ Steps \/ TimePasses \/ Think
    \/ \E k \in 1..MaxWaiting + 1 : RunWaiting(k)
    \/ SaveGame \/ LogsOut \/ LogsIn
    \/ \E dropsCorpse \in BOOLEAN : ExecuteDeath(dropsCorpse)

CondSpec == CondInit /\ [][CondNext]_condVars

-----------------------------------------------------------------------------
Total(type) ==
    FoldLeft(LAMBDA n, c : IF c.type \in type THEN n + c.value ELSE n, 0, sick.conditions)

(* However conditions were merged, replaced, dispelled late, run out, saved *)
(* and loaded, put on and taken off: what the player has of speed, skill,   *)
(* drink and invisibility is what the listed conditions and the equipment   *)
(* give, no more and no less, and one kind from one source is listed once   *)
(* (Creature::addCondition, removeCondition, executeConditions).            *)
EffectsExact ==
    sick.online =>
        /\ sick.varSpeed = Total(Speeds) + IF sick.boots THEN BootSpeed ELSE 0
        /\ sick.varSkill = Total({"attributes"})
        /\ sick.drunkenness > 0 <=> Listed(sick, "drunk") # {}
        /\ sick.shown <=> Listed(sick, "invisible") = {}
        /\ sick.ring => Listed(sick, "invisible") # {}
        /\ \A i, j \in DOMAIN sick.conditions :
              i # j => \/ sick.conditions[i].type # sick.conditions[j].type
                       \/ sick.conditions[i].id # sick.conditions[j].id

(* Nobody stays in the game without health: death is on its way, through    *)
(* saves, logins, healing and deaths in an arena (Creature::changeHealth,   *)
(* Game::executeDeath, IOLoginData::savePlayer).                            *)
DeathIsDue == sick.online /\ sick.health = 0 => sick.deaths > 0

(* A player's speed and life are in order at any time: nothing a condition  *)
(* did is left behind it, and no death is forgotten.                        *)
ConditionsSound == EffectsExact /\ DeathIsDue
=============================================================================
