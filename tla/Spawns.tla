------------------------------- MODULE Spawns --------------------------------
(***************************************************************************)
(* One spawn (spawn.cpp): its blocks, each of which should have a monster, *)
(* the monsters listed for them, and the check that is scheduled when one  *)
(* is removed.  Monsters are killed, leave the zone and come back, players *)
(* stand in the way, places are blocked, and the server closes.            *)
(***************************************************************************)
EXTENDS Naturals, FiniteSets, Once

CONSTANTS
    Blocks,        \* how many: the keys of spawnMap are 1..Blocks
    Shy,           \* the blocks without a type that ignores players near by
    Rate,          \* RATE_SPAWN
    MaxMonsters,   \* bound: monsters at a time, more than there can be
    MaxMishaps     \* bound: what happens to monsters, blocks and places

ASSUME SpawnsAssumption ==
    /\ Blocks \in Nat \ {0} /\ Shy \subseteq 1..Blocks
    /\ Rate \in Nat /\ MaxMishaps \in Nat
    /\ MaxMonsters \in Nat /\ MaxMonsters >= Blocks + MaxMishaps

VARIABLES
    spawn,     \* a record, see SpawnInit
    mishaps    \* how many so far

spawnVars == <<spawn, mishaps>>

Roamer == 0                 \* the key of monsters that have left the zone
BlockIds == 1..Blocks
MonsterIds == 1..MaxMonsters
Missing == [state |-> "none", id |-> Roamer, away |-> FALSE, spawn |-> FALSE]

(* spawnedMap lists whom the spawn holds a reference of, alive or removed.  *)
ListedFor(s) == {m \in MonsterIds : s.monster[m].state # "none"}
Vacant(s, b) == \A m \in ListedFor(s) : s.monster[m].id # b

SpawnInit ==
    /\ spawn = [monster |-> [m \in MonsterIds |-> Missing], due |-> [b \in BlockIds |-> TRUE],
                seen |-> {}, check |-> "none", woken |-> FALSE, stage |-> "new"]
    /\ mishaps = 0

-----------------------------------------------------------------------------
(* The keys of spawnMap come in their order, and so do the monsters.        *)
Rank(S, x) == Cardinality({y \in S : y < x})

(* Spawn::spawnMonster for the blocks of B: a monster is placed at the      *)
(* place of its block.                                                      *)
Spawned(s, B) ==
    LET new == {m \in MonsterIds : s.monster[m].state = "none"}
        blockOf(m) == {b \in B : m \in new /\ Rank(B, b) = Rank(new, m)}
    IN  [s EXCEPT !.monster = [m \in MonsterIds |->
                      IF blockOf(m) = {} THEN @[m]
                      ELSE [state |-> "in", id |-> CHOOSE b \in blockOf(m) : TRUE, away |-> FALSE, spawn |-> TRUE]],
                  !.due = [b \in BlockIds |-> @[b] /\ b \notin B]]

(* What spawnMonster returns, where the places in blocked are not free and  *)
(* a script or the chances may refuse too.                                  *)
CanSpawn(s, b, blocked) == b \notin blocked /\ (b \in s.seen => b \notin Shy)

StartSpawnCheck(s) == [s EXCEPT !.check = IF @ = "none" THEN "waiting" ELSE @, !.woken = TRUE]

(* Spawn::cleanup.                                                          *)
BadTidied(s) ==
    LET gone == {m \in ListedFor(s) : s.monster[m].state = "removed" /\ s.monster[m].id # Roamer}
    IN  [s EXCEPT !.due = [b \in BlockIds |-> @[b] /\ \A m \in gone : s.monster[m].id # b],
                  !.monster = [m \in MonsterIds |->
                      IF m \in gone THEN Missing
                      ELSE IF @[m].away THEN [@[m] EXCEPT !.id = Roamer] ELSE @[m]]]

Tidied(s) ==
    LET gone == {m \in ListedFor(s) : s.monster[m].state = "removed"}
    IN  [s EXCEPT !.due = [b \in BlockIds |-> @[b] /\ \A m \in gone : s.monster[m].id # b],
                  !.monster = [m \in MonsterIds |->
                      IF m \in gone THEN Missing
                      ELSE IF @[m].away THEN [@[m] EXCEPT !.id = Roamer] ELSE @[m]]]

(* The loop of Spawn::checkSpawn over spawnMap, which ends after Rate of    *)
(* them were spawned: a block that was due and is reached waits again.      *)
Refilled(s, blocked) ==
    LET due == {b \in BlockIds : Vacant(s, b) /\ s.due[b]}
        can == {b \in due : CanSpawn(s, b, blocked)}
        reached == {b \in due : Rank(can, b) < IF Rate = 0 THEN 1 ELSE Rate}
    IN  [Spawned(s, can \cap reached) EXCEPT !.due = [b \in BlockIds |-> @[b] /\ b \notin reached]]

BadCheckedAgain(s) ==
    [s EXCEPT !.check = IF \E b \in BlockIds : s.due[b] THEN "waiting" ELSE "none"]

CheckedAgain(s) ==
    [s EXCEPT !.check = IF Cardinality(ListedFor(s)) < Blocks THEN "waiting" ELSE "none"]

-----------------------------------------------------------------------------
Mishap(n) == mishaps + n <= MaxMishaps /\ mishaps' = mishaps + n
Runs == spawn.stage = "started"

(* Spawns::startup; nobody is there to be seen.                             *)
SpawnStartup(blocked) ==
    /\ spawn.stage = "new"
    /\ Mishap(Cardinality(blocked))
    /\ spawn' = Spawned([spawn EXCEPT !.stage = "started"], BlockIds \ blocked)

(* Monster::onRemoveCreature, whoever removes it.                           *)
RemoveMonster(m) ==
    /\ spawn.monster[m].state = "in"
    /\ Mishap(1)
    /\ LET s == [spawn EXCEPT !.monster[m].state = "removed"]
       IN  spawn' = IF spawn.monster[m].spawn THEN StartSpawnCheck(s) ELSE s

CrossBorder(m) ==
    /\ spawn.monster[m].state = "in"
    /\ Mishap(1)
    /\ spawn' = [spawn EXCEPT !.monster[m].away = ~@]

PlayerComes(b) == Mishap(1) /\ b \notin spawn.seen /\ spawn' = [spawn EXCEPT !.seen = @ \cup {b}]
PlayerGoes(b) == b \in spawn.seen /\ spawn' = [spawn EXCEPT !.seen = @ \ {b}] /\ UNCHANGED mishaps

(* The interval of a block since lastSpawn is over.                         *)
TimePasses(b) == Runs /\ ~spawn.due[b] /\ spawn' = [spawn EXCEPT !.due[b] = TRUE] /\ UNCHANGED mishaps

(* The scheduler hands the check to the dispatcher, which runs it.          *)
HandCheck == Runs /\ spawn.check = "waiting" /\ spawn' = [spawn EXCEPT !.check = "handed"] /\ UNCHANGED mishaps

CheckSpawn(blocked) ==
    /\ spawn.stage \in {"started", "closing"} /\ spawn.check = "handed"
    /\ Mishap(Cardinality(blocked))
    /\ spawn' = With(With(Tidied(spawn), LAMBDA s : Refilled(s, blocked)), CheckedAgain)

(* Game::setGameState stops the scheduler; what it handed over before runs  *)
(* before Game::shutdown clears the spawns.  (One that is handed over while *)
(* the two calls are made runs after it: see the README.)                   *)
CloseServer ==
    Runs /\ spawn' = [spawn EXCEPT !.stage = "closing"] /\ UNCHANGED mishaps

ClearSpawns ==
    /\ spawn.stage = "closing" /\ spawn.check # "handed"
    /\ spawn' = [spawn EXCEPT !.stage = "cleared", !.check = "none",
                              !.monster = [m \in MonsterIds |->
                                  IF @[m].state = "removed" THEN Missing
                                  ELSE [@[m] EXCEPT !.spawn = FALSE]]]
    /\ UNCHANGED mishaps

SpawnNext ==
    \/ \E blocked \in SUBSET BlockIds : SpawnStartup(blocked) \/ CheckSpawn(blocked)
    \/ \E m \in MonsterIds : RemoveMonster(m) \/ CrossBorder(m)
    \/ \E b \in BlockIds : PlayerComes(b) \/ PlayerGoes(b) \/ TimePasses(b)
    \/ HandCheck
    \/ CloseServer
    \/ ClearSpawns

(* Time passes and the check runs; players do not stay for ever.            *)
SpawnFairness ==
    /\ WF_spawnVars(HandCheck)
    /\ WF_spawnVars(CheckSpawn({}))
    /\ \A b \in BlockIds : WF_spawnVars(TimePasses(b)) /\ WF_spawnVars(PlayerGoes(b))

SpawnSpec == SpawnInit /\ [][SpawnNext]_spawnVars /\ SpawnFairness

-----------------------------------------------------------------------------
Listings ==
    [state : {"none", "in", "removed"}, id : {Roamer} \cup BlockIds, away : BOOLEAN, spawn : BOOLEAN]

SpawnRecords ==
    [monster : [MonsterIds -> Listings], due : [BlockIds -> BOOLEAN], seen : SUBSET BlockIds,
     check : {"none", "waiting", "handed"}, woken : BOOLEAN,
     stage : {"new", "started", "closing", "cleared"}]

SpawnTypeOK == spawn \in SpawnRecords /\ mishaps \in Nat

(* A spawn that runs has at most one monster for a block in its zone, and   *)
(* while one it lists is removed, or it lists fewer than it has blocks, a   *)
(* check is on its way, whatever was removed, left or came meanwhile        *)
(* (Spawn::checkSpawn, cleanup, startSpawnCheck).  Only when monsters could *)
(* not be placed at startup nothing is on its way until one of the others   *)
(* is removed.  No monster keeps a pointer to a spawn that is gone.         *)
SpawnSound ==
    /\ \A m, n \in ListedFor(spawn) :
         m # n /\ spawn.monster[m].id = spawn.monster[n].id => spawn.monster[m].id = Roamer
    /\ Runs /\ (\E m \in ListedFor(spawn) : spawn.monster[m].state = "removed") => spawn.check # "none"
    /\ Runs /\ spawn.woken /\ Cardinality(ListedFor(spawn)) < Blocks => spawn.check # "none"
    /\ spawn.stage = "cleared" => spawn.check = "none" /\ \A m \in MonsterIds : ~spawn.monster[m].spawn

(* Once nothing more befalls it, a spawn has as many monsters as blocks     *)
(* again, though one that has left the zone counts and its place may be     *)
(* filled instead of another one.                                           *)
SpawnRefills ==
    <>[](/\ Cardinality({m \in MonsterIds : spawn.monster[m].state = "in"}) < Blocks
         /\ spawn.woken
         => spawn.stage # "started")
=============================================================================
