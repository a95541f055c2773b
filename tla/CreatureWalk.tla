---------------------------- MODULE CreatureWalk ----------------------------
(***************************************************************************)
(* The walk of a player (creature.cpp, onWalk to stopEventWalk): the steps *)
(* still to make, and the scheduler events that make them.  Every action   *)
(* but WalkExpire, Cancelled and DelayOver is a task of the dispatcher.    *)
(*                                                                         *)
(* The scheduler is what TimerService promises: an event whose stop was    *)
(* asked for may still be delivered, and an event already handed to the    *)
(* dispatcher is run whatever happens.  eventWalk keeps one id only, so    *)
(* such a late event is unknown to the creature when it runs.              *)
(*                                                                         *)
(* A player without health gets no steps: an event that runs before its    *)
(* death does makes none and starts no other, and the death has to make    *)
(* up for that where it does not remove the player.  After a removal there *)
(* is nobody whom an event would find, and nothing to model.               *)
(***************************************************************************)
EXTENDS Naturals, FiniteSets

CONSTANTS
    MaxSteps,       \* the longest path (bounds the model)
    MaxEvents,      \* the events that can live at once (bounds the model)
    MaxCommands     \* the commands given (bounds the model)

ASSUME BoundsAssumption ==
    MaxSteps \in Nat \ {0} /\ MaxEvents \in Nat \ {0} /\ MaxCommands \in Nat

VARIABLES
    walk,           \* the part of the creature its walk works on, see Walks
    canStep,        \* getStepSpeed() > 0
    movementBlocked,\* Creature::movementBlocked
    commands        \* the commands given so far

walkVars == <<walk, canStep, movementBlocked, commands>>

WalkEvents == 1..MaxEvents

Walks == [
    listWalkDir : 0..MaxSteps,      \* how many steps are left
    eventWalk : 0..MaxEvents,       \* the event known to the creature, 0 for none
    events : [WalkEvents -> {"free", "timer", "stopping", "queued"}],
    cancelNextWalk : BOOLEAN,
    delay : BOOLEAN,                \* getWalkDelay() > 0
    death : {"none", "down", "healed"}, \* executeDeath to come; still without health, or healed
    parked : BOOLEAN]               \* history: the steps left were given up

WalkInit ==
    /\ walk = [listWalkDir |-> 0, eventWalk |-> 0, events |-> [e \in WalkEvents |-> "free"],
               cancelNextWalk |-> FALSE, delay |-> FALSE, death |-> "none", parked |-> FALSE]
    /\ canStep = TRUE
    /\ movementBlocked = FALSE
    /\ commands = 0

-----------------------------------------------------------------------------
(* g_scheduler.addEvent and stopEvent.                                      *)
FreeEvents(w) == {e \in WalkEvents : w.events[e] = "free"}

Schedule(w) ==
    LET e == CHOOSE e \in FreeEvents(w) : TRUE
    IN [w EXCEPT !.events[e] = "timer", !.eventWalk = e, !.parked = FALSE]

(* stopEventWalk.                                                           *)
StopEventWalk(w) ==
    IF w.eventWalk = 0 THEN w
    ELSE [w EXCEPT !.eventWalk = 0,
                   !.events[w.eventWalk] = IF @ = "timer" THEN "stopping" ELSE @]

(* internalMoveCreature: the step fails, moves the creature, or lands on a  *)
(* teleport, where onCreatureMove stops the walk (creature.cpp:502).        *)
Outcomes == {"failed", "moved", "teleported"}

Teleported(w) == [StopEventWalk(w) EXCEPT !.delay = TRUE, !.parked = TRUE]

Step(w, outcome) ==
    LET left == [w EXCEPT !.listWalkDir = @ - 1]
    IN CASE outcome = "failed" -> left
         [] outcome = "moved" -> [left EXCEPT !.delay = TRUE]
         [] outcome = "teleported" -> Teleported(left)

(* addEventWalk, when it does not take a first step right away.             *)
AddEventWalk(w) ==
    LET kept == [w EXCEPT !.cancelNextWalk = FALSE]
    IN IF canStep /\ w.eventWalk = 0 THEN Schedule(kept) ELSE kept

(* onWalk, lines 197-217: a step, or the end of the path.                   *)
WalkOn(w, outcome) ==
    IF w.delay THEN w
    ELSE IF w.listWalkDir > 0 THEN Step(w, outcome) ELSE StopEventWalk(w)

(* onWalk, lines 219-223.                                                   *)
WalkAborted(w) ==
    IF w.cancelNextWalk THEN [w EXCEPT !.listWalkDir = 0, !.cancelNextWalk = FALSE] ELSE w

(* A bug: the id of the event that runs is not forgotten first.             *)
BadContinued(w) == IF w.eventWalk # 0 THEN AddEventWalk(w) ELSE w

(* onWalk, lines 225-228.                                                   *)
Continued(w) ==
    IF w.eventWalk # 0 THEN AddEventWalk([w EXCEPT !.eventWalk = 0]) ELSE w

OnWalk(w, outcome) == Continued(WalkAborted(WalkOn(w, outcome)))

(* addEventWalk(firstStep): the step of a path of one is taken at once, by  *)
(* a call of onWalk from within, unless an earlier step still delays it.    *)
StartAutoWalk(w, outcome) ==
    LET kept == [w EXCEPT !.cancelNextWalk = FALSE]
    IN IF w.listWalkDir = 1 /\ ~w.delay /\ canStep /\ w.eventWalk = 0
       THEN Schedule(OnWalk(kept, outcome))
       ELSE AddEventWalk(w)

-----------------------------------------------------------------------------
(* Enough events are free for a task to run: the bound of the model.        *)
RoomForEvent == FreeEvents(walk) # {}

Command ==
    /\ commands < MaxCommands
    /\ commands' = commands + 1

(* Game::playerMove and playerAutoWalk: startAutoWalk with a direction or a *)
(* list of them replaces the steps left.                                    *)
PlayerWalks(n, outcome) ==
    /\ Command
    /\ RoomForEvent
    /\ walk' = IF movementBlocked THEN walk
               ELSE StartAutoWalk([walk EXCEPT !.listWalkDir = n, !.parked = FALSE], outcome)
    /\ UNCHANGED <<canStep, movementBlocked>>

(* goToFollowCreature: the path is replaced before the block is looked at.  *)
GoToFollowCreature(n, outcome) ==
    /\ Command
    /\ RoomForEvent
    /\ LET path == [walk EXCEPT !.listWalkDir = n]
       IN walk' = IF n = 0 THEN path
                  ELSE IF movementBlocked THEN [path EXCEPT !.parked = TRUE]
                  ELSE StartAutoWalk([path EXCEPT !.parked = FALSE], outcome)
    /\ UNCHANGED <<canStep, movementBlocked>>

(* setFollowCreature clears the path (creature.cpp:984-987).                *)
SetFollowCreature ==
    /\ Command
    /\ walk' = [walk EXCEPT !.listWalkDir = 0]
    /\ UNCHANGED <<canStep, movementBlocked>>

(* Player::stopWalk.                                                        *)
StopWalk ==
    /\ Command
    /\ walk' = [walk EXCEPT !.cancelNextWalk = TRUE]
    /\ UNCHANGED <<canStep, movementBlocked>>

(* setMovementBlocked.                                                      *)
SetMovementBlocked(state) ==
    /\ Command
    /\ movementBlocked' = state
    /\ walk' = [walk EXCEPT !.cancelNextWalk = TRUE]
    /\ UNCHANGED canStep

(* setSpeed: paralysis stops the walk, the end of it takes the walk up.     *)
Paralyse ==
    /\ Command
    /\ canStep' = FALSE
    /\ walk' = [StopEventWalk(walk) EXCEPT !.cancelNextWalk = TRUE]
    /\ UNCHANGED movementBlocked

Recover ==
    /\ Command
    /\ ~canStep
    /\ RoomForEvent
    /\ canStep' = TRUE
    /\ walk' = IF walk.listWalkDir = 0 THEN walk
               ELSE LET kept == [walk EXCEPT !.cancelNextWalk = FALSE]
                    IN IF walk.eventWalk = 0 THEN Schedule(kept) ELSE kept
    /\ UNCHANGED movementBlocked

(* Creature::changeHealth: no health is left, and the death is posted (one  *)
(* at a time, a bound); and what heals before it runs, a regeneration.      *)
Struck ==
    /\ Command
    /\ walk.death = "none"
    /\ walk' = [walk EXCEPT !.death = "down"]
    /\ UNCHANGED <<canStep, movementBlocked>>

Healed ==
    /\ Command
    /\ walk.death = "down"
    /\ walk' = [walk EXCEPT !.death = "healed"]
    /\ UNCHANGED <<canStep, movementBlocked>>

(* Game::executeDeath of a player who is not removed: after a fight in an   *)
(* arena, where Player::death heals it and sends it to its temple.          *)
DiesInArena ==
    /\ walk.death # "none"
    /\ walk' = [Teleported(walk) EXCEPT !.death = "none"]
    /\ UNCHANGED <<canStep, movementBlocked, commands>>

(* Game::checkCreatureWalk, run by the dispatcher.  A late event can find a *)
(* paralysed creature: getStepDuration then divides by a speed of zero and  *)
(* converts the quotient to an integer, so getWalkDelay may say anything.   *)
CheckCreatureWalk(e, outcome) ==
    /\ walk.events[e] = "queued"
    /\ \E delay \in (IF canStep THEN {walk.delay} ELSE BOOLEAN) :
          LET over == [walk EXCEPT !.events[e] = "free", !.delay = delay]
          IN  walk' = IF walk.death = "down" THEN over ELSE OnWalk(over, outcome)
    /\ UNCHANGED <<canStep, movementBlocked, commands>>

-----------------------------------------------------------------------------
(* The scheduler: a timer expires, asked to stop or not; a stop comes in    *)
(* time.                                                                    *)
WalkExpire(e) ==
    /\ walk.events[e] \in {"timer", "stopping"}
    /\ walk' = [walk EXCEPT !.events[e] = "queued"]
    /\ UNCHANGED <<canStep, movementBlocked, commands>>

Cancelled(e) ==
    /\ walk.events[e] = "stopping"
    /\ walk' = [walk EXCEPT !.events[e] = "free"]
    /\ UNCHANGED <<canStep, movementBlocked, commands>>

(* The duration of the last step is over.                                   *)
DelayOver ==
    /\ walk.delay
    /\ walk' = [walk EXCEPT !.delay = FALSE]
    /\ UNCHANGED <<canStep, movementBlocked, commands>>

-----------------------------------------------------------------------------
Commands ==
    \/ \E n \in 1..MaxSteps, outcome \in Outcomes : PlayerWalks(n, outcome)
    \/ \E n \in 0..MaxSteps, outcome \in Outcomes : GoToFollowCreature(n, outcome)
    \/ \E state \in BOOLEAN : SetMovementBlocked(state)
    \/ SetFollowCreature
    \/ StopWalk
    \/ Paralyse
    \/ Recover
    \/ Struck
    \/ Healed

RunEvent(e) == \E outcome \in Outcomes : CheckCreatureWalk(e, outcome)

WalkNext ==
    \/ Commands
    \/ \E e \in WalkEvents : RunEvent(e) \/ WalkExpire(e) \/ Cancelled(e)
    \/ DelayOver
    \/ DiesInArena

(* Time passes, the scheduler and the dispatcher run.                       *)
WalkFairness ==
    /\ WF_walkVars(DelayOver) /\ WF_walkVars(DiesInArena)
    /\ \A e \in WalkEvents : WF_walkVars(WalkExpire(e) \/ Cancelled(e)) /\ WF_walkVars(RunEvent(e))

WalkSpec == WalkInit /\ [][WalkNext]_walkVars
WalkFairSpec == WalkSpec /\ WalkFairness

-----------------------------------------------------------------------------
(* Every variable keeps its type: the path never goes below zero steps.     *)
WalkTypeOK ==
    /\ walk \in Walks
    /\ canStep \in BOOLEAN
    /\ movementBlocked \in BOOLEAN
    /\ commands \in 0..MaxCommands

WalkAlive(e) == walk.events[e] \in {"timer", "queued"}

(* eventWalk is never the id of an event that is over: addEventWalk returns *)
(* early when it is not 0, and a dead id would end walking for good.  And a *)
(* creature that has steps to make and may make them has an event that will *)
(* make them, whatever late events, stops and restarts came between; parked *)
(* steps, left by a teleport or a block, are the exception.  Only while a   *)
(* death is to come may the event have been run for nothing, and the death  *)
(* puts that right.                                                         *)
WalkIsDriven ==
    /\ walk.eventWalk # 0 /\ walk.death = "none" => WalkAlive(walk.eventWalk)
    /\ walk.listWalkDir > 0 /\ canStep /\ ~walk.parked => walk.eventWalk # 0

(* Walking ends: once the commands have ceased, every event, known to the   *)
(* creature or not, dies out, and no step is left that could be made.       *)
WalkEnds ==
    <>[](/\ FreeEvents(walk) = WalkEvents
         /\ walk.listWalkDir = 0 \/ ~canStep \/ walk.parked)
=============================================================================
