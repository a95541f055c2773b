----------------------------- MODULE Scheduler -----------------------------
(***************************************************************************)
(* The scheduler (scheduler.cpp).  Its thread runs the handlers of one     *)
(* io_context, first posted, first run.  addEvent and stopEvent only post  *)
(* a handler; a timer that expires or is cancelled posts its own.  So an   *)
(* event travels                                                           *)
(*                                                                         *)
(*   posted -> armed -> fired -> handing -> delivered                      *)
(*                   -> aborted -> deleted                                 *)
(*                                                                         *)
(* and whoever stops it may come too late at each of these places.  Ids    *)
(* are counted modulo IdSpace (2^32 in the code): an id may be given to a  *)
(* second event while a first still waits under it.                        *)
(***************************************************************************)
EXTENDS Naturals, SequencesExt

CONSTANTS
    Events,     \* the calls of addEvent that can happen (bounds the model)
    IdSpace     \* the number of event ids, 0 included

ASSUME IdSpaceAssumption == IdSpace \in Nat \ {0}

VARIABLES
    threadState,    \* ThreadHolder::threadState of g_scheduler
    lastEventId,    \* Scheduler::lastEventId
    id,             \* SchedulerTask::eventId of each event
    stage,          \* where each event is
    timers,         \* the ids in Scheduler::eventIdTimerMap
    ioQueue,        \* the handlers io_context is to run, in order
    ioStopped,      \* io_context.stop() has been called
    stopAsked       \* history: the events stopEvent was called for

eventVars == <<lastEventId, id, stopAsked>>
vars == <<threadState, eventVars, stage, timers, ioQueue, ioStopped>>

(* The handlers: an insertion and an expiration belong to an event, a       *)
(* cancellation to an id.                                                   *)
Insert(e) == [op |-> "insert", event |-> e]
Expired(e) == [op |-> "expired", event |-> e]
CancelId(i) == [op |-> "cancel", id |-> i]
StopIo == [op |-> "stop"]

Init ==
    /\ threadState = "RUNNING"
    /\ lastEventId = 0
    /\ id = [e \in Events |-> 0]
    /\ stage = [e \in Events |-> "none"]
    /\ timers = {}
    /\ ioQueue = <<>>
    /\ ioStopped = FALSE
    /\ stopAsked = {}

-----------------------------------------------------------------------------
(* The callers.                                                             *)

(* addEvent, lines 28-33 and 52, after a number of others that have come    *)
(* and gone since the last one.                                             *)
AddEvent(e, others) ==
    /\ stage[e] = "none"
    /\ lastEventId' = (lastEventId + others + 1) % IdSpace
    /\ id' = [id EXCEPT ![e] = lastEventId']
    /\ stage' = [stage EXCEPT ![e] = "posted"]
    /\ ioQueue' = Append(ioQueue, Insert(e))
    /\ UNCHANGED <<threadState, timers, ioStopped, stopAsked>>

(* stopEvent, lines 57-61, by the owner of the event: it knows the id that  *)
(* addEvent returned, and not where the event is.                           *)
StopEvent(e) ==
    /\ stage[e] # "none"
    /\ e \notin stopAsked
    /\ id[e] # 0
    /\ stopAsked' = stopAsked \cup {e}
    /\ ioQueue' = Append(ioQueue, CancelId(id[e]))
    /\ UNCHANGED <<threadState, lastEventId, id, stage, timers, ioStopped>>

(* ThreadHolder::stop, in Game::setGameState: the scheduler goes on.        *)
Stop ==
    /\ threadState = "RUNNING"
    /\ threadState' = "CLOSING"
    /\ UNCHANGED <<eventVars, stage, timers, ioQueue, ioStopped>>

(* shutdown, lines 72-73.                                                   *)
Shutdown ==
    /\ threadState # "TERMINATED"
    /\ threadState' = "TERMINATED"
    /\ ioQueue' = Append(ioQueue, StopIo)
    /\ UNCHANGED <<eventVars, stage, timers, ioStopped>>

-----------------------------------------------------------------------------
(* The scheduler thread: it takes the first handler.                        *)

HandlerIs(op) ==
    /\ ~ioStopped
    /\ \A e \in Events : stage[e] # "handing"
    /\ ioQueue # <<>>
    /\ Head(ioQueue).op = op

(* Waits that are cancelled: each posts its handler, in any order.          *)
ArmedOn(ids) == {e \in Events : stage[e] = "armed" /\ id[e] \in ids}
AbortWaits(waiting) ==
    \E order \in SetToSeqs(waiting) :
        ioQueue' = Tail(ioQueue) \o [i \in DOMAIN order |-> Expired(order[i])]
Aborted(waiting) == [e \in Events |-> IF e \in waiting THEN "aborted" ELSE stage[e]]

(* A bug: the timer is set and never waited for.                            *)
BadInsertNoWait ==
    /\ HandlerIs("insert")
    /\ timers' = timers \cup {id[Head(ioQueue).event]}
    /\ ioQueue' = Tail(ioQueue)
    /\ UNCHANGED <<threadState, eventVars, stage, ioStopped>>

(* addEvent, lines 34-39.  emplace finds the timer of an event that has the *)
(* same id and still waits: expires_from_now cancels that wait.             *)
RunInsert ==
    /\ HandlerIs("insert")
    /\ LET e == Head(ioQueue).event
           others == ArmedOn({id[e]})
       IN /\ timers' = timers \cup {id[e]}
          /\ AbortWaits(others)
          /\ stage' = [Aborted(others) EXCEPT ![e] = "armed"]
    /\ UNCHANGED <<threadState, eventVars, ioStopped>>

(* A bug: every timer is cancelled, as in shutdown.                         *)
BadCancelAll ==
    /\ HandlerIs("cancel")
    /\ AbortWaits(ArmedOn(timers))
    /\ stage' = Aborted(ArmedOn(timers))
    /\ UNCHANGED <<threadState, eventVars, timers, ioStopped>>

(* stopEvent, lines 63-66: the timer, if there is one and it still waits.   *)
RunCancel ==
    /\ HandlerIs("cancel")
    /\ LET waiting == IF Head(ioQueue).id \in timers THEN ArmedOn({Head(ioQueue).id}) ELSE {}
       IN /\ AbortWaits(waiting)
          /\ stage' = Aborted(waiting)
    /\ UNCHANGED <<threadState, eventVars, timers, ioStopped>>

(* A timer that waits expires.                                              *)
Expire(e) ==
    /\ ~ioStopped
    /\ stage[e] = "armed"
    /\ stage' = [stage EXCEPT ![e] = "fired"]
    /\ ioQueue' = Append(ioQueue, Expired(e))
    /\ UNCHANGED <<threadState, eventVars, timers, ioStopped>>

(* A bug: the id is erased only when the event is handed over.              *)
BadExpiredLeak ==
    /\ HandlerIs("expired")
    /\ LET e == Head(ioQueue).event
           lost == stage[e] = "aborted" \/ threadState = "TERMINATED"
       IN /\ timers' = IF lost THEN timers ELSE timers \ {id[e]}
          /\ stage' = [stage EXCEPT ![e] = IF lost THEN "deleted" ELSE "handing"]
    /\ ioQueue' = Tail(ioQueue)
    /\ UNCHANGED <<threadState, eventVars, ioStopped>>

(* addEvent, lines 40-46: the id is erased, whatever timer is under it; a   *)
(* wait on that timer is cancelled by its destructor.                       *)
RunExpired ==
    /\ HandlerIs("expired")
    /\ LET e == Head(ioQueue).event
           others == ArmedOn({id[e]})
       IN /\ timers' = timers \ {id[e]}
          /\ AbortWaits(others)
          /\ stage' = [Aborted(others) EXCEPT ![e] =
                IF stage[e] = "aborted" \/ threadState = "TERMINATED" THEN "deleted" ELSE "handing"]
    /\ UNCHANGED <<threadState, eventVars, ioStopped>>

(* addEvent, line 48: g_dispatcher.addTask.                                 *)
HandOver(e) ==
    /\ stage[e] = "handing"
    /\ stage' = [stage EXCEPT ![e] = "delivered"]
    /\ UNCHANGED <<threadState, eventVars, timers, ioQueue, ioStopped>>

(* shutdown, lines 74-80: what is still queued is never run.                *)
RunStop ==
    /\ HandlerIs("stop")
    /\ AbortWaits(ArmedOn(timers))
    /\ stage' = Aborted(ArmedOn(timers))
    /\ ioStopped' = TRUE
    /\ UNCHANGED <<threadState, eventVars, timers>>

-----------------------------------------------------------------------------
IoThread ==
    RunInsert \/ RunCancel \/ RunExpired \/ RunStop \/ \E e \in Events : HandOver(e)

Next ==
    \/ \E e \in Events : StopEvent(e) \/ Expire(e)
    \/ \E e \in Events, others \in 0..(IdSpace - 1) : AddEvent(e, others)
    \/ IoThread
    \/ Stop
    \/ Shutdown

(* The scheduler's thread runs, and time passes.                            *)
Fairness == WF_vars(IoThread) /\ \A e \in Events : WF_vars(Expire(e))

Spec == Init /\ [][Next]_vars
FairSpec == Spec /\ Fairness

-----------------------------------------------------------------------------
Handlers ==
    {Insert(e) : e \in Events} \cup {Expired(e) : e \in Events}
        \cup {CancelId(i) : i \in 0..(IdSpace - 1)} \cup {StopIo}

(* Every variable keeps its type.                                           *)
TypeOK ==
    /\ threadState \in {"RUNNING", "CLOSING", "TERMINATED"}
    /\ lastEventId \in 0..(IdSpace - 1)
    /\ id \in [Events -> 0..(IdSpace - 1)]
    /\ stage \in [Events -> {"none", "posted", "armed", "fired", "aborted", "handing",
                             "delivered", "deleted"}]
    /\ timers \subseteq 0..(IdSpace - 1)
    /\ ioQueue \in Seq(Handlers)
    /\ ioStopped \in BOOLEAN
    /\ stopAsked \subseteq Events

(* The id of an event was given to another one too: lastEventId wrapped.    *)
SharesId(e) == stage[e] # "none" /\ \E o \in Events \ {e} : stage[o] # "none" /\ id[o] = id[e]
IdsDiffer == \A e \in Events : ~SharesId(e)

(* The map holds the id of exactly the events that wait or whose handler is *)
(* to run: no timer is left behind, none is missing when it is cancelled.   *)
InStage(s) == {e \in Events : stage[e] \in s}
TimersAreLive == IdsDiffer => timers = {id[e] : e \in InStage({"armed", "fired", "aborted"})}

(* An event has its handler in the queue while it is posted, and again      *)
(* after its wait has ended, and never two at a time; a cancellation is     *)
(* one that was asked for, and only shutdown stops the thread.              *)
OneOfEach(q) ==
    \A i, j \in DOMAIN q : q[i] = q[j] /\ q[i].op \in {"insert", "expired"} => i = j
HandlersRight ==
    /\ OneOfEach(ioQueue)
    /\ \A e \in Events :
         /\ Insert(e) \in ToSet(ioQueue) <=> stage[e] = "posted"
         /\ Expired(e) \in ToSet(ioQueue) <=> stage[e] \in {"fired", "aborted"}
    /\ \A i \in 0..(IdSpace - 1) :
         CancelId(i) \in ToSet(ioQueue) => \E e \in stopAsked : id[e] = i
    /\ StopIo \in ToSet(ioQueue) \/ ioStopped => threadState = "TERMINATED"

(* Only what was scheduled is asked to stop, and what is cancelled was.     *)
StopsRight ==
    /\ \A e \in stopAsked : stage[e] # "none"
    /\ IdsDiffer => InStage({"aborted"}) \subseteq stopAsked \/ threadState = "TERMINATED"

SchedulerInv ==
    /\ TypeOK
    /\ IsFiniteSet(Events \ InStage({"none"}))
    /\ HandlersRight
    /\ StopsRight
    /\ TimersAreLive

(* What the scheduler promises (TimerService), as long as no id is given    *)
(* twice.                                                                   *)
Timers == INSTANCE TimerService
    WITH pending <- InStage({"posted", "armed", "fired", "aborted", "handing"}),
         delivered <- InStage({"delivered"}),
         dropped <- InStage({"deleted"}),
         asked <- stopAsked,
         closed <- threadState = "TERMINATED"
KeepsPromise ==
    Timers!Init /\ [][~IdsDiffer' \/ Timers!Next \/ UNCHANGED Timers!vars]_vars

(* Every event is delivered or deleted, unless the shutdown stops the       *)
(* scheduler's thread.                                                      *)
EventsEnd ==
    \A e \in Events :
        stage[e] = "posted" ~> stage[e] \in {"delivered", "deleted"} \/ ioStopped
=============================================================================
