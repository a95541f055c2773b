--------------------------- MODULE DatabaseTasks ---------------------------
(***************************************************************************)
(* The asynchronous query queue (databasetasks.cpp) and the three threads  *)
(* that touch it:                                                          *)
(*   - any thread of Callers queues queries with DatabaseTasks::addTask    *)
(*     (the dispatcher thread, and the network thread through ban.cpp);    *)
(*   - the database thread runs threadMain, taking one query at a time;    *)
(*   - the Controller (the dispatcher thread) also drains the queue itself *)
(*     with flush(), at every save of the game and at shutdown.            *)
(*                                                                         *)
(* A critical section of taskLock that does not sleep is one action.  What *)
(* the code does outside the lock (reading threadState in the loop header, *)
(* running the query, posting the callback, notifying the condition        *)
(* variable) is an action of its own.  A query is queued at most once, so  *)
(* its identity stands for one call of addTask.                            *)
(***************************************************************************)
EXTENDS Naturals, SequencesExt

CONSTANTS
    Queries,        \* the calls of addTask that can happen (bounds the model)
    WithCallback,   \* the queries queued with a callback
    Callers,        \* the threads that call addTask
    Controller,     \* the one of them that calls flush, stop and shutdown
    NoQuery         \* "no query in hand"

ASSUME QueriesAssumption ==
    /\ WithCallback \subseteq Queries
    /\ Controller \in Callers
    /\ NoQuery \notin Queries

VARIABLES
    threadState,    \* ThreadHolder::threadState of g_databaseTasks
    tasks,          \* DatabaseTasks::tasks
    dbPc,           \* where the database thread is in threadMain
    callPc,         \* where each caller is
    inHand,         \* the query popped, not yet executed: by threadMain, by flush
    posting,        \* the query executed whose callback is still to be posted
    phase,          \* how far Game has gone in shutting the server down
    dispatcherOpen, \* g_dispatcher is THREAD_STATE_RUNNING
    submitted,      \* history: the queries accepted, in order
    executed,       \* history: the queries executed, in order
    callbacks       \* the callbacks accepted by g_dispatcher, in order

queueVars == <<threadState, tasks>>
histVars  == <<submitted, executed, callbacks>>
vars == <<queueVars, dbPc, callPc, inHand, posting, phase, dispatcherOpen, histVars>>

Runners == {"threadMain", "flush"}

Init ==
    /\ threadState = "RUNNING"
    /\ tasks = <<>>
    /\ dbPc = "loop"
    /\ callPc = [c \in Callers |-> "idle"]
    /\ inHand = [r \in Runners |-> NoQuery]
    /\ posting = [r \in Runners |-> NoQuery]
    /\ phase = "online"
    /\ dispatcherOpen = TRUE
    /\ submitted = <<>>
    /\ executed = <<>>
    /\ callbacks = <<>>

-----------------------------------------------------------------------------
(* taskSignal.notify_one(): only the database thread ever waits on it, and a *)
(* notification nobody waits for is lost.                                   *)
NotifyOne == dbPc' = IF dbPc = "waiting" THEN "woken" ELSE dbPc

(* A bug addTask could have: the test of emptiness is made after            *)
(* emplace_back, and the list is never empty.                               *)
BadAddNoSignal(c, q) ==
    /\ callPc[c] = "idle"
    /\ c = Controller => phase \in {"online", "closing"}
    /\ q \notin ToSet(submitted)
    /\ threadState = "RUNNING"
    /\ tasks' = Append(tasks, q)
    /\ submitted' = Append(submitted, q)
    /\ callPc' = [callPc EXCEPT ![c] = IF tasks' = <<>> THEN "signal" ELSE "idle"]
    /\ UNCHANGED <<threadState, dbPc, inHand, posting, phase, dispatcherOpen,
                   executed, callbacks>>

(* addTask, lines 56-61: the section under taskLock.  The queue was empty:  *)
(* the caller still has to signal.  The holder is not running: the query is *)
(* dropped, without a callback.                                             *)
AddTask(c, q) ==
    /\ callPc[c] = "idle"
    /\ c = Controller => phase \in {"online", "closing"}
    /\ q \notin ToSet(submitted)
    /\ IF threadState = "RUNNING"
       THEN /\ callPc' = [callPc EXCEPT ![c] = IF tasks = <<>> THEN "signal" ELSE "idle"]
            /\ tasks' = Append(tasks, q)
            /\ submitted' = Append(submitted, q)
       ELSE UNCHANGED <<callPc, tasks, submitted>>
    /\ UNCHANGED <<threadState, dbPc, inHand, posting, phase, dispatcherOpen,
                   executed, callbacks>>

(* addTask, lines 63-65: the signal, after the lock is released.            *)
SignalAdded(c) ==
    /\ callPc[c] = "signal"
    /\ callPc' = [callPc EXCEPT ![c] = "idle"]
    /\ NotifyOne
    /\ UNCHANGED <<queueVars, inHand, posting, phase, dispatcherOpen, histVars>>

-----------------------------------------------------------------------------
(* The database thread.                                                     *)

(* Bugs a pop could have: the head is copied and not popped; the back is    *)
(* popped.                                                                  *)
BadPopPeek(r) ==
    /\ inHand' = [inHand EXCEPT ![r] = Head(tasks)]
    /\ UNCHANGED tasks

BadPopBack(r) ==
    /\ inHand' = [inHand EXCEPT ![r] = Last(tasks)]
    /\ tasks' = Front(tasks)

(* The head of the queue goes into the hands of r.                          *)
PopFor(r) ==
    /\ inHand' = [inHand EXCEPT ![r] = Head(tasks)]
    /\ tasks' = Tail(tasks)

(* threadMain, line 36: the state is read without the lock.                 *)
DbCheckState ==
    /\ dbPc = "loop"
    /\ dbPc' = IF threadState # "TERMINATED" THEN "lock" ELSE "done"
    /\ UNCHANGED <<queueVars, callPc, inHand, posting, phase, dispatcherOpen, histVars>>

(* threadMain, lines 37-40: the lock is taken and the queue is empty.       *)
DbWait ==
    /\ dbPc = "lock"
    /\ tasks = <<>>
    /\ dbPc' = "waiting"
    /\ UNCHANGED <<queueVars, callPc, inHand, posting, phase, dispatcherOpen, histVars>>

(* A condition variable may wake up on its own.                             *)
DbSpuriousWake ==
    /\ dbPc = "waiting"
    /\ dbPc' = "woken"
    /\ UNCHANGED <<queueVars, callPc, inHand, posting, phase, dispatcherOpen, histVars>>

(* threadMain, lines 42-45: a query is taken and the lock is released.      *)
DbTake ==
    /\ dbPc \in {"lock", "woken"}
    /\ tasks # <<>>
    /\ PopFor("threadMain")
    /\ dbPc' = "run"
    /\ UNCHANGED <<threadState, callPc, posting, phase, dispatcherOpen, histVars>>

(* threadMain, lines 47-49: woken up, and flush has emptied the queue.      *)
DbNothing ==
    /\ dbPc = "woken"
    /\ tasks = <<>>
    /\ dbPc' = "loop"
    /\ UNCHANGED <<queueVars, callPc, inHand, posting, phase, dispatcherOpen, histVars>>

(* runTask, lines 70-78: the query is run under Database::databaseLock.     *)
(* Whether it fails makes no difference to what follows; a lost connection  *)
(* is retried inside executeQuery and storeQuery until the server answers.  *)
RunQuery(r) ==
    /\ inHand[r] # NoQuery
    /\ executed' = Append(executed, inHand[r])
    /\ inHand' = [inHand EXCEPT ![r] = NoQuery]
    /\ posting' = [posting EXCEPT ![r] = inHand[r]]

(* runTask, lines 80-82, with Dispatcher::addTask, lines 71-76.             *)
PostCallback(r) ==
    /\ posting[r] # NoQuery
    /\ callbacks' = IF posting[r] \in WithCallback /\ dispatcherOpen
                    THEN Append(callbacks, posting[r])
                    ELSE callbacks
    /\ posting' = [posting EXCEPT ![r] = NoQuery]

DbRun ==
    /\ dbPc = "run"
    /\ RunQuery("threadMain")
    /\ dbPc' = "post"
    /\ UNCHANGED <<queueVars, callPc, phase, dispatcherOpen, submitted, callbacks>>

DbPost ==
    /\ dbPc = "post"
    /\ PostCallback("threadMain")
    /\ dbPc' = "loop"
    /\ UNCHANGED <<queueVars, callPc, inHand, phase, dispatcherOpen, submitted, executed>>

-----------------------------------------------------------------------------
(* The controller: flush(), and Game's shutdown sequence.                   *)

ControllerAt(pc) == callPc[Controller] = pc
ControllerGoes(pc) == callPc' = [callPc EXCEPT ![Controller] = pc]

(* flush, lines 87-91: lock, pop, unlock.                                   *)
FlushTake ==
    /\ ControllerAt("flush")
    /\ tasks # <<>>
    /\ PopFor("flush")
    /\ ControllerGoes("flushRun")
    /\ UNCHANGED <<threadState, dbPc, posting, phase, dispatcherOpen, histVars>>

(* flush, line 92: runTask in the controller's thread.                      *)
FlushRun ==
    /\ ControllerAt("flushRun")
    /\ RunQuery("flush")
    /\ ControllerGoes("flushPost")
    /\ UNCHANGED <<queueVars, dbPc, phase, dispatcherOpen, submitted, callbacks>>

FlushPost ==
    /\ ControllerAt("flushPost")
    /\ PostCallback("flush")
    /\ ControllerGoes("flush")
    /\ UNCHANGED <<queueVars, dbPc, inHand, phase, dispatcherOpen, submitted, executed>>

(* flush, line 88: the queue is empty under the lock; flush returns.        *)
FlushReturn ==
    /\ ControllerAt("flush")
    /\ tasks = <<>>
    /\ ControllerGoes("idle")
    /\ UNCHANGED <<queueVars, dbPc, inHand, posting, phase, dispatcherOpen, histVars>>

(* Game::saveGameState ends with flush().                                   *)
SaveGameState ==
    /\ ControllerAt("idle")
    /\ phase \in {"online", "closing"}
    /\ ControllerGoes("flush")
    /\ UNCHANGED <<queueVars, dbPc, inHand, posting, phase, dispatcherOpen, histVars>>

(* Game::setGameState(GAME_STATE_SHUTDOWN): save, then stop the holders.    *)
BeginShutdown ==
    /\ ControllerAt("idle")
    /\ phase = "online"
    /\ phase' = "saving"
    /\ ControllerGoes("flush")
    /\ UNCHANGED <<queueVars, dbPc, inHand, posting, dispatcherOpen, histVars>>

(* g_databaseTasks.stop(): the state is stored without the lock.            *)
StopDatabaseTasks ==
    /\ ControllerAt("idle")
    /\ phase = "saving"
    /\ phase' = "stopping"
    /\ threadState' = "CLOSING"
    /\ UNCHANGED <<tasks, dbPc, callPc, inHand, posting, dispatcherOpen, histVars>>

(* g_dispatcher.stop(): from here on a posted callback is deleted.          *)
StopDispatcher ==
    /\ ControllerAt("idle")
    /\ phase = "stopping"
    /\ phase' = "closing"
    /\ dispatcherOpen' = FALSE
    /\ UNCHANGED <<queueVars, dbPc, callPc, inHand, posting, histVars>>

(* Game::shutdown calls DatabaseTasks::shutdown: lines 99-102.              *)
Shutdown ==
    /\ ControllerAt("idle")
    /\ phase = "closing"
    /\ phase' = "exiting"
    /\ threadState' = "TERMINATED"
    /\ ControllerGoes("flush")
    /\ UNCHANGED <<tasks, dbPc, inHand, posting, dispatcherOpen, histVars>>

(* DatabaseTasks::shutdown, line 103.                                       *)
SignalShutdown ==
    /\ ControllerAt("idle")
    /\ phase = "exiting"
    /\ phase' = "exited"
    /\ NotifyOne
    /\ UNCHANGED <<queueVars, callPc, inHand, posting, dispatcherOpen, histVars>>

-----------------------------------------------------------------------------
DbThread == DbCheckState \/ DbWait \/ DbTake \/ DbNothing \/ DbRun \/ DbPost

Flush == FlushTake \/ FlushRun \/ FlushPost \/ FlushReturn

GameShutdown ==
    StopDatabaseTasks \/ StopDispatcher \/ Shutdown \/ SignalShutdown

Next ==
    \/ \E c \in Callers : SignalAdded(c) \/ \E q \in Queries : AddTask(c, q)
    \/ DbThread
    \/ DbSpuriousWake
    \/ Flush
    \/ SaveGameState
    \/ BeginShutdown
    \/ GameShutdown

(* The threads the operating system runs keep running: the database thread, *)
(* a caller between its lock and its signal, a flush, and a shutdown once   *)
(* begun.  Nobody has to queue a query, save or shut down; nothing wakes a  *)
(* condition variable for no reason.                                        *)
Fairness ==
    /\ WF_vars(DbThread)
    /\ WF_vars(Flush)
    /\ WF_vars(GameShutdown)
    /\ \A c \in Callers : WF_vars(SignalAdded(c))

Spec == Init /\ [][Next]_vars
FairSpec == Spec /\ Fairness

-----------------------------------------------------------------------------
OptQuery == Queries \cup {NoQuery}

(* Every variable keeps its type, through both threads that pop the queue.  *)
TypeOK ==
    /\ threadState \in {"RUNNING", "CLOSING", "TERMINATED"}
    /\ tasks \in Seq(Queries)
    /\ dbPc \in {"loop", "lock", "waiting", "woken", "run", "post", "done"}
    /\ callPc \in [Callers -> {"idle", "signal", "flush", "flushRun", "flushPost"}]
    /\ inHand \in [Runners -> OptQuery]
    /\ posting \in [Runners -> OptQuery]
    /\ phase \in {"online", "saving", "stopping", "closing", "exiting", "exited"}
    /\ dispatcherOpen \in BOOLEAN
    /\ submitted \in Seq(Queries)
    /\ executed \in Seq(Queries)
    /\ callbacks \in Seq(Queries)

Held == {inHand[r] : r \in Runners} \ {NoQuery}

(* A query accepted by addTask is queued, in the hands of one thread or     *)
(* executed, and only one of the three: threadMain and flush pop the same   *)
(* list concurrently, and no query is lost or run twice.                    *)
ExactlyOnce ==
    /\ IsInjective(tasks) /\ IsInjective(executed)
    /\ inHand["threadMain"] = inHand["flush"] => inHand["flush"] = NoQuery
    /\ ToSet(tasks) \cap ToSet(executed) = {}
    /\ Held \cap (ToSet(tasks) \cup ToSet(executed)) = {}
    /\ ToSet(submitted) = ToSet(tasks) \cup Held \cup ToSet(executed)

(* flush overtakes threadMain by what that thread holds, and no more: when  *)
(* a query has been executed and an earlier one has not, the earlier one is *)
(* in a thread's hands (runTask runs outside taskLock).                     *)
OvertakesOnlyHeld ==
    \A i, j \in DOMAIN submitted :
        i < j /\ submitted[j] \in ToSet(executed)
          => submitted[i] \in ToSet(executed) \cup Held

(* When both the shutdown and the database thread are over, no accepted     *)
(* query is left: what addTask accepts after threadState is TERMINATED      *)
(* would never run.                                                         *)
ShutdownDrains ==
    phase = "exited" /\ dbPc = "done" => ToSet(submitted) = ToSet(executed)

(* The signal of addTask, given only when the queue was empty, is enough:   *)
(* every accepted query is executed in the end.                             *)
AcceptedIsExecuted ==
    \A q \in Queries : q \in ToSet(submitted) ~> q \in ToSet(executed)

(* No accepted query is left behind, while the server runs or when it ends. *)
NoneLeftBehind == []ShutdownDrains /\ AcceptedIsExecuted

(* "case SIGTERM: //Shuts the server down" (signals.cpp:155): a shutdown    *)
(* ends the database thread, which main joins before it returns.            *)
ShutdownEndsThread == phase = "exiting" ~> dbPc = "done"
=============================================================================
