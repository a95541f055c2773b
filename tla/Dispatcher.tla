----------------------------- MODULE Dispatcher -----------------------------
(***************************************************************************)
(* The dispatcher (tasks.cpp): one thread that runs, in the order they     *)
(* were accepted, the tasks every other thread posts, and the way Game     *)
(* ends it.                                                                *)
(*                                                                         *)
(* threadMain takes the whole list in one swap and runs it with the lock   *)
(* released.  A task may post further tasks, and may begin the shutdown    *)
(* (Game::setGameState): the task of Game::shutdown is posted, the holder  *)
(* is stopped, and when that task runs, Dispatcher::shutdown puts one last *)
(* task behind everything accepted.  When no service came up, it is the    *)
(* main thread that calls Dispatcher::shutdown, without stopping it first. *)
(***************************************************************************)
EXTENDS Naturals, SequencesExt

CONSTANTS
    Tasks,          \* the calls of addTask that can happen (bounds the model)
    Expiring,       \* the tasks created with an expiration
    Others,         \* the threads that post tasks: network, scheduler, database
    GameShutdown,   \* the task of Game::shutdown
    Terminate,      \* the task Dispatcher::shutdown creates
    NoTask          \* "no task runs"

ASSUME TasksAssumption ==
    /\ Expiring \subseteq Tasks
    /\ GameShutdown \notin Tasks
    /\ Terminate \notin Tasks
    /\ NoTask \notin Tasks
    /\ GameShutdown # Terminate
    /\ GameShutdown # NoTask
    /\ Terminate # NoTask

VARIABLES
    threadState,    \* ThreadHolder::threadState of g_dispatcher
    taskList,       \* Dispatcher::taskList
    batch,          \* what is left to run of threadMain's tmpTaskList
    current,        \* the task that runs, or NoTask
    pc,             \* where the dispatcher thread is in threadMain
    otherPc,        \* where each other thread is in addTask
    phase,          \* how far the shutdown has gone; "unserved": no service came up
    accepted,       \* history: the tasks put in taskList, in order
    served          \* history: the tasks run or found expired, in order

listVars == <<threadState, taskList>>
vars == <<listVars, batch, current, pc, otherPc, phase, accepted, served>>

AllTasks == Tasks \cup {GameShutdown, Terminate}

Init ==
    /\ threadState = "RUNNING"
    /\ taskList = <<>>
    /\ batch = <<>>
    /\ current = NoTask
    /\ pc = "loop"
    /\ otherPc = [o \in Others |-> "idle"]
    /\ phase \in {"online", "unserved"}
    /\ accepted = <<>>
    /\ served = <<>>

-----------------------------------------------------------------------------
(* taskSignal.notify_one(): only the dispatcher thread waits on it.         *)
NotifyOne == pc' = IF pc = "waiting" THEN "woken" ELSE pc

(* taskList.push_back under taskLock.                                       *)
PushBack(t) ==
    /\ taskList' = Append(taskList, t)
    /\ accepted' = Append(accepted, t)

(* A bug: the emptiness of the list is looked at after push_back.           *)
BadAddNoSignal(o, t) ==
    /\ otherPc[o] = "idle"
    /\ t \notin ToSet(accepted)
    /\ threadState = "RUNNING"
    /\ PushBack(t)
    /\ otherPc' = [otherPc EXCEPT ![o] = IF taskList' = <<>> THEN "signal" ELSE "idle"]
    /\ UNCHANGED <<threadState, batch, current, pc, phase, served>>

(* addTask, lines 69-78, in another thread.  A holder that does not run     *)
(* deletes the task; a list that was not empty needs no signal.             *)
AddTask(o, t) ==
    /\ otherPc[o] = "idle"
    /\ t \notin ToSet(accepted)
    /\ threadState = "RUNNING"
    /\ PushBack(t)
    /\ otherPc' = [otherPc EXCEPT ![o] = IF taskList = <<>> THEN "signal" ELSE "idle"]
    /\ UNCHANGED <<threadState, batch, current, pc, phase, served>>

(* addTask, lines 80-83: the signal, with the lock released.                *)
SignalAdded(o) ==
    /\ otherPc[o] = "signal"
    /\ otherPc' = [otherPc EXCEPT ![o] = "idle"]
    /\ NotifyOne
    /\ UNCHANGED <<listVars, batch, current, phase, accepted, served>>

-----------------------------------------------------------------------------
(* The dispatcher thread.                                                   *)

(* threadMain, line 43: the state is read without the lock.                 *)
CheckState ==
    /\ pc = "loop"
    /\ pc' = IF threadState # "TERMINATED" THEN "lock" ELSE "done"
    /\ UNCHANGED <<listVars, batch, current, otherPc, phase, accepted, served>>

(* threadMain, lines 45-49.                                                 *)
Wait ==
    /\ pc = "lock"
    /\ taskList = <<>>
    /\ pc' = "waiting"
    /\ UNCHANGED <<listVars, batch, current, otherPc, phase, accepted, served>>

(* A condition variable may wake up on its own; the swap then takes an      *)
(* empty list.                                                              *)
SpuriousWake ==
    /\ pc = "waiting"
    /\ pc' = "woken"
    /\ UNCHANGED <<listVars, batch, current, otherPc, phase, accepted, served>>

(* A bug: the list is copied and not swapped.                               *)
BadSwapCopy ==
    /\ pc \in {"lock", "woken"}
    /\ pc = "lock" => taskList # <<>>
    /\ batch' = taskList
    /\ pc' = "run"
    /\ UNCHANGED <<threadState, taskList, current, otherPc, phase, accepted, served>>

(* threadMain, lines 50-51: the whole list is taken.                        *)
Swap ==
    /\ pc \in {"lock", "woken"}
    /\ pc = "lock" => taskList # <<>>
    /\ batch' = taskList
    /\ taskList' = <<>>
    /\ pc' = "run"
    /\ UNCHANGED <<threadState, current, otherPc, phase, accepted, served>>

(* threadMain, lines 53-54 and 59: the task has expired and is deleted.     *)
DropExpired ==
    /\ pc = "run"
    /\ batch # <<>>
    /\ Head(batch) \in Expiring
    /\ served' = Append(served, Head(batch))
    /\ batch' = Tail(batch)
    /\ UNCHANGED <<listVars, current, pc, otherPc, phase, accepted>>

(* threadMain, lines 53-57: the call of a task begins.                      *)
BeginTask ==
    /\ pc = "run"
    /\ batch # <<>>
    /\ current' = Head(batch)
    /\ batch' = Tail(batch)
    /\ pc' = "task"
    /\ UNCHANGED <<listVars, otherPc, phase, accepted, served>>

(* threadMain, lines 57-59: the call returns and the task is deleted.       *)
EndTask ==
    /\ pc = "task"
    /\ phase # "queued"
    /\ current = GameShutdown => phase = "exiting"
    /\ current = Terminate => threadState = "TERMINATED"
    /\ served' = Append(served, current)
    /\ current' = NoTask
    /\ pc' = "run"
    /\ UNCHANGED <<listVars, batch, otherPc, phase, accepted>>

(* threadMain, lines 61-62: the batch is over.                              *)
EndBatch ==
    /\ pc = "run"
    /\ batch = <<>>
    /\ pc' = "loop"
    /\ UNCHANGED <<listVars, batch, current, otherPc, phase, accepted, served>>

-----------------------------------------------------------------------------
(* What a task does to the dispatcher while it runs.  The thread that would *)
(* be signalled is the one that runs: addTask is its section under the lock.*)

TaskAdds(t) ==
    /\ current \in Tasks
    /\ phase # "queued"
    /\ t \notin ToSet(accepted)
    /\ threadState = "RUNNING"
    /\ PushBack(t)
    /\ UNCHANGED <<threadState, batch, current, pc, otherPc, phase, served>>

(* Game::setGameState(GAME_STATE_SHUTDOWN), lines 135-136.                  *)
SetGameStateShutdown ==
    /\ current \in Tasks
    /\ phase = "online"
    /\ phase' = "queued"
    /\ PushBack(GameShutdown)
    /\ UNCHANGED <<threadState, batch, current, pc, otherPc, served>>

(* Game::setGameState, line 140: g_dispatcher.stop().                       *)
Stop ==
    /\ current \in Tasks
    /\ phase = "queued"
    /\ phase' = "closing"
    /\ threadState' = "CLOSING"
    /\ UNCHANGED <<taskList, batch, current, pc, otherPc, accepted, served>>

(* Game::shutdown calls Dispatcher::shutdown, lines 88-96.                  *)
Shutdown ==
    /\ current = GameShutdown
    /\ phase = "closing"
    /\ phase' = "exiting"
    /\ PushBack(Terminate)
    /\ UNCHANGED <<threadState, batch, current, pc, otherPc, served>>

(* A bug: the last task is queued without a signal.                         *)
BadMainNoSignal ==
    /\ phase = "unserved"
    /\ phase' = "ending"
    /\ PushBack(Terminate)
    /\ UNCHANGED <<threadState, batch, current, pc, otherPc, served>>

(* main calls it itself when no service came up (otserv.cpp:100): the       *)
(* holder still accepts tasks.                                              *)
MainShutdown ==
    /\ phase = "unserved"
    /\ phase' = "ending"
    /\ PushBack(Terminate)
    /\ NotifyOne
    /\ UNCHANGED <<threadState, batch, current, otherPc, served>>

(* The last task, lines 88-91.                                              *)
RunTerminate ==
    /\ current = Terminate
    /\ threadState # "TERMINATED"
    /\ threadState' = "TERMINATED"
    /\ UNCHANGED <<taskList, batch, current, pc, otherPc, phase, accepted, served>>

-----------------------------------------------------------------------------
DispatcherThread ==
    CheckState \/ Wait \/ Swap \/ DropExpired \/ BeginTask \/ EndTask \/ EndBatch

(* The shutdown runs to its end once a task has begun it.                   *)
ShutdownSteps == Stop \/ Shutdown \/ RunTerminate

Next ==
    \/ \E o \in Others : SignalAdded(o) \/ \E t \in Tasks : AddTask(o, t)
    \/ \E t \in Tasks : TaskAdds(t)
    \/ DispatcherThread
    \/ SpuriousWake
    \/ SetGameStateShutdown
    \/ ShutdownSteps
    \/ MainShutdown

(* The operating system runs every thread; a task that begins to run        *)
(* returns.  Nobody has to post a task or to shut down.                     *)
Fairness ==
    /\ WF_vars(DispatcherThread)
    /\ WF_vars(ShutdownSteps)
    /\ \A o \in Others : WF_vars(SignalAdded(o))

Spec == Init /\ [][Next]_vars
FairSpec == Spec /\ Fairness

-----------------------------------------------------------------------------
(* Every variable keeps its type, in the three threads' steps.              *)
TypeOK ==
    /\ threadState \in {"RUNNING", "CLOSING", "TERMINATED"}
    /\ taskList \in Seq(AllTasks)
    /\ batch \in Seq(AllTasks)
    /\ current \in AllTasks \cup {NoTask}
    /\ pc \in {"loop", "lock", "waiting", "woken", "run", "task", "done"}
    /\ otherPc \in [Others -> {"idle", "signal"}]
    /\ phase \in {"online", "queued", "closing", "exiting", "unserved", "ending"}
    /\ accepted \in Seq(AllTasks)
    /\ served \in Seq(AllTasks)

Running == IF current = NoTask THEN <<>> ELSE <<current>>

(* What has been accepted and is not served: the task that runs, what is    *)
(* left of the batch, the list.                                             *)
Unserved == Running \o batch \o taskList

(* The tasks served, the one that runs, the batch and the list are, in that *)
(* order, what addTask accepted: no task is lost, doubled or overtaken,     *)
(* though the list is taken and filled by different threads.                *)
Fifo == served \o Unserved = accepted

(* The dispatcher never sleeps over a task: when it waits and the list is   *)
(* not empty, a thread is about to signal.  addTask signals only when it    *)
(* found the list empty.                                                    *)
SignalIsDue ==
    pc = "waiting" /\ taskList # <<>> => \E o \in Others : otherPc[o] = "signal"

(* The dispatcher implements the queue the rest of the program relies on.   *)
Queue == INSTANCE TaskQueue WITH Tasks <- AllTasks, queue <- Unserved, served <- served
ServesInOrder == Queue!Spec

(* Every task accepted is served, that of Game::shutdown and the last one   *)
(* too, unless main ends a dispatcher that it did not stop first; and a     *)
(* shutdown begun, by Game or by main, ends the thread main joins.          *)
ServesToTheEnd ==
    /\ \A t \in AllTasks :
          t \in ToSet(accepted) ~> t \in ToSet(served) \/ phase = "ending"
    /\ phase \in {"closing", "exiting", "ending"} ~> pc = "done"
=============================================================================
