-------------------------- MODULE DispatcherProofs --------------------------
(***************************************************************************)
(* For any tasks and threads: the types of Dispatcher, that it serves in   *)
(* the order of acceptance (it implements TaskQueue), and that it never    *)
(* sleeps over a task nobody will signal.  And of the fights of players,   *)
(* for any number of them and any sentences, that no mark outlives its     *)
(* fight and every sentence is served.                                     *)
(***************************************************************************)
EXTENDS Dispatcher, Skulls, QueueLemmas

(* What the program counter says of the task in hand and of the batch: the  *)
(* swap overwrites the batch, and the end of a task its hand.               *)
RunInv ==
    /\ current # NoTask <=> pc = "task"
    /\ batch # <<>> => pc \in {"run", "task"}

IInv == TypeOK /\ RunInv /\ SignalIsDue /\ Fifo

(* Where a task stands in the queue, without the loops around it.           *)
RunningTypeOK == Running \in Seq(AllTasks) /\ Unserved \in Seq(AllTasks)

-----------------------------------------------------------------------------
(* The queue is a sequence of tasks.                                        *)
LEMMA UnservedType == ASSUME TypeOK PROVE RunningTypeOK
<1>1. Running \in Seq(AllTasks)
  BY DEF TypeOK, Running
<1> QED
  BY <1>1 DEF TypeOK, RunningTypeOK, Unserved

(* A task at the back of the list is at the back of the queue.              *)
LEMMA PushedIsLast ==
    ASSUME TypeOK, NEW t \in AllTasks, PushBack(t), UNCHANGED <<batch, current>>
    PROVE  /\ taskList' \in Seq(AllTasks) /\ accepted' \in Seq(AllTasks)
           /\ Unserved' = Append(Unserved, t)
<1>1. Running \o batch \in Seq(AllTasks) /\ taskList \in Seq(AllTasks)
  BY UnservedType DEF RunningTypeOK, TypeOK
<1>2. Running' = Running
  BY DEF Running
<1>3. Unserved' = Append(Unserved, t)
  BY <1>1, <1>2, ConcatPush DEF Unserved, PushBack
<1> QED
  BY <1>3 DEF TypeOK, PushBack

(* The swap moves the list to the batch: the queue is the same.             *)
LEMMA SwapKeeps == ASSUME IInv, Swap PROVE UNCHANGED Unserved
<1>1. batch = <<>> /\ current = NoTask
  BY DEF IInv, RunInv, Swap
<1>2. Running = <<>> /\ Running' = <<>>
  BY <1>1 DEF Running, Swap
<1>3. taskList \in Seq(AllTasks) /\ batch' = taskList /\ taskList' = <<>>
  BY DEF IInv, TypeOK, Swap
<1> QED
  BY <1>1, <1>2, <1>3, ConcatNothing DEF Unserved

(* A task taken from the batch is still the first of the queue.             *)
LEMMA BeginKeeps == ASSUME IInv, BeginTask PROVE UNCHANGED Unserved
<1>1. current = NoTask /\ Running = <<>>
  BY DEF IInv, RunInv, BeginTask, Running
<1>2. batch \in Seq(AllTasks) /\ batch # <<>> /\ Head(batch) \in AllTasks
  BY DEF IInv, TypeOK, BeginTask
<1>3. Running' = <<Head(batch)>>
  BY <1>2, TasksAssumption DEF BeginTask, Running, AllTasks
<1>4. Running' \o batch' = Running \o batch
  BY <1>1, <1>2, <1>3, PopConcat, ConcatNothing DEF BeginTask
<1> QED
  BY <1>4 DEF Unserved, BeginTask, listVars

(* The end of a task serves the first of the queue.                         *)
LEMMA EndServes == ASSUME IInv, EndTask PROVE Queue!Serve
<1> DEFINE rest == batch \o taskList
<1>1. current \in AllTasks /\ current # NoTask
  BY DEF IInv, RunInv, TypeOK, EndTask
<1>2. Running = <<current>> /\ Running' = <<>>
  BY <1>1 DEF Running, EndTask
<1>3. batch \in Seq(AllTasks) /\ taskList \in Seq(AllTasks) /\ rest \in Seq(AllTasks)
  BY DEF IInv, TypeOK
<1>4. Unserved = <<current>> \o rest
  BY <1>1, <1>2, <1>3, ConcatStretches DEF Unserved
<1>5. Unserved' = rest
  BY <1>2, <1>3, ConcatNothing DEF Unserved, EndTask, listVars
<1>6. Unserved # <<>> /\ Head(Unserved) = current /\ Tail(Unserved) = rest
  <2>1. /\ Len(<<current>> \o rest) = Len(rest) + 1
        /\ Tail(<<current>> \o rest) \in Seq(AllTasks)
        /\ \A i \in 1..Len(rest) : Tail(<<current>> \o rest)[i] = rest[i]
    BY <1>1, <1>3
  <2>2. Tail(<<current>> \o rest) = rest
    BY <2>1, <1>3, SameSeq
  <2> QED
    BY <2>1, <2>2, <1>1, <1>3, <1>4
<1> QED
  BY <1>5, <1>6 DEF Queue!Serve, EndTask

(* So does a task found expired.                                            *)
LEMMA DropServes == ASSUME IInv, DropExpired PROVE Queue!Serve
<1>1. Running = <<>> /\ Running' = <<>>
  BY DEF IInv, RunInv, DropExpired, Running
<1>2. batch \in Seq(AllTasks) /\ batch # <<>> /\ taskList \in Seq(AllTasks)
  BY DEF IInv, TypeOK, DropExpired
<1>3. Unserved = batch \o taskList /\ Unserved' = Tail(batch) \o taskList
  BY <1>1, <1>2, ConcatNothing, PopElems DEF Unserved, DropExpired, listVars
<1>4. /\ Unserved # <<>>
      /\ Head(Unserved) = Head(batch)
      /\ Tail(Unserved) = Tail(batch) \o taskList
  <2> DEFINE a == Tail(batch \o taskList)  b == Tail(batch) \o taskList
  <2>1. batch \o taskList # <<>> /\ Head(batch \o taskList) = Head(batch)
    BY <1>2
  <2>2. a \in Seq(AllTasks) /\ b \in Seq(AllTasks) /\ Len(a) = Len(b)
    BY <1>2
  <2>3. ASSUME NEW i \in 1..Len(a) PROVE a[i] = b[i]
    BY <1>2
  <2>4. a = b
    BY <2>2, <2>3, SameSeq
  <2> QED
    BY <2>1, <2>4, <1>3
<1> QED
  BY <1>3, <1>4 DEF Queue!Serve, DropExpired
-----------------------------------------------------------------------------
(* Every step accepts a task, serves the first, or leaves the queue alone;  *)
(* the history of what was accepted follows.                                *)
Accepts ==
    \E t \in AllTasks : Queue!Accept(t) /\ accepted' = Append(accepted, t)
Serves == Queue!Serve /\ UNCHANGED accepted
LeavesQueue == UNCHANGED <<Unserved, served, accepted>>

LEMMA StepEffect == IInv /\ [Next]_vars => Accepts \/ Serves \/ LeavesQueue
<1> SUFFICES ASSUME IInv, [Next]_vars PROVE Accepts \/ Serves \/ LeavesQueue
  OBVIOUS
<1> USE DEF IInv, listVars
<1>1. ASSUME NEW t \in AllTasks, PushBack(t), UNCHANGED <<batch, current, served>>
      PROVE  Accepts
  BY <1>1, PushedIsLast DEF Accepts, PushBack, Queue!Accept
<1>2. ASSUME UNCHANGED <<taskList, batch, current, served, accepted>> PROVE LeavesQueue
  BY <1>2 DEF LeavesQueue, Unserved, Running
<1>3. ASSUME NEW o \in Others, NEW t \in Tasks, AddTask(o, t) PROVE Accepts
  BY <1>1, <1>3 DEF AddTask, AllTasks
<1>4. ASSUME NEW o \in Others, SignalAdded(o) PROVE LeavesQueue
  BY <1>2, <1>4 DEF SignalAdded
<1>5. ASSUME NEW t \in Tasks, TaskAdds(t) PROVE Accepts
  BY <1>1, <1>5 DEF TaskAdds, AllTasks
<1>6. CASE CheckState \/ Wait \/ EndBatch \/ SpuriousWake \/ Stop \/ RunTerminate
  BY <1>2, <1>6 DEF CheckState, Wait, EndBatch, SpuriousWake, Stop, RunTerminate
<1>7. CASE Swap
  BY <1>7, SwapKeeps DEF Swap, LeavesQueue
<1>8. CASE BeginTask
  BY <1>8, BeginKeeps DEF BeginTask, LeavesQueue
<1>9. CASE DropExpired
  BY <1>9, DropServes DEF DropExpired, Serves
<1>10. CASE EndTask
  BY <1>10, EndServes DEF EndTask, Serves
<1>11. CASE SetGameStateShutdown
  BY <1>11, <1>1 DEF SetGameStateShutdown, AllTasks
<1>12. CASE Shutdown
  BY <1>12, <1>1 DEF Shutdown, AllTasks
<1>13. CASE MainShutdown
  BY <1>13, <1>1 DEF MainShutdown, AllTasks
<1>14. CASE UNCHANGED vars
  BY <1>14, <1>2 DEF vars
<1> QED
  BY <1>3, <1>4, <1>5, <1>6, <1>7, <1>8, <1>9, <1>10, <1>11, <1>12, <1>13, <1>14
     DEF Next, DispatcherThread, ShutdownSteps

(* Init is a state of the strengthened invariant.                           *)
LEMMA InitIInv == Init => IInv
<1> SUFFICES ASSUME Init PROVE IInv
  OBVIOUS
<1>1. Unserved = <<>> /\ served \o Unserved = <<>>
  BY DEF Init, Unserved, Running
<1> QED
  BY <1>1, TasksAssumption DEF Init, IInv, TypeOK, RunInv, SignalIsDue, Fifo

(* Each step keeps the types; a pop takes a task from a list of tasks.      *)
LEMMA NextType == IInv /\ [Next]_vars => TypeOK'
<1> SUFFICES ASSUME IInv, [Next]_vars PROVE TypeOK'
  OBVIOUS
<1> USE DEF IInv, TypeOK, listVars
<1>1. ASSUME NEW o \in Others, NEW t \in Tasks, AddTask(o, t) PROVE TypeOK'
  BY <1>1 DEF AddTask, PushBack, AllTasks
<1>2. ASSUME NEW o \in Others, SignalAdded(o) PROVE TypeOK'
  BY <1>2 DEF SignalAdded, NotifyOne
<1>3. ASSUME NEW t \in Tasks, TaskAdds(t) PROVE TypeOK'
  BY <1>3 DEF TaskAdds, PushBack, AllTasks
<1>4. CASE CheckState \/ Wait \/ EndBatch \/ SpuriousWake \/ Stop \/ RunTerminate
  BY <1>4 DEF CheckState, Wait, EndBatch, SpuriousWake, Stop, RunTerminate
<1>5. CASE Swap
  BY <1>5 DEF Swap
<1>6. CASE BeginTask \/ DropExpired
  <2>1. Head(batch) \in AllTasks /\ Tail(batch) \in Seq(AllTasks)
    BY <1>6, PopElems DEF BeginTask, DropExpired
  <2> QED
    <3>1. CASE BeginTask
      BY <2>1, <3>1 DEF BeginTask
    <3>2. CASE DropExpired
      <4>1. served' \in Seq(AllTasks)
        BY <2>1, <3>2 DEF DropExpired
      <4> QED
        BY <2>1, <3>2, <4>1 DEF DropExpired
    <3> QED
      BY <1>6, <3>1, <3>2
<1>7. CASE EndTask
  <2>1. current \in AllTasks
    BY <1>7 DEF EndTask, RunInv
  <2> QED
    BY <1>7, <2>1 DEF EndTask
<1>8. CASE SetGameStateShutdown \/ Shutdown
  <2>1. ASSUME NEW t \in AllTasks, PushBack(t)
        PROVE  taskList' \in Seq(AllTasks) /\ accepted' \in Seq(AllTasks)
    BY <2>1 DEF PushBack
  <2>2. taskList' \in Seq(AllTasks) /\ accepted' \in Seq(AllTasks)
    BY <1>8, <2>1 DEF SetGameStateShutdown, Shutdown, AllTasks
  <2> QED
    BY <1>8, <2>2 DEF SetGameStateShutdown, Shutdown
<1>9. CASE MainShutdown
  BY <1>9 DEF MainShutdown, PushBack, NotifyOne, AllTasks
<1>10. CASE UNCHANGED vars
  BY <1>10 DEF vars
<1> QED
  BY <1>1, <1>2, <1>3, <1>4, <1>5, <1>6, <1>7, <1>8, <1>9, <1>10
     DEF Next, DispatcherThread, ShutdownSteps

(* Each step keeps the bond of the counter with the hand and the batch, and *)
(* a thread that made the list non-empty still has to signal, unless the    *)
(* dispatcher is awake.                                                     *)
LEMMA NextRun == IInv /\ [Next]_vars => RunInv' /\ SignalIsDue'
<1> SUFFICES ASSUME IInv, [Next]_vars PROVE RunInv' /\ SignalIsDue'
  OBVIOUS
<1> USE DEF IInv, RunInv, SignalIsDue, listVars
<1>1. ASSUME NEW o \in Others, NEW t \in Tasks, AddTask(o, t)
      PROVE  RunInv' /\ SignalIsDue'
  <2>1. otherPc \in [Others -> {"idle", "signal"}]
    BY DEF TypeOK
  <2>2. CASE taskList = <<>>
    <3>1. otherPc'[o] = "signal"
      BY <1>1, <2>1, <2>2 DEF AddTask
    <3> QED
      BY <1>1, <3>1 DEF AddTask
  <2>3. CASE taskList # <<>>
    <3>1. otherPc' = otherPc
      BY <1>1, <2>1, <2>3 DEF AddTask
    <3> QED
      BY <1>1, <2>3, <3>1 DEF AddTask
  <2> QED
    BY <2>2, <2>3
<1>2. ASSUME NEW o \in Others, SignalAdded(o) PROVE RunInv' /\ SignalIsDue'
  BY <1>2 DEF SignalAdded, NotifyOne
<1>3. ASSUME NEW t \in Tasks, TaskAdds(t) PROVE RunInv' /\ SignalIsDue'
  <2>1. pc = "task"
    BY <1>3, TasksAssumption DEF TaskAdds
  <2> QED
    BY <1>3, <2>1 DEF TaskAdds
<1>4. CASE CheckState \/ Wait \/ EndBatch \/ SpuriousWake \/ Stop \/ RunTerminate
  BY <1>4 DEF CheckState, Wait, EndBatch, SpuriousWake, Stop, RunTerminate
<1>5. CASE Swap \/ DropExpired \/ EndTask
  BY <1>5 DEF Swap, DropExpired, EndTask
<1>6. CASE BeginTask
  <2>1. Head(batch) \in AllTasks
    BY <1>6 DEF BeginTask, TypeOK
  <2> QED
    BY <1>6, <2>1, TasksAssumption DEF BeginTask, AllTasks
<1>7. CASE SetGameStateShutdown \/ Shutdown
  <2>1. pc = "task"
    BY <1>7, TasksAssumption DEF SetGameStateShutdown, Shutdown
  <2> QED
    BY <1>7, <2>1 DEF SetGameStateShutdown, Shutdown
<1>8. CASE MainShutdown
  BY <1>8 DEF MainShutdown, NotifyOne
<1>9. CASE UNCHANGED vars
  BY <1>9 DEF vars
<1> QED
  BY <1>1, <1>2, <1>3, <1>4, <1>5, <1>6, <1>7, <1>8, <1>9
     DEF Next, DispatcherThread, ShutdownSteps

(* What is served and what is not yet served stay, one after the other, the *)
(* list of what was accepted.                                               *)
LEMMA NextFifo == IInv /\ [Next]_vars => Fifo'
<1> SUFFICES ASSUME IInv, [Next]_vars PROVE Fifo'
  OBVIOUS
<1>1. served \in Seq(AllTasks) /\ Unserved \in Seq(AllTasks)
  BY UnservedType DEF IInv, TypeOK, RunningTypeOK
<1>2. served \o Unserved = accepted
  BY DEF IInv, Fifo
<1>3. CASE Accepts
  BY <1>1, <1>2, <1>3, ConcatPush DEF Accepts, Queue!Accept, Fifo
<1>4. CASE Serves
  BY <1>1, <1>2, <1>4, MoveHead DEF Serves, Queue!Serve, Fifo
<1>5. CASE LeavesQueue
  BY <1>2, <1>5 DEF LeavesQueue, Fifo
<1> QED
  BY <1>3, <1>4, <1>5, StepEffect

(* Every step keeps the strengthened invariant.                             *)
LEMMA NextIInv == IInv /\ [Next]_vars => IInv'
  BY NextType, NextRun, NextFifo DEF IInv

-----------------------------------------------------------------------------
(* For any tasks and threads, the variables keep their types.               *)
THEOREM DispatcherTypes == Spec => []TypeOK
<1>1. IInv => TypeOK
  BY DEF IInv
<1> QED
  BY InitIInv, NextIInv, <1>1, PTL DEF Spec

(* For any tasks and threads, what has been served, what runs, the batch    *)
(* and the list make up, in that order, what addTask accepted: none lost,   *)
(* none twice, none overtaken (tasks.cpp:43-84).                            *)
THEOREM DispatcherFifo == Spec => []Fifo
<1>1. IInv => Fifo
  BY DEF IInv
<1> QED
  BY InitIInv, NextIInv, <1>1, PTL DEF Spec

(* For any tasks and threads, the dispatcher never waits over a task that   *)
(* nobody is about to signal, though addTask signals only when it found the *)
(* list empty, and after the lock is released (tasks.cpp:71-83).            *)
THEOREM DispatcherSignalIsDue == Spec => []SignalIsDue
<1>1. IInv => SignalIsDue
  BY DEF IInv
<1> QED
  BY InitIInv, NextIInv, <1>1, PTL DEF Spec

(* For any tasks and threads, the dispatcher implements TaskQueue: the      *)
(* swap, the batch and the lock are invisible to those who post tasks.      *)
THEOREM DispatcherImplementsQueue == Spec => ServesInOrder
<1>1. Init => Queue!Init
  BY DEF Init, Queue!Init, Unserved, Running
<1>2. IInv /\ [Next]_vars => [Queue!Next]_<<Unserved, served>>
  BY StepEffect DEF Accepts, Serves, LeavesQueue, Queue!Next
<1> QED
  BY InitIInv, NextIInv, <1>1, <1>2, PTL DEF Spec, ServesInOrder, Queue!Spec
-----------------------------------------------------------------------------
(* Fights and skulls.                                                       *)
Fights == {n \in Int : n >= NoFight}
FighterRecords ==
    [online : BOOLEAN, fight : Fights, pzLocked : BOOLEAN, attacked : SUBSET Fighters,
     skull : {"none", "white", "red", "black"}, skullTicks : Nat,
     damagedBy : SUBSET Fighters, lastHit : Fighters \cup {NoFighter}]
SkullRows == [until : Nat, fight : Fights, skull : {"none", "red", "black"}]

(* The sentences from which on a skull is red, and black.                   *)
RedAbove == (KillsToRed - 1) * FragTime
BlackAbove == (KillsToBlack - 1) * FragTime

(* One player's marks end with its fight; who is gone has attacked nobody,  *)
(* so that nobody is convicted while outside.                               *)
Marked(f) ==
    /\ f.pzLocked \/ f.attacked # {} \/ f.skull = "white" => f.fight # NoFight
    /\ ~f.online => f.attacked = {}

(* A skull that is what n seconds of sentence make it, or a worse one.      *)
Branded(skull, n) ==
    /\ n > RedAbove => skull \in {"red", "black"}
    /\ n > BlackAbove => skull = "black"
Bears(f, row, n) ==
    IF f.online THEN f.skullTicks >= n /\ Branded(f.skull, n)
    ELSE row.until >= n /\ Branded(row.skull, n)

SkullTypeOK ==
    /\ fighter \in [Fighters -> FighterRecords]
    /\ skullRow \in [Fighters -> SkullRows]
    /\ owed \in [Fighters -> Nat]

SkullInv ==
    /\ SkullTypeOK
    /\ \A p \in Fighters : Marked(fighter[p])
    /\ \A p \in Fighters : Bears(fighter[p], skullRow[p], owed[p])

(* All players, in the middle of a step that has got as far as m.           *)
MarkedAll(m) == m \in [Fighters -> FighterRecords] /\ \A p \in Fighters : Marked(m[p])

(* A step from f to g that takes nothing off a sentence.                    *)
Harsher(f, g) ==
    /\ g.online = f.online
    /\ g.skullTicks >= f.skullTicks
    /\ f.skull \in {"red", "black"} => g.skull \in {"red", "black"}
    /\ f.skull = "black" => g.skull = "black"

(* A skull is never red or black for nothing.                               *)
LEMMA Thresholds == RedAbove \in Nat /\ BlackAbove \in Nat
<1>1. \A n \in Nat \ {0} : (n - 1) * FragTime \in Nat
  <2> TAKE n \in Nat \ {0}
  <2>1. n - 1 \in Nat /\ FragTime \in Nat
    BY SkullsAssumption
  <2>2. \A i, j \in Nat : i * j \in Nat
    BY Z3
  <2> QED
    BY <2>1, <2>2
<1> QED
  BY <1>1, SkullsAssumption DEF RedAbove, BlackAbove

(* A blow prolongs a fight, whatever else a player is marked with.          *)
LEMMA LongerFights ==
    ASSUME NEW f \in FighterRecords, NEW n \in Nat \ {0}
    PROVE  /\ Longer(f, n) \in FighterRecords
           /\ Longer(f, n).fight >= n
           /\ Harsher(f, Longer(f, n))
           /\ Longer(f, n).attacked = f.attacked
<1>1. f.fight \in Fights /\ Longer(f, n) = [f EXCEPT !.fight = IF f.fight <= n THEN n ELSE f.fight]
  BY DEF FighterRecords, Longer
<1>2. (IF f.fight <= n THEN n ELSE f.fight) \in Fights
  BY <1>1 DEF Fights, NoFight
<1> QED
  BY <1>1, <1>2 DEF FighterRecords, Harsher, Fights

(* So the one it is prolonged for has a fight for its marks.                *)
LEMMA InFightTicks ==
    ASSUME NEW m \in [Fighters -> FighterRecords], NEW p \in Fighters,
           ~m[p].online => m[p].attacked = {},
           \A q \in Fighters \ {p} : Marked(m[q])
    PROVE  /\ MarkedAll(AddInFightTicks(m, p))
           /\ \A q \in Fighters : Harsher(m[q], AddInFightTicks(m, p)[q])
<1> DEFINE n == AddInFightTicks(m, p)
<1>1. n = [m EXCEPT ![p] = Longer(m[p], PzTime)]
  BY DEF AddInFightTicks
<1>2. PzTime \in Nat \ {0}
  BY SkullsAssumption
<1>3. /\ Longer(m[p], PzTime) \in FighterRecords /\ Longer(m[p], PzTime).fight >= PzTime
      /\ Harsher(m[p], Longer(m[p], PzTime)) /\ Longer(m[p], PzTime).attacked = m[p].attacked
  BY <1>2, LongerFights
<1>4. n[p] = Longer(m[p], PzTime) /\ \A q \in Fighters \ {p} : n[q] = m[q]
  BY <1>1
<1>5. n \in [Fighters -> FighterRecords]
  BY <1>1, <1>3
<1>6. Marked(n[p])
  BY <1>2, <1>3, <1>4 DEF Marked, Harsher, NoFight, FighterRecords, Fights
<1>7. \A q \in Fighters : Harsher(m[q], n[q])
  BY <1>3, <1>4 DEF Harsher, FighterRecords
<1> QED
  BY <1>4, <1>5, <1>6, <1>7 DEF MarkedAll

(* What holds of two steps holds of both together.                          *)
LEMMA HarsherTwice ==
    ASSUME NEW f \in FighterRecords, NEW g \in FighterRecords, NEW h \in FighterRecords,
           Harsher(f, g), Harsher(g, h)
    PROVE  Harsher(f, h)
  BY DEF Harsher, FighterRecords

(* The attacker, with all it has attacked, and perhaps a white skull.       *)
Struck(f, all) == [f EXCEPT !.attacked = all]
Locked(f, all, c) == [f EXCEPT !.pzLocked = TRUE, !.attacked = all, !.skull = c]
LEMMA AttackerMarked ==
    ASSUME NEW f \in FighterRecords, NEW all \in SUBSET Fighters,
           NEW c \in {"none", "white", "red", "black"}, f.skull = "none" \/ c = f.skull
    PROVE  /\ Struck(f, all) \in FighterRecords /\ Struck(f, all).online = f.online
           /\ Harsher(f, Struck(f, all))
           /\ Locked(f, all, c) \in FighterRecords /\ Locked(f, all, c).online = f.online
           /\ Harsher(f, Locked(f, all, c))
<1>1. Struck(f, all) \in FighterRecords
  BY DEF FighterRecords, Struck
<1>2. Locked(f, all, c) \in FighterRecords
  BY DEF FighterRecords, Locked
<1>3. Harsher(f, Struck(f, all))
  BY DEF FighterRecords, Harsher, Struck
<1>4. Harsher(f, Locked(f, all, c))
  BY DEF FighterRecords, Harsher, Locked
<1> QED
  BY <1>1, <1>2, <1>3, <1>4 DEF Harsher

(* An attack marks the attacker, for whom the fight is prolonged after it.  *)
LEMMA AttackMarks ==
    ASSUME NEW m, MarkedAll(m), NEW a \in Fighters, NEW v \in Fighters, m[a].online
    PROVE  /\ MarkedAll(OnAttackedCreature(m, a, v))
           /\ \A q \in Fighters : Harsher(m[q], OnAttackedCreature(m, a, v)[q])
<1> DEFINE n == AddInFightTicks(m, v)
<1>1. MarkedAll(n) /\ \A q \in Fighters : Harsher(m[q], n[q])
  BY InFightTicks DEF MarkedAll, Marked
<1> HIDE DEF n
<1> DEFINE k == MarkedFor(n, a, v)
<1>2. n \in [Fighters -> FighterRecords] /\ m \in [Fighters -> FighterRecords] /\ n[a].online
  BY <1>1 DEF MarkedAll, Harsher
<1>3. /\ k \in [Fighters -> FighterRecords] /\ k[a].online /\ Harsher(n[a], k[a])
      /\ \A q \in Fighters \ {a} : k[q] = n[q]
  <2> DEFINE all == n[a].attacked \cup {v}
             skull == IF n[v].skull = "none" /\ n[a].skull = "none" THEN "white" ELSE n[a].skull
             g == Struck(n[a], all)
             h == Locked(n[a], all, skull)
  <2>1. n[a] \in FighterRecords /\ n[a].online /\ all \in SUBSET Fighters
    BY <1>2 DEF FighterRecords
  <2>2. skull \in {"none", "white", "red", "black"} /\ (n[a].skull = "none" \/ skull = n[a].skull)
    BY <2>1 DEF FighterRecords
  <2> HIDE DEF skull, all
  <2>3. /\ g \in FighterRecords /\ g.online = n[a].online /\ Harsher(n[a], g)
        /\ h \in FighterRecords /\ h.online = n[a].online /\ Harsher(n[a], h)
    BY <2>1, <2>2, AttackerMarked
  <2>6. Harsher(n[a], n[a])
    BY <2>1 DEF FighterRecords, Harsher
  <2>7. k = n \/ k = [n EXCEPT ![a] = g] \/ k = [n EXCEPT ![a] = h]
    BY <1>2 DEF MarkedFor, Struck, Locked, skull, all
  <2> HIDE DEF g, h, k
  <2> QED
    BY <1>2, <2>1, <2>3, <2>6, <2>7
<1> HIDE DEF k
<1>4. \A q \in Fighters : Harsher(n[q], k[q])
  BY <1>2, <1>3 DEF Harsher, FighterRecords
<1>5. \A q \in Fighters \ {a} : Marked(k[q])
  BY <1>1, <1>3 DEF MarkedAll
<1>6. /\ MarkedAll(AddInFightTicks(k, a))
      /\ \A q \in Fighters : Harsher(k[q], AddInFightTicks(k, a)[q])
  BY <1>3, <1>5, InFightTicks
<1>7. \A q \in Fighters : Harsher(m[q], AddInFightTicks(k, a)[q])
  <2> TAKE q \in Fighters
  <2>1. Harsher(m[q], k[q])
    BY <1>1, <1>2, <1>3, <1>4, HarsherTwice
  <2> QED
    BY <1>2, <1>3, <1>6, <2>1, HarsherTwice DEF MarkedAll
<1>8. /\ MarkedAll(AddInFightTicks(m, a))
      /\ \A q \in Fighters : Harsher(m[q], AddInFightTicks(m, a)[q])
  BY <1>2, InFightTicks DEF MarkedAll
<1>9. OnAttackedCreature(m, a, v) = AddInFightTicks(IF <<a, v>> \in Mates THEN m ELSE k, a)
  BY DEF OnAttackedCreature, With, k, n
<1>10. CASE <<a, v>> \in Mates
  BY <1>8, <1>9, <1>10
<1>11. CASE <<a, v>> \notin Mates
  BY <1>6, <1>7, <1>9, <1>11
<1> QED
  BY <1>10, <1>11

(* A sentence is brought upon whoever is convicted, and its skull.          *)
LEMMA Conviction ==
    ASSUME NEW f \in FighterRecords, Marked(f)
    PROVE  /\ Convicted(f) \in FighterRecords /\ Marked(Convicted(f))
           /\ Harsher(f, Convicted(f))
           /\ Convicted(f).skullTicks = f.skullTicks + FragTime
           /\ Branded(Convicted(f).skull, Convicted(f).skullTicks)
<1> DEFINE ticks == f.skullTicks + FragTime
           c == IF f.skull = "black" \/ ticks > BlackAbove THEN "black"
                ELSE IF ticks > RedAbove THEN "red" ELSE f.skull
<1>1. ticks \in Nat /\ ticks >= f.skullTicks
  BY SkullsAssumption DEF FighterRecords
<1>2. Convicted(f) = [f EXCEPT !.skullTicks = ticks, !.skull = c]
  BY DEF Convicted, RedAbove, BlackAbove
<1>3. c \in {"none", "white", "red", "black"} /\ Branded(c, ticks)
  BY Thresholds, <1>1 DEF FighterRecords, Branded
<1>4. /\ f.skull \in {"red", "black"} => c \in {"red", "black"}
      /\ f.skull = "black" => c = "black"
      /\ c = "white" => f.skull = "white"
  OBVIOUS
<1> HIDE DEF c, ticks
<1>5. Convicted(f) \in FighterRecords
  BY <1>1, <1>2, <1>3 DEF FighterRecords
<1>6. /\ Convicted(f).online = f.online /\ Convicted(f).fight = f.fight
      /\ Convicted(f).pzLocked = f.pzLocked /\ Convicted(f).attacked = f.attacked
      /\ Convicted(f).skullTicks = ticks /\ Convicted(f).skull = c
  BY <1>2 DEF FighterRecords
<1> QED
  BY <1>1, <1>3, <1>4, <1>5, <1>6 DEF Marked, Harsher, ticks

(* One that answers for a death: convicted if it was a murder, and in a     *)
(* fight, and out of protection zones, if the last hit was his.             *)
LEMMA Judgement ==
    ASSUME NEW m, MarkedAll(m), NEW a \in Fighters, NEW v \in Fighters, NEW last \in BOOLEAN
    PROVE  /\ MarkedAll(OnKilledCreature(m, a, v, last))
           /\ \A q \in Fighters : Harsher(m[q], OnKilledCreature(m, a, v, last)[q])
           /\ Murders(m, a, v) =>
                /\ OnKilledCreature(m, a, v, last)[a].skullTicks = m[a].skullTicks + FragTime
                /\ Branded(OnKilledCreature(m, a, v, last)[a].skull,
                           OnKilledCreature(m, a, v, last)[a].skullTicks)
<1> DEFINE n == OnKilledCreature(m, a, v, last)
           f == IF Murders(m, a, v) THEN Convicted(m[a]) ELSE m[a]
           g == IF last /\ InFight(f) THEN [Longer(f, WhiteTime) EXCEPT !.pzLocked = TRUE] ELSE f
<1>1. m \in [Fighters -> FighterRecords] /\ m[a] \in FighterRecords /\ Marked(m[a])
  BY DEF MarkedAll
<1>2. \A q \in Fighters : Harsher(m[q], m[q])
  BY <1>1 DEF Harsher, FighterRecords
<1>3. /\ f \in FighterRecords /\ Marked(f) /\ Harsher(m[a], f)
      /\ Murders(m, a, v) => /\ f.skullTicks = m[a].skullTicks + FragTime
                             /\ Branded(f.skull, f.skullTicks)
  BY <1>1, <1>2, Conviction
<1> HIDE DEF f
<1>4. /\ g \in FighterRecords /\ Marked(g) /\ Harsher(f, g)
      /\ g.skullTicks = f.skullTicks /\ g.skull = f.skull
  <2>1. WhiteTime \in Nat \ {0}
    BY SkullsAssumption
  <2> DEFINE l == Longer(f, WhiteTime)
  <2>2. /\ l \in FighterRecords /\ l.fight >= WhiteTime /\ Harsher(f, l) /\ l.attacked = f.attacked
        /\ l.skullTicks = f.skullTicks /\ l.skull = f.skull /\ l.online = f.online
    BY <1>3, <2>1, LongerFights DEF Longer, FighterRecords
  <2>3. l.fight # NoFight
    BY <2>1, <2>2 DEF NoFight, FighterRecords, Fights
  <2> HIDE DEF l
  <2>4. /\ [l EXCEPT !.pzLocked = TRUE] \in FighterRecords
        /\ [l EXCEPT !.pzLocked = TRUE].online = f.online
        /\ [l EXCEPT !.pzLocked = TRUE].fight # NoFight
        /\ [l EXCEPT !.pzLocked = TRUE].attacked = f.attacked
        /\ [l EXCEPT !.pzLocked = TRUE].skullTicks = f.skullTicks
        /\ [l EXCEPT !.pzLocked = TRUE].skull = f.skull
    BY <2>2, <2>3 DEF FighterRecords
  <2>5. Harsher(f, f)
    BY <1>3 DEF Harsher, FighterRecords
  <2>6. CASE last /\ InFight(f)
    <3>1. g = [l EXCEPT !.pzLocked = TRUE]
      BY <2>6 DEF l
    <3>2. f.skullTicks \in Nat
      BY <1>3 DEF FighterRecords
    <3> HIDE DEF g
    <3> QED
      BY <1>3, <2>4, <3>1, <3>2 DEF Marked, Harsher
  <2>7. CASE ~(last /\ InFight(f))
    BY <1>3, <2>5, <2>7
  <2> QED
    BY <2>6, <2>7
<1>5. Blamed(m, a, v) => n = [m EXCEPT ![a] = g]
  BY DEF OnKilledCreature, g, f
<1>6. ~Blamed(m, a, v) => n = m /\ ~Murders(m, a, v)
  BY DEF OnKilledCreature, Murders
<1> HIDE DEF g, n
<1>7. Harsher(m[a], g)
  BY <1>1, <1>3, <1>4, HarsherTwice
<1>8. CASE Blamed(m, a, v)
  <2>1. n \in [Fighters -> FighterRecords] /\ n[a] = g /\ \A q \in Fighters \ {a} : n[q] = m[q]
    BY <1>1, <1>4, <1>5, <1>8
  <2>2. MarkedAll(n) /\ \A q \in Fighters : Harsher(m[q], n[q])
    BY <1>2, <1>4, <1>7, <2>1 DEF MarkedAll
  <2>3. Murders(m, a, v) => /\ n[a].skullTicks = m[a].skullTicks + FragTime
                            /\ Branded(n[a].skull, n[a].skullTicks)
    BY <1>3, <1>4, <2>1
  <2> QED
    BY <2>2, <2>3 DEF n
<1>9. CASE ~Blamed(m, a, v)
  BY <1>2, <1>6, <1>9 DEF n
<1> QED
  BY <1>8, <1>9

(* What is owed is still borne after a step that takes nothing off.         *)
LEMMA StillBears ==
    ASSUME NEW f \in FighterRecords, NEW g \in FighterRecords, NEW row, NEW n \in Nat,
           Bears(f, row, n), Harsher(f, g)
    PROVE  Bears(g, row, n)
  BY DEF Bears, Branded, Harsher, FighterRecords

(* A player who comes for the first time.                                   *)
LEMMA UnmarkedType ==
    Unmarked \in FighterRecords /\ Unmarked.attacked = {} /\ ~Unmarked.pzLocked /\ Unmarked.skull = "none"
<1>1. NoFight \in Fights
  BY DEF Fights, NoFight
<1> QED
  BY <1>1 DEF Unmarked, FighterRecords

(* Who hurt a player marks nobody by itself.                                *)
Hurt(f, by, hit) == [f EXCEPT !.damagedBy = by, !.lastHit = hit]
LEMMA HurtIsAll ==
    ASSUME NEW f \in FighterRecords, Marked(f),
           NEW by \in SUBSET Fighters, NEW hit \in Fighters \cup {NoFighter}
    PROVE  /\ Hurt(f, by, hit) \in FighterRecords /\ Marked(Hurt(f, by, hit))
           /\ Harsher(f, Hurt(f, by, hit))
<1> DEFINE g == [f EXCEPT !.damagedBy = by, !.lastHit = hit]
<1>1. g \in FighterRecords
  BY DEF FighterRecords
<1>2. /\ g.online = f.online /\ g.fight = f.fight /\ g.pzLocked = f.pzLocked
      /\ g.attacked = f.attacked /\ g.skull = f.skull /\ g.skullTicks = f.skullTicks
  BY DEF FighterRecords
<1>3. f.skullTicks \in Nat /\ Hurt(f, by, hit) = g
  BY DEF FighterRecords, Hurt
<1> HIDE DEF g
<1> QED
  BY <1>1, <1>2, <1>3 DEF Marked, Harsher

(* A player who is gone is no longer one of those who hurt the others.      *)
LEMMA FighterGone ==
    ASSUME NEW m, MarkedAll(m), NEW v \in Fighters
    PROVE  /\ MarkedAll(WithoutFighter(m, v))
           /\ ~WithoutFighter(m, v)[v].online
           /\ \A q \in Fighters \ {v} : Harsher(m[q], WithoutFighter(m, v)[q])
<1> DEFINE n == WithoutFighter(m, v)
           gone == [Unmarked EXCEPT !.online = FALSE]
           spared(f) == Hurt(f, f.damagedBy \ {v}, IF f.lastHit = v THEN NoFighter ELSE f.lastHit)
<1>1. n = [q \in Fighters |-> IF q = v THEN gone ELSE spared(m[q])]
  BY DEF WithoutFighter, Hurt
<1>2. gone \in FighterRecords /\ ~gone.online /\ Marked(gone)
  <2>1. Unmarked \in FighterRecords /\ Unmarked.attacked = {} /\ ~Unmarked.pzLocked
        /\ Unmarked.skull = "none"
    BY UnmarkedType
  <2>2. gone \in FighterRecords
    BY <2>1 DEF FighterRecords
  <2>3. ~gone.online /\ gone.attacked = {} /\ ~gone.pzLocked /\ gone.skull = "none"
    BY <2>1 DEF FighterRecords
  <2> QED
    BY <2>2, <2>3 DEF Marked
<1>3. \A f \in FighterRecords : Marked(f) =>
          spared(f) \in FighterRecords /\ Marked(spared(f)) /\ Harsher(f, spared(f))
  <2> TAKE f \in FighterRecords
  <2> HAVE Marked(f)
  <2> DEFINE by == f.damagedBy \ {v}
             hit == IF f.lastHit = v THEN NoFighter ELSE f.lastHit
  <2>1. by \in SUBSET Fighters /\ hit \in Fighters \cup {NoFighter}
    BY DEF FighterRecords
  <2> HIDE DEF by, hit
  <2>2. Hurt(f, by, hit) \in FighterRecords /\ Marked(Hurt(f, by, hit)) /\ Harsher(f, Hurt(f, by, hit))
    BY <2>1, HurtIsAll
  <2> QED
    BY <2>2 DEF by, hit
<1> HIDE DEF gone, spared
<1>4. m \in [Fighters -> FighterRecords] /\ \A q \in Fighters : Marked(m[q])
  BY DEF MarkedAll
<1>5. n[v] = gone /\ \A q \in Fighters \ {v} : n[q] = spared(m[q])
  BY <1>1
<1>6. n \in [Fighters -> FighterRecords]
  BY <1>1, <1>2, <1>3, <1>4
<1> HIDE DEF n
<1>7. MarkedAll(n) /\ ~n[v].online /\ \A q \in Fighters \ {v} : Harsher(m[q], n[q])
  BY <1>2, <1>3, <1>4, <1>5, <1>6 DEF MarkedAll
<1> QED
  BY <1>7 DEF n

(* The fight of a player ends: no mark is left, and the sentence stays.     *)
LEMMA FightEnds ==
    ASSUME NEW f \in FighterRecords, NEW alive \in BOOLEAN
    PROVE  /\ EndsFight(f, alive) \in FighterRecords
           /\ Marked(EndsFight(f, alive)) /\ EndsFight(f, alive).skull # "white"
           /\ Harsher(f, EndsFight(f, alive))
           /\ EndsFight(f, alive).skullTicks = f.skullTicks
<1> DEFINE hurt == IF alive THEN {} ELSE f.damagedBy
           hit == IF alive THEN NoFighter ELSE f.lastHit
           c == SkullAfter(f)
           g == [f EXCEPT !.fight = NoFight, !.pzLocked = FALSE, !.attacked = {}, !.skull = c,
                          !.damagedBy = hurt, !.lastHit = hit]
<1>1. EndsFight(f, alive) = g
  BY DEF EndsFight
<1>2. /\ hurt \in SUBSET Fighters /\ hit \in Fighters \cup {NoFighter}
      /\ c \in {"none", "red", "black"} /\ NoFight \in Fights /\ f.skullTicks \in Nat
  BY DEF FighterRecords, SkullAfter, Fights, NoFight
<1>3. /\ f.skull \in {"red", "black"} => c \in {"red", "black"}
      /\ f.skull = "black" => c = "black"
  BY DEF SkullAfter
<1> HIDE DEF hurt, hit, c
<1>4. g \in FighterRecords
  BY <1>2 DEF FighterRecords
<1>5. /\ g.online = f.online /\ g.fight = NoFight /\ g.pzLocked = FALSE /\ g.attacked = {}
      /\ g.skull = c /\ g.skullTicks = f.skullTicks
  BY DEF FighterRecords
<1> HIDE DEF g
<1> QED
  BY <1>1, <1>2, <1>3, <1>4, <1>5 DEF Marked, Harsher

-----------------------------------------------------------------------------
(* The steps.                                                               *)
LEMMA SkullStart == ASSUME SkullInit PROVE SkullInv
<1>1. Unmarked.online /\ Unmarked.skullTicks = 0 /\ SkullRow(Unmarked) \in SkullRows
  <2>1. NoFight \in Fights
    BY DEF Fights, NoFight
  <2> QED
    BY <2>1 DEF Unmarked, SkullRow, SkullRows
<1>2. Branded(Unmarked.skull, 0)
  BY Thresholds DEF Branded
<1> QED
  BY <1>1, <1>2, UnmarkedType DEF SkullInit, SkullInv, SkullTypeOK, Marked, Bears

(* A step that saves nothing and takes nothing off a sentence.              *)
LEMMA HarsherStep ==
    ASSUME SkullInv, MarkedAll(fighter'), \A p \in Fighters : Harsher(fighter[p], fighter'[p]),
           UNCHANGED <<skullRow, owed>>
    PROVE  SkullInv'
<1>1. \A p \in Fighters : Bears(fighter'[p], skullRow[p], owed[p])
  BY StillBears DEF SkullInv, SkullTypeOK, MarkedAll
<1> QED
  BY <1>1 DEF SkullInv, SkullTypeOK, MarkedAll

(* The same of all players, of whom one is hurt, and step after step.       *)
LEMMA HurtStep ==
    ASSUME NEW m, MarkedAll(m), NEW v \in Fighters,
           NEW by \in SUBSET Fighters, NEW hit \in Fighters \cup {NoFighter}
    PROVE  LET n == [m EXCEPT ![v] = Hurt(m[v], by, hit)]
           IN  MarkedAll(n) /\ \A p \in Fighters : Harsher(m[p], n[p])
<1>1. m \in [Fighters -> FighterRecords] /\ \A p \in Fighters : Marked(m[p]) /\ Harsher(m[p], m[p])
  BY DEF MarkedAll, Harsher, FighterRecords
<1>2. /\ Hurt(m[v], by, hit) \in FighterRecords /\ Marked(Hurt(m[v], by, hit))
      /\ Harsher(m[v], Hurt(m[v], by, hit))
  BY <1>1, HurtIsAll
<1> QED
  BY <1>1, <1>2 DEF MarkedAll

LEMMA HarsherChain ==
    ASSUME NEW m, MarkedAll(m), NEW n, MarkedAll(n), NEW k, MarkedAll(k),
           \A p \in Fighters : Harsher(m[p], n[p]), \A p \in Fighters : Harsher(n[p], k[p])
    PROVE  \A p \in Fighters : Harsher(m[p], k[p])
  BY HarsherTwice DEF MarkedAll

(* A blow, and a monster's or a spell's.                                    *)
LEMMA AttackStep ==
    ASSUME SkullInv, NEW a \in Fighters, NEW v \in Fighters, NEW arena \in BOOLEAN,
           NEW hurts \in BOOLEAN, Attack(a, v, arena, hurts)
    PROVE  SkullInv'
<1> DEFINE k == IF arena THEN fighter ELSE OnAttackedCreature(fighter, a, v)
           m == AddInFightTicks(k, v)
           n == [m EXCEPT ![v] = Hurt(m[v], m[v].damagedBy \cup {a}, a)]
<1>1. MarkedAll(fighter) /\ \A p \in Fighters : Harsher(fighter[p], fighter[p])
  BY DEF SkullInv, SkullTypeOK, MarkedAll, Harsher, FighterRecords
<1>2. MarkedAll(k) /\ \A p \in Fighters : Harsher(fighter[p], k[p])
  BY <1>1, AttackMarks DEF Attack
<1> HIDE DEF k
<1>3. MarkedAll(m) /\ \A p \in Fighters : Harsher(k[p], m[p])
  BY <1>2, InFightTicks DEF MarkedAll, Marked
<1>4. fighter' = IF hurts THEN n ELSE m
  BY DEF Attack, Hurt, k
<1> HIDE DEF m
<1>5. m[v].damagedBy \cup {a} \in SUBSET Fighters
  BY <1>3 DEF MarkedAll, FighterRecords
<1>6. MarkedAll(n) /\ \A p \in Fighters : Harsher(m[p], n[p])
  BY <1>3, <1>5, HurtStep
<1> HIDE DEF n
<1>7. \A p \in Fighters : Harsher(fighter[p], m[p])
  BY <1>1, <1>2, <1>3, HarsherChain
<1>8. \A p \in Fighters : Harsher(fighter[p], n[p])
  BY <1>1, <1>3, <1>6, <1>7, HarsherChain
<1>9. UNCHANGED <<skullRow, owed>>
  BY DEF Attack, Strikes
<1> QED
  BY <1>3, <1>4, <1>6, <1>7, <1>8, <1>9, HarsherStep

LEMMA SkirmishStep ==
    ASSUME SkullInv, NEW p \in Fighters, NEW hurts \in BOOLEAN, Skirmish(p, hurts)
    PROVE  SkullInv'
<1> DEFINE m == AddInFightTicks(fighter, p)
           hit == IF hurts THEN NoFighter ELSE m[p].lastHit
           n == [m EXCEPT ![p] = Hurt(m[p], m[p].damagedBy, hit)]
<1>1. MarkedAll(fighter)
  BY DEF SkullInv, SkullTypeOK, MarkedAll
<1>2. MarkedAll(m) /\ \A q \in Fighters : Harsher(fighter[q], m[q])
  BY <1>1, InFightTicks DEF MarkedAll, Marked
<1>3. fighter' = [m EXCEPT ![p].lastHit = hit]
  BY DEF Skirmish
<1> HIDE DEF m
<1>4. m[p] \in FighterRecords /\ m[p].damagedBy \in SUBSET Fighters
      /\ hit \in Fighters \cup {NoFighter}
  BY <1>2 DEF MarkedAll, FighterRecords
<1> HIDE DEF hit
<1>5. Hurt(m[p], m[p].damagedBy, hit) = [m[p] EXCEPT !.lastHit = hit]
  BY <1>4 DEF Hurt, FighterRecords
<1>6. fighter' = n
  BY <1>2, <1>3, <1>5 DEF MarkedAll
<1>7. MarkedAll(n) /\ \A q \in Fighters : Harsher(m[q], n[q])
  BY <1>2, <1>4, HurtStep
<1> HIDE DEF n
<1>8. \A q \in Fighters : Harsher(fighter[q], n[q])
  BY <1>1, <1>2, <1>7, HarsherChain
<1>9. UNCHANGED <<skullRow, owed>>
  BY DEF Skirmish, Strikes
<1> QED
  BY <1>6, <1>7, <1>8, <1>9, HarsherStep

(* Saved, a sentence and its skull are what they were.                      *)
LEMMA Saves ==
    ASSUME NEW f \in FighterRecords, f.online, NEW row, NEW n \in Nat, Bears(f, row, n)
    PROVE  /\ SkullRow(f) \in SkullRows
           /\ SkullRow(f).until >= n /\ Branded(SkullRow(f).skull, n)
<1>1. /\ SkullRow(f).until = f.skullTicks /\ SkullRow(f).fight = f.fight
      /\ SkullRow(f).skull = IF f.skull \in {"red", "black"} THEN f.skull ELSE "none"
  BY DEF SkullRow
<1>2. SkullRow(f) \in SkullRows
  BY DEF SkullRow, SkullRows, FighterRecords
<1> QED
  BY <1>1, <1>2 DEF Bears, Branded

LEMMA LeaveStep ==
    ASSUME SkullInv, NEW p \in Fighters, LeaveGame(p)
    PROVE  SkullInv'
<1>1. MarkedAll(fighter) /\ fighter[p] \in FighterRecords /\ fighter[p].online
  BY DEF SkullInv, SkullTypeOK, MarkedAll, LeaveGame
<1> DEFINE n == WithoutFighter(fighter, p)
<1>2. MarkedAll(n) /\ ~n[p].online /\ \A q \in Fighters \ {p} : Harsher(fighter[q], n[q])
  BY <1>1, FighterGone
<1> HIDE DEF n
<1>3. /\ SkullRow(fighter[p]) \in SkullRows
      /\ SkullRow(fighter[p]).until >= owed[p] /\ Branded(SkullRow(fighter[p]).skull, owed[p])
  BY <1>1, Saves DEF SkullInv, SkullTypeOK
<1>4. fighter' = n /\ skullRow' = [skullRow EXCEPT ![p] = SkullRow(fighter[p])] /\ owed' = owed
  BY DEF LeaveGame, n
<1>5. Bears(n[p], SkullRow(fighter[p]), owed[p])
  BY <1>2, <1>3 DEF Bears
<1>6. \A q \in Fighters \ {p} : Bears(n[q], skullRow[q], owed[q])
  BY <1>2, StillBears DEF SkullInv, SkullTypeOK, MarkedAll
<1>7. skullRow' \in [Fighters -> SkullRows] /\ skullRow'[p] = SkullRow(fighter[p])
      /\ \A q \in Fighters \ {p} : skullRow'[q] = skullRow[q]
  BY <1>3, <1>4 DEF SkullInv, SkullTypeOK
<1>8. \A q \in Fighters : Bears(fighter'[q], skullRow'[q], owed'[q])
  BY <1>4, <1>5, <1>6, <1>7
<1> QED
  BY <1>2, <1>4, <1>7, <1>8 DEF SkullInv, SkullTypeOK, MarkedAll

(* Loaded, a sentence is longer than it was saved, and its skull is back.   *)
LEMMA ReturnStep ==
    ASSUME SkullInv, NEW p \in Fighters, ReturnToGame(p)
    PROVE  SkullInv'
<1> DEFINE row == skullRow[p]
           fight == IF row.fight = 0 THEN RunOut ELSE row.fight
           f == [Unmarked EXCEPT !.fight = fight]
           ticks == row.until + 2
           g == [f EXCEPT !.skullTicks = ticks, !.skull = row.skull]
           back == IF row.until > 0 THEN g ELSE f
<1>1. row \in SkullRows /\ owed[p] \in Nat /\ row.until >= owed[p] /\ Branded(row.skull, owed[p])
  BY DEF SkullInv, SkullTypeOK, Bears, ReturnToGame
<1>2. fighter' = [fighter EXCEPT ![p] = back] /\ skullRow' = skullRow /\ owed' = owed
  BY DEF ReturnToGame
<1>3. fight \in Fights /\ row.until \in Nat /\ row.skull \in {"none", "red", "black"}
  BY <1>1 DEF SkullRows, Fights, RunOut, NoFight
<1> HIDE DEF row, fight
<1>4. /\ f \in FighterRecords /\ f.attacked = {} /\ ~f.pzLocked /\ f.skull = "none"
      /\ f.online /\ f.skullTicks = 0
  <2>1. Unmarked.online /\ Unmarked.skullTicks = 0
    BY DEF Unmarked
  <2> QED
    BY <1>3, <2>1, UnmarkedType DEF FighterRecords
<1> HIDE DEF f
<1>5. ticks \in Nat /\ ticks >= row.until
  BY <1>3
<1> HIDE DEF ticks
<1>6. /\ g \in FighterRecords /\ g.attacked = {} /\ ~g.pzLocked /\ g.skull = row.skull
      /\ g.online /\ g.skullTicks = ticks
  BY <1>3, <1>4, <1>5 DEF FighterRecords
<1> HIDE DEF g
<1>7. Bears(f, row, 0)
  BY <1>4, Thresholds DEF Bears, Branded
<1>8. Bears(g, row, owed[p])
  BY <1>1, <1>3, <1>6, <1>5 DEF Bears
<1>9. row.until > 0 \/ owed[p] = 0
  BY <1>1, <1>3
<1>10. back \in FighterRecords /\ Marked(back) /\ Bears(back, row, owed[p])
  BY <1>3, <1>4, <1>6, <1>7, <1>8, <1>9 DEF Marked
<1> HIDE DEF back
<1> QED
  BY <1>2, <1>10 DEF SkullInv, SkullTypeOK, row

(* A second less of a sentence.                                             *)
Less(n) == IF n > 0 THEN n - 1 ELSE 0
Passed(f) == [f EXCEPT !.fight = IF @ > RunOut THEN @ - 1 ELSE @]
LEMMA TimePasses ==
    ASSUME NEW f \in FighterRecords, Marked(f), f.online, NEW row, NEW n \in Nat, Bears(f, row, n)
    PROVE  /\ Thinks(f) \in FighterRecords /\ Marked(Thinks(f)) /\ Thinks(f).online
           /\ Thinks(f).skullTicks >= Less(n) /\ Branded(Thinks(f).skull, Less(n))
<1> DEFINE ticks == IF f.skullTicks < 1 THEN 0 ELSE f.skullTicks - 1
           pardoned == f.skull \in {"red", "black"} /\ ticks < 1 /\ ~InFight(f)
           c == IF pardoned THEN "none" ELSE f.skull
           g == [f EXCEPT !.skullTicks = ticks, !.skull = c]
<1>1. /\ f.skullTicks \in Nat /\ f.skullTicks >= n /\ Branded(f.skull, n)
      /\ f.skull \in {"none", "white", "red", "black"}
  BY DEF Bears, FighterRecords
<1>2. ticks \in Nat /\ ticks >= Less(n) /\ Less(n) \in Nat /\ Less(n) <= n
  BY <1>1 DEF Less
<1>3. pardoned => Less(n) = 0
  BY <1>1, <1>2
<1> HIDE DEF ticks, pardoned
<1>4. Branded(c, Less(n)) /\ c \in {"none", "white", "red", "black"} /\ (c = "white" => f.skull = "white")
  BY <1>1, <1>2, <1>3, Thresholds DEF Branded
<1> HIDE DEF c
<1>5. g \in FighterRecords
  BY <1>2, <1>4 DEF FighterRecords
<1>6. /\ g.online /\ g.fight = f.fight /\ g.pzLocked = f.pzLocked /\ g.attacked = f.attacked
      /\ g.skullTicks = ticks /\ g.skull = c
  BY DEF FighterRecords
<1>7. Thinks(f) = IF g.fight = RunOut THEN EndsFight(g, TRUE) ELSE g
  BY DEF Thinks, ticks, pardoned, c
<1> HIDE DEF g
<1>8. /\ EndsFight(g, TRUE) \in FighterRecords /\ Marked(EndsFight(g, TRUE))
      /\ Harsher(g, EndsFight(g, TRUE))
  BY <1>5, FightEnds
<1>9. Marked(g)
  BY <1>4, <1>6 DEF Marked
<1>10. Bears(g, row, Less(n))
  BY <1>2, <1>4, <1>6 DEF Bears
<1>11. Bears(EndsFight(g, TRUE), row, Less(n)) /\ EndsFight(g, TRUE).online
  BY <1>2, <1>5, <1>6, <1>8, <1>10, StillBears DEF Harsher
<1> QED
  BY <1>5, <1>6, <1>7, <1>8, <1>9, <1>10, <1>11 DEF Bears

(* A second less of a fight ends none by itself.                            *)
LEMMA FightPasses ==
    ASSUME NEW f \in FighterRecords, Marked(f), NEW row, NEW n \in Nat, Bears(f, row, n)
    PROVE  /\ Passed(f) \in FighterRecords /\ Marked(Passed(f)) /\ Passed(f).online = f.online
           /\ Bears(Passed(f), row, n)
<1> DEFINE fight == IF f.fight > RunOut THEN f.fight - 1 ELSE f.fight
           g == [f EXCEPT !.fight = fight]
<1>1. fight \in Fights /\ (fight = NoFight => f.fight = NoFight)
  BY DEF FighterRecords, Fights, RunOut, NoFight
<1>2. Passed(f) = g
  BY DEF Passed
<1> HIDE DEF fight
<1>3. g \in FighterRecords
  BY <1>1 DEF FighterRecords
<1>4. /\ g.online = f.online /\ g.fight = fight /\ g.pzLocked = f.pzLocked
      /\ g.attacked = f.attacked /\ g.skullTicks = f.skullTicks /\ g.skull = f.skull
  BY DEF FighterRecords
<1> HIDE DEF g
<1> QED
  BY <1>1, <1>2, <1>3, <1>4 DEF Marked, Bears

LEMMA SecondStep ==
    ASSUME SkullInv, NEW thinking \in SUBSET {p \in Fighters : fighter[p].online}, Second(thinking)
    PROVE  SkullInv'
<1>1. /\ fighter' = [p \in Fighters |-> IF p \in thinking THEN Thinks(Passed(fighter[p]))
                                        ELSE Passed(fighter[p])]
      /\ skullRow' = [p \in Fighters |-> [skullRow[p] EXCEPT !.until = Less(skullRow[p].until)]]
      /\ owed' = [p \in Fighters |-> Less(owed[p])]
  BY DEF Second, Passed, Less
<1>2. ASSUME NEW p \in Fighters
      PROVE  /\ fighter'[p] \in FighterRecords /\ Marked(fighter'[p])
             /\ skullRow'[p] \in SkullRows /\ owed'[p] \in Nat
             /\ Bears(fighter'[p], skullRow'[p], owed'[p])
  <2> DEFINE f == fighter[p]
             row == skullRow[p]
             n == owed[p]
             g == Passed(f)
             after == [row EXCEPT !.until = Less(row.until)]
  <2>1. /\ f \in FighterRecords /\ Marked(f) /\ row \in SkullRows /\ n \in Nat
        /\ Bears(f, row, n)
    BY DEF SkullInv, SkullTypeOK
  <2>2. /\ fighter'[p] = IF p \in thinking THEN Thinks(g) ELSE g
        /\ skullRow'[p] = after /\ owed'[p] = Less(n)
    BY <1>1
  <2>3. p \in thinking => f.online
    OBVIOUS
  <2> HIDE DEF f, row, n
  <2>4. g \in FighterRecords /\ Marked(g) /\ g.online = f.online /\ Bears(g, row, n)
    BY <2>1, FightPasses
  <2> HIDE DEF g
  <2>5. /\ Less(n) \in Nat /\ Less(n) <= n /\ row.until \in Nat /\ Less(row.until) \in Nat
        /\ row.until >= n => Less(row.until) >= Less(n)
    BY <2>1 DEF Less, SkullRows
  <2>6. after \in SkullRows /\ after.until = Less(row.until) /\ after.skull = row.skull
    BY <2>1, <2>5 DEF SkullRows
  <2> HIDE DEF after
  <2>7. \A c : Branded(c, n) => Branded(c, Less(n))
    BY <2>1, <2>5, Thresholds DEF Branded
  <2>8. Bears(g, after, Less(n))
    BY <2>1, <2>4, <2>5, <2>6, <2>7 DEF Bears, FighterRecords
  <2>9. CASE p \in thinking
    <3>1. /\ Thinks(g) \in FighterRecords /\ Marked(Thinks(g)) /\ Thinks(g).online
          /\ Thinks(g).skullTicks >= Less(n) /\ Branded(Thinks(g).skull, Less(n))
      BY <2>1, <2>3, <2>4, <2>9, TimePasses
    <3>2. Bears(Thinks(g), after, Less(n))
      BY <3>1 DEF Bears
    <3> QED
      BY <2>2, <2>5, <2>6, <2>9, <3>1, <3>2
  <2>10. CASE p \notin thinking
    BY <2>2, <2>4, <2>5, <2>6, <2>8, <2>10
  <2> QED
    BY <2>9, <2>10
<1> QED
  BY <1>1, <1>2 DEF SkullInv, SkullTypeOK

(* Who answers for a death, in the order of Creature::onDeath.              *)
LEMMA DeathStep ==
    ASSUME SkullInv, NEW v \in Fighters, NEW most \in Fighters \cup {NoFighter},
           NEW arena \in BOOLEAN, Death(v, most, arena)
    PROVE  SkullInv'
<1> DEFINE f == fighter[v]
           answers(m, a, last) ==
               IF a = NoFighter \/ arena THEN m ELSE OnKilledCreature(m, a, v, last)
           cleared(m) == [p \in Fighters |->
                             IF p \in f.damagedBy THEN [m[p] EXCEPT !.attacked = @ \ {v}] ELSE m[p]]
           first == answers(fighter, f.lastHit, TRUE)
           judged == IF most = f.lastHit THEN cleared(first)
                     ELSE answers(cleared(first), most, FALSE)
           dead == IF judged[v].fight = NoFight THEN judged[v] ELSE EndsFight(judged[v], FALSE)
           murder(p) == p = f.lastHit /\ ~arena /\ Murders(fighter, p, v)
<1>1. /\ owed' = [p \in Fighters |-> owed[p] + IF murder(p) THEN FragTime ELSE 0]
      /\ IF arena /\ f.lastHit # NoFighter
         THEN /\ fighter' = [judged EXCEPT ![v] = [dead EXCEPT !.damagedBy = {}, !.lastHit = NoFighter]]
              /\ UNCHANGED skullRow
         ELSE /\ fighter' = WithoutFighter(judged, v)
              /\ skullRow' = [skullRow EXCEPT ![v] = SkullRow(dead)]
  BY DEF Death, With
<1>2. MarkedAll(fighter) /\ \A p \in Fighters : Harsher(fighter[p], fighter[p])
  BY DEF SkullInv, SkullTypeOK, MarkedAll, Harsher, FighterRecords
<1>3. \A m, a, last : MarkedAll(m) /\ a \in Fighters \cup {NoFighter} /\ last \in BOOLEAN =>
        MarkedAll(answers(m, a, last)) /\ \A p \in Fighters : Harsher(m[p], answers(m, a, last)[p])
  <2> TAKE m, a, last
  <2> HAVE MarkedAll(m) /\ a \in Fighters \cup {NoFighter} /\ last \in BOOLEAN
  <2>1. \A p \in Fighters : Harsher(m[p], m[p])
    BY DEF MarkedAll, Harsher, FighterRecords
  <2> QED
    BY <2>1, Judgement
<1>4. f.lastHit \in Fighters \cup {NoFighter}
  BY DEF SkullInv, SkullTypeOK, FighterRecords
<1>5. MarkedAll(first) /\ \A p \in Fighters : Harsher(fighter[p], first[p])
  BY <1>2, <1>3, <1>4
<1>6. \A m : MarkedAll(m) => MarkedAll(cleared(m)) /\ \A p \in Fighters : Harsher(m[p], cleared(m)[p])
  <2> TAKE m
  <2> HAVE MarkedAll(m)
  <2>1. ASSUME NEW g \in FighterRecords, Marked(g)
        PROVE  /\ [g EXCEPT !.attacked = g.attacked \ {v}] \in FighterRecords
               /\ Marked([g EXCEPT !.attacked = g.attacked \ {v}])
               /\ Harsher(g, [g EXCEPT !.attacked = g.attacked \ {v}])
    <3> DEFINE all == g.attacked \ {v}
               h == Struck(g, all)
    <3>1. all \in SUBSET Fighters /\ (g.attacked = {} => all = {})
      BY DEF FighterRecords
    <3> HIDE DEF all
    <3>2. h \in FighterRecords /\ h.online = g.online /\ Harsher(g, h)
      BY <3>1, AttackerMarked DEF FighterRecords
    <3>3. h.attacked = all /\ h.fight = g.fight /\ h.skull = g.skull /\ h.pzLocked = g.pzLocked
      BY DEF Struck, FighterRecords
    <3> HIDE DEF h
    <3>4. Marked(h)
      BY <2>1, <3>1, <3>2, <3>3 DEF Marked
    <3> QED
      BY <3>2, <3>4 DEF Struck, h, all
  <2>2. \A p \in Fighters : m[p] \in FighterRecords /\ Marked(m[p]) /\ Harsher(m[p], m[p])
    BY DEF MarkedAll, Harsher, FighterRecords
  <2> QED
    BY <2>1, <2>2 DEF MarkedAll
<1>7. MarkedAll(cleared(first)) /\ \A p \in Fighters : Harsher(first[p], cleared(first)[p])
  BY <1>5, <1>6
<1>8. MarkedAll(judged) /\ \A p \in Fighters : Harsher(cleared(first)[p], judged[p])
  <2>1. MarkedAll(answers(cleared(first), most, FALSE))
        /\ \A p \in Fighters : Harsher(cleared(first)[p], answers(cleared(first), most, FALSE)[p])
    BY <1>3, <1>7
  <2>2. \A m : MarkedAll(m) => \A p \in Fighters : Harsher(m[p], m[p])
    BY DEF MarkedAll, Harsher, FighterRecords
  <2> QED
    BY <1>7, <2>1, <2>2
<1>9. \A p \in Fighters :
        murder(p) => /\ first[p].skullTicks = fighter[p].skullTicks + FragTime
                     /\ Branded(first[p].skull, first[p].skullTicks)
                     /\ fighter[p].online /\ p # v
  <2> TAKE p \in Fighters
  <2> HAVE murder(p)
  <2>1. p # NoFighter /\ ~arena /\ p = f.lastHit
    BY SkullsAssumption
  <2>2. first = OnKilledCreature(fighter, p, v, TRUE)
    BY <2>1
  <2>3. fighter[p].attacked # {} /\ p # v
    BY DEF Murders, Blamed, HasAttacked
  <2>4. fighter[p].online
    BY <1>2, <2>3 DEF MarkedAll, Marked
  <2>5. Murders(fighter, p, v)
    OBVIOUS
  <2> HIDE DEF first, murder
  <2> QED
    BY <1>2, <2>2, <2>3, <2>4, <2>5, Judgement
<1> HIDE DEF first, judged, murder
<1>10. \A p \in Fighters : Harsher(first[p], judged[p]) /\ Harsher(fighter[p], judged[p])
  <2>1. \A p \in Fighters : Harsher(first[p], judged[p])
    BY <1>5, <1>7, <1>8, HarsherChain
  <2> QED
    BY <1>2, <1>5, <1>8, <2>1, HarsherChain
<1> HIDE DEF cleared, answers
<1>11. owed' \in [Fighters -> Nat] /\ \A p \in Fighters \ {v} : murder(p) => owed'[p] = owed[p] + FragTime
  BY <1>1, SkullsAssumption DEF SkullInv, SkullTypeOK
<1>12. \A p \in Fighters : ~murder(p) => owed'[p] = owed[p]
  BY <1>1 DEF SkullInv, SkullTypeOK
<1>13. \A p \in Fighters : Bears(judged[p], skullRow[p], owed'[p])
  <2> TAKE p \in Fighters
  <2>1. /\ fighter[p] \in FighterRecords /\ first[p] \in FighterRecords /\ judged[p] \in FighterRecords
        /\ owed[p] \in Nat /\ owed'[p] \in Nat /\ Bears(fighter[p], skullRow[p], owed[p])
    BY <1>5, <1>8, <1>11 DEF SkullInv, SkullTypeOK, MarkedAll
  <2>2. CASE ~murder(p)
    BY <1>10, <1>12, <2>1, <2>2, StillBears
  <2>3. CASE murder(p)
    <3>1. /\ first[p].online /\ owed'[p] = owed[p] + FragTime
          /\ first[p].skullTicks = fighter[p].skullTicks + FragTime
          /\ Branded(first[p].skull, first[p].skullTicks)
      BY <1>5, <1>9, <1>11, <2>3 DEF Harsher
    <3>2. first[p].skullTicks \in Nat /\ first[p].skullTicks >= owed'[p]
      BY <1>9, <2>1, <2>3, <3>1, SkullsAssumption DEF Bears, FighterRecords
    <3>3. Branded(first[p].skull, owed'[p])
      BY <2>1, <3>1, <3>2, Thresholds DEF Branded
    <3>4. Bears(first[p], skullRow[p], owed'[p])
      BY <3>1, <3>2, <3>3 DEF Bears
    <3> QED
      BY <1>10, <2>1, <3>4, StillBears
  <2> QED
    BY <2>2, <2>3
<1>14. /\ dead \in FighterRecords /\ Marked(dead) /\ Harsher(judged[v], dead)
  <2>1. judged[v] \in FighterRecords /\ Marked(judged[v]) /\ Harsher(judged[v], judged[v])
    BY <1>8 DEF MarkedAll, Harsher, FighterRecords
  <2> QED
    BY <2>1, FightEnds
<1>15. dead.online /\ Bears(dead, skullRow[v], owed'[v])
  <2>1. judged[v] \in FighterRecords /\ owed'[v] \in Nat /\ fighter[v].online
    BY <1>8, <1>11 DEF MarkedAll, Death
  <2> QED
    BY <1>10, <1>13, <1>14, <2>1, StillBears DEF Harsher
<1> HIDE DEF dead
<1>16. CASE arena /\ f.lastHit # NoFighter
  <2> DEFINE n == [judged EXCEPT ![v] = Hurt(dead, {}, NoFighter)]
  <2>1. fighter' = n /\ skullRow' = skullRow
    BY <1>1, <1>16 DEF Hurt
  <2>2. Hurt(dead, {}, NoFighter) \in FighterRecords /\ Marked(Hurt(dead, {}, NoFighter))
        /\ Harsher(dead, Hurt(dead, {}, NoFighter))
    BY <1>14, HurtIsAll
  <2>3. Bears(Hurt(dead, {}, NoFighter), skullRow[v], owed'[v])
    BY <1>11, <1>14, <1>15, <2>2, StillBears
  <2> QED
    BY <1>8, <1>11, <1>13, <2>1, <2>2, <2>3 DEF SkullInv, SkullTypeOK, MarkedAll
<1>17. CASE ~(arena /\ f.lastHit # NoFighter)
  <2> DEFINE n == WithoutFighter(judged, v)
  <2>1. MarkedAll(n) /\ ~n[v].online /\ \A q \in Fighters \ {v} : Harsher(judged[q], n[q])
    BY <1>8, FighterGone
  <2>2. fighter' = n /\ skullRow' = [skullRow EXCEPT ![v] = SkullRow(dead)]
    BY <1>1, <1>17
  <2> HIDE DEF n
  <2>3. /\ SkullRow(dead) \in SkullRows
        /\ SkullRow(dead).until >= owed'[v] /\ Branded(SkullRow(dead).skull, owed'[v])
    BY <1>11, <1>14, <1>15, Saves
  <2>4. Bears(n[v], SkullRow(dead), owed'[v])
    BY <2>1, <2>3 DEF Bears
  <2>5. \A q \in Fighters \ {v} : Bears(n[q], skullRow[q], owed'[q])
    BY <1>8, <1>11, <1>13, <2>1, StillBears DEF MarkedAll
  <2>6. /\ skullRow' \in [Fighters -> SkullRows] /\ skullRow'[v] = SkullRow(dead)
        /\ \A q \in Fighters \ {v} : skullRow'[q] = skullRow[q]
    BY <2>2, <2>3 DEF SkullInv, SkullTypeOK
  <2>7. \A q \in Fighters : Bears(fighter'[q], skullRow'[q], owed'[q])
    BY <2>2, <2>4, <2>5, <2>6
  <2> QED
    BY <1>11, <2>1, <2>2, <2>6, <2>7 DEF SkullInv, SkullTypeOK, MarkedAll
<1> QED
  BY <1>16, <1>17

(* So every step keeps it.                                                  *)
LEMMA SkullSteps == SkullInv /\ [SkullNext]_skullVars => SkullInv'
<1> SUFFICES ASSUME SkullInv, [SkullNext]_skullVars PROVE SkullInv'
  OBVIOUS
<1>1. ASSUME NEW a \in Fighters, NEW v \in Fighters, NEW arena \in BOOLEAN, NEW hurts \in BOOLEAN,
             Attack(a, v, arena, hurts)
      PROVE  SkullInv'
  BY <1>1, AttackStep
<1>2. ASSUME NEW p \in Fighters, LeaveGame(p) PROVE SkullInv'
  BY <1>2, LeaveStep
<1>3. ASSUME NEW p \in Fighters, ReturnToGame(p) PROVE SkullInv'
  BY <1>3, ReturnStep
<1>4. ASSUME NEW p \in Fighters, NEW hurts \in BOOLEAN, Skirmish(p, hurts) PROVE SkullInv'
  BY <1>4, SkirmishStep
<1>5. ASSUME NEW v \in Fighters, NEW most \in Fighters \cup {NoFighter}, NEW arena \in BOOLEAN,
             Death(v, most, arena)
      PROVE  SkullInv'
  BY <1>5, DeathStep
<1>6. ASSUME NEW thinking \in SUBSET {p \in Fighters : fighter[p].online}, Second(thinking)
      PROVE  SkullInv'
  BY <1>6, SecondStep
<1>7. CASE UNCHANGED skullVars
  BY <1>7 DEF SkullInv, SkullTypeOK, skullVars
<1> QED
  BY <1>1, <1>2, <1>3, <1>4, <1>5, <1>6, <1>7 DEF SkullNext

(* Every mark of a fight ends with it, and every sentence is served, of any *)
(* number of fighters with any sentences, however blows, deaths, logouts,   *)
(* logins and late thinks come (Player::onAttackedCreature,                 *)
(* onKilledCreature, onEndCondition, checkSkullTicks).                      *)
THEOREM SkullsTrueAlways == SkullSpec => []SkullsTrue
<1>1. SkullInv => SkullsTrue
  BY DEF SkullInv, SkullTypeOK, SkullsTrue, MarksEndWithFight, SentenceServed, Marked, Bears,
         Branded, RedAbove, BlackAbove
<1> QED
  BY <1>1, SkullStart, SkullSteps, PTL DEF SkullSpec
=============================================================================
