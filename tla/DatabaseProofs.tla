--------------------------- MODULE DatabaseProofs ---------------------------
(***************************************************************************)
(* What is kept, in three parts.  Database, for any statements of the game *)
(* and any number of saves and faults: a save is stored whole or not at    *)
(* all, and no failing save takes back a statement that was answered.      *)
(* DatabaseTasks, for any set of queries and callers: every accepted query *)
(* is in one place, whatever the interleaving of threadMain, flush and     *)
(* addTask.  Houses, for any players and beds: house, beds and tables      *)
(* agree, across sales, sleep, saves and crashes.                          *)
(***************************************************************************)
EXTENDS Database, DatabaseTasks, Houses, QueueLemmas

(***************************************************************************)
(* Database.  DatabaseInv is inductive; one lemma for each part of it      *)
(* shows that every step keeps that part, with one case for each action.   *)
(* The flags are apart from the other types because the provers take truth *)
(* values and numbers in different ways.                                   *)
(***************************************************************************)
(* Flags: is the lock held, a transaction open, this save whole, or torn.  *)
FlagsOK ==
    locked \in BOOLEAN /\ open \in BOOLEAN /\ whole \in BOOLEAN /\ torn \in BOOLEAN

(* What the server and the save under way hold.                            *)
ValuesOK ==
    /\ stored \in Contents /\ seen \in Contents
    /\ at \in {"idle", "begin", "gap", "row", "clear", "items", "commit"}
    /\ save \in Nat /\ tries \in 0 .. 3 /\ kept \in Nat /\ faults \in Nat
    /\ answered \in SUBSET Notes /\ exposed \in SUBSET Notes

(* The types are these two parts, before a step and after it.              *)
LEMMA TypesInTwo ==
    /\ DatabaseTypeOK <=> FlagsOK /\ ValuesOK
    /\ DatabaseTypeOK' <=> FlagsOK' /\ ValuesOK'
BY DEF DatabaseTypeOK, FlagsOK, ValuesOK

(* A new connection has seen nothing, and nothing is stored.               *)
LEMMA InitDatabaseInv == DatabaseInit => DatabaseInv
<1> SUFFICES ASSUME DatabaseInit PROVE DatabaseInv
    OBVIOUS
<1> USE DEF DatabaseInit
<1>1. FlagsOK
    BY DEF FlagsOK
<1>2. ValuesOK
    BY DEF ValuesOK, Contents, Nothing
<1>3. SavesAreWhole
    BY DEF SavesAreWhole, Nothing
<1>4. AnsweredIsKept
    BY DEF AnsweredIsKept, Saving
<1>5. TransactionInv
    BY DEF TransactionInv, Saving, Nothing
<1>6. QED
    BY <1>1, <1>2, <1>3, <1>4, <1>5, TypesInTwo DEF DatabaseInv, DatabaseSound

(* A flag is set or not.                                                  *)
LEMMA FlagsKept ==
    DatabaseInv /\ [DatabaseNext]_databaseVars => FlagsOK'
<1> SUFFICES ASSUME DatabaseInv, [DatabaseNext]_databaseVars
             PROVE  FlagsOK'
    OBVIOUS
<1> USE DEF DatabaseInv, DatabaseTypeOK, FlagsOK
<1>1. CASE Save
    BY <1>1 DEF Save, serverVars, storyVars
<1>2. CASE NoTransaction
    BY <1>2
       DEF NoTransaction, AnswersFalse, AnswersTrue, Fault, serverVars,
           storyVars
<1>3. CASE Begin
    BY <1>3 DEF Begin, Fault
<1>4. CASE BeginFails
    BY <1>4 DEF BeginFails, RolledBack, AnswersFalse, Fault, storyVars
<1>5. CASE TakeLock
    BY <1>5 DEF TakeLock, serverVars, storyVars
<1>6. CASE Statement
    BY <1>6
       DEF Statement, Executed, ExecutedAgain, Written, WrittenAgain, After,
           Fault
<1>7. CASE StatementFails
    BY <1>7
       DEF StatementFails, RolledBack, AnswersFalse, Fault, After, storyVars
<1>8. CASE Commit
    BY <1>8 DEF Commit, AnswersTrue
<1>9. CASE CommitFails
    BY <1>9 DEF CommitFails, RolledBack, AnswersFalse, Fault, serverVars
<1>10. ASSUME NEW n \in Notes, Execute(n)
      PROVE  FlagsOK'
    BY <1>10 DEF Execute, Executed, ExecutedAgain, Fault, saveVars
<1>11. CASE BanCheck
    BY <1>11 DEF BanCheck, RolledBack, Fault, saveVars
<1>12. CASE Crash
    BY <1>12 DEF Crash, RolledBack, Fault, storyVars
<1>13. CASE UNCHANGED databaseVars
    BY <1>13 DEF databaseVars, serverVars, saveVars, storyVars
<1>14. QED
    BY <1>1, <1>2, <1>3, <1>4, <1>5, <1>6, <1>7, <1>8, <1>9,
       <1>10, <1>11, <1>12, <1>13 DEF DatabaseNext

(* tries stays a number: a save that goes on has one left (TransactionInv). *)
LEMMA ValuesKept ==
    DatabaseInv /\ [DatabaseNext]_databaseVars => ValuesOK'
<1> SUFFICES ASSUME DatabaseInv, [DatabaseNext]_databaseVars
             PROVE  ValuesOK'
    OBVIOUS
<1> USE DEF DatabaseInv, DatabaseTypeOK, ValuesOK, TransactionInv, Contents,
        Nothing
<1>1. CASE Save
    BY <1>1 DEF Save, serverVars, storyVars
<1>2. CASE NoTransaction
    BY <1>2
       DEF NoTransaction, AnswersFalse, AnswersTrue, Fault, serverVars,
           storyVars
<1>3. CASE Begin
    BY <1>3 DEF Begin, Fault
<1>4. CASE BeginFails
    BY <1>4
       DEF BeginFails, RolledBack, AnswersFalse, Fault, storyVars
<1>5. CASE TakeLock
    BY <1>5 DEF TakeLock, serverVars, storyVars
<1>6. CASE Statement
    BY <1>6
       DEF Statement, Executed, ExecutedAgain, Written, WrittenAgain, After,
           Fault
<1>7. CASE StatementFails
    BY <1>7
       DEF StatementFails, RolledBack, AnswersFalse, Fault, After, storyVars
<1>8. CASE Commit
    BY <1>8 DEF Commit, AnswersTrue
<1>9. CASE CommitFails
    BY <1>9
       DEF CommitFails, RolledBack, AnswersFalse, Fault, serverVars
<1>10. ASSUME NEW n \in Notes, Execute(n)
      PROVE  ValuesOK'
    BY <1>10 DEF Execute, Executed, ExecutedAgain, Fault, saveVars
<1>11. CASE BanCheck
    BY <1>11 DEF BanCheck, RolledBack, Fault, saveVars
<1>12. CASE Crash
    BY <1>12 DEF Crash, RolledBack, Fault, storyVars
<1>13. CASE UNCHANGED databaseVars
    BY <1>13 DEF databaseVars, serverVars, saveVars, storyVars
<1>14. QED
    BY <1>1, <1>2, <1>3, <1>4, <1>5, <1>6, <1>7, <1>8, <1>9,
       <1>10, <1>11, <1>12, <1>13 DEF DatabaseNext

(* What is stored changes by the commit of a whole save, late by the next   *)
(* BEGIN even, or by a statement outside of a transaction, marked as torn.  *)
LEMMA WholeKept ==
    DatabaseInv /\ [DatabaseNext]_databaseVars => SavesAreWhole'
<1> SUFFICES ASSUME DatabaseInv, [DatabaseNext]_databaseVars
             PROVE  SavesAreWhole'
    OBVIOUS
<1> USE DEF DatabaseInv, DatabaseTypeOK, DatabaseSound, SavesAreWhole,
        TransactionInv, Contents, Nothing, Saving
<1>1. CASE Save
    BY <1>1 DEF Save, serverVars, storyVars
<1>2. CASE NoTransaction
    BY <1>2
       DEF NoTransaction, AnswersFalse, AnswersTrue, Fault, serverVars,
           storyVars
<1>3. CASE Begin
    BY <1>3 DEF Begin, Fault
<1>4. CASE BeginFails
    BY <1>4 DEF BeginFails, RolledBack, AnswersFalse, Fault, storyVars
<1>5. CASE TakeLock
    BY <1>5 DEF TakeLock, serverVars, storyVars
<1>6. CASE Statement
    BY <1>6
       DEF Statement, Executed, ExecutedAgain, Written, WrittenAgain, After,
           Fault
<1>7. CASE StatementFails
    BY <1>7
       DEF StatementFails, RolledBack, AnswersFalse, Fault, After, storyVars
<1>8. CASE Commit
    BY <1>8 DEF Commit, AnswersTrue
<1>9. CASE CommitFails
    BY <1>9 DEF CommitFails, RolledBack, AnswersFalse, Fault, serverVars
<1>10. ASSUME NEW n \in Notes, Execute(n)
      PROVE  SavesAreWhole'
    BY <1>10 DEF Execute, Executed, ExecutedAgain, Fault, saveVars
<1>11. CASE BanCheck
    BY <1>11 DEF BanCheck, RolledBack, Fault, saveVars
<1>12. CASE Crash
    BY <1>12 DEF Crash, RolledBack, Fault, storyVars
<1>13. CASE UNCHANGED databaseVars
    BY <1>13 DEF databaseVars, serverVars, saveVars, storyVars
<1>14. QED
    BY <1>1, <1>2, <1>3, <1>4, <1>5, <1>6, <1>7, <1>8, <1>9,
       <1>10, <1>11, <1>12, <1>13 DEF DatabaseNext

(* A note is in a transaction only if a failed commit had left one open.    *)
LEMMA AnsweredKept ==
    DatabaseInv /\ [DatabaseNext]_databaseVars => AnsweredIsKept'
<1> SUFFICES ASSUME DatabaseInv, [DatabaseNext]_databaseVars
             PROVE  AnsweredIsKept'
    OBVIOUS
<1> USE DEF DatabaseInv, DatabaseTypeOK, DatabaseSound, AnsweredIsKept,
        TransactionInv, Contents, Nothing, Saving
<1>1. CASE Save
    BY <1>1 DEF Save, serverVars, storyVars
<1>2. CASE NoTransaction
    BY <1>2
       DEF NoTransaction, AnswersFalse, AnswersTrue, Fault, serverVars,
           storyVars
<1>3. CASE Begin
    BY <1>3 DEF Begin, Fault
<1>4. CASE BeginFails
    BY <1>4 DEF BeginFails, RolledBack, AnswersFalse, Fault, storyVars
<1>5. CASE TakeLock
    BY <1>5 DEF TakeLock, serverVars, storyVars
<1>6. CASE Statement
    BY <1>6
       DEF Statement, Executed, ExecutedAgain, Written, WrittenAgain, After,
           Fault
<1>7. CASE StatementFails
    BY <1>7
       DEF StatementFails, RolledBack, AnswersFalse, Fault, After, storyVars
<1>8. CASE Commit
    BY <1>8 DEF Commit, AnswersTrue
<1>9. CASE CommitFails
    BY <1>9 DEF CommitFails, RolledBack, AnswersFalse, Fault, serverVars
<1>10. ASSUME NEW n \in Notes, Execute(n)
      PROVE  AnsweredIsKept'
    BY <1>10 DEF Execute, Executed, ExecutedAgain, Fault, saveVars
<1>11. CASE BanCheck
    BY <1>11 DEF BanCheck, RolledBack, Fault, saveVars
<1>12. CASE Crash
    BY <1>12 DEF Crash, RolledBack, Fault, storyVars
<1>13. CASE UNCHANGED databaseVars
    BY <1>13 DEF databaseVars, serverVars, saveVars, storyVars
<1>14. QED
    BY <1>1, <1>2, <1>3, <1>4, <1>5, <1>6, <1>7, <1>8, <1>9,
       <1>10, <1>11, <1>12, <1>13 DEF DatabaseNext

(* What a save has written so far is in its transaction, or the save is     *)
(* marked torn.                                                             *)
LEMMA TransactionKept ==
    DatabaseInv /\ [DatabaseNext]_databaseVars => TransactionInv'
<1> SUFFICES ASSUME DatabaseInv, [DatabaseNext]_databaseVars
             PROVE  TransactionInv'
    OBVIOUS
<1> USE DEF DatabaseInv, DatabaseTypeOK, DatabaseSound, SavesAreWhole,
        AnsweredIsKept, TransactionInv, Contents, Nothing, Saving
<1>1. CASE Save
    BY <1>1 DEF Save, serverVars, storyVars
<1>2. CASE NoTransaction
    BY <1>2
       DEF NoTransaction, AnswersFalse, AnswersTrue, Fault, serverVars,
           storyVars
<1>3. CASE Begin
    BY <1>3 DEF Begin, Fault
<1>4. CASE BeginFails
    BY <1>4 DEF BeginFails, RolledBack, AnswersFalse, Fault, storyVars
<1>5. CASE TakeLock
    BY <1>5 DEF TakeLock, serverVars, storyVars
<1>6. CASE Statement
    BY <1>6
       DEF Statement, Executed, ExecutedAgain, Written, WrittenAgain, After,
           Fault
<1>7. CASE StatementFails
    BY <1>7
       DEF StatementFails, RolledBack, AnswersFalse, Fault, After, storyVars
<1>8. CASE Commit
    BY <1>8 DEF Commit, AnswersTrue
<1>9. CASE CommitFails
    BY <1>9 DEF CommitFails, RolledBack, AnswersFalse, Fault, serverVars
<1>10. ASSUME NEW n \in Notes, Execute(n)
      PROVE  TransactionInv'
  <2>1. CASE Executed([seen EXCEPT !.notes = @ \cup {n}])
    BY <1>10, <2>1 DEF Execute, Executed, saveVars
  <2>2. CASE ExecutedAgain([stored EXCEPT !.notes = @ \cup {n}])
    BY <1>10, <2>2 DEF Execute, Executed, ExecutedAgain, Fault, saveVars
  <2>3. QED
    BY <1>10, <2>1, <2>2 DEF Execute
<1>11. CASE BanCheck
    BY <1>11 DEF BanCheck, RolledBack, Fault, saveVars
<1>12. CASE Crash
    BY <1>12 DEF Crash, RolledBack, Fault, storyVars
<1>13. CASE UNCHANGED databaseVars
    BY <1>13 DEF databaseVars, serverVars, saveVars, storyVars
<1>14. QED
    BY <1>1, <1>2, <1>3, <1>4, <1>5, <1>6, <1>7, <1>8, <1>9,
       <1>10, <1>11, <1>12, <1>13 DEF DatabaseNext

(* So every step keeps the invariant.                                      *)
LEMMA NextDatabaseInv == DatabaseInv /\ [DatabaseNext]_databaseVars => DatabaseInv'
BY FlagsKept, ValuesKept, TypesInTwo, WholeKept, AnsweredKept, TransactionKept
   DEF DatabaseInv, DatabaseSound

(* The types of the connection, the lock and the save under way.           *)
THEOREM DatabaseTypes == DatabaseSpec => []DatabaseTypeOK
<1>1. DatabaseInv => DatabaseTypeOK
    BY DEF DatabaseInv
<1>2. QED
    BY <1>1, InitDatabaseInv, NextDatabaseInv, PTL DEF DatabaseSpec

(* IOLoginData::savePlayer over Database::executeQuery: row and items of a  *)
(* player are of one save, one that was said to be done is not undone, and  *)
(* no other statement that was answered is rolled back with a save, but one *)
(* sent after a failed commit had left its transaction open.                *)
THEOREM DatabaseIsSound == DatabaseSpec => []DatabaseSound
<1>1. DatabaseInv => DatabaseSound
    BY DEF DatabaseInv
<1>2. QED
    BY <1>1, InitDatabaseInv, NextDatabaseInv, PTL DEF DatabaseSpec

-----------------------------------------------------------------------------
(***************************************************************************)
(* DatabaseTasks.                                                          *)
(***************************************************************************)
(* What a thread holds is what its program counter says it holds: the       *)
(* strengthening that makes ExactlyOnce inductive (a pop overwrites the     *)
(* hand of the thread that pops).                                           *)
HandsInv ==
    /\ inHand["threadMain"] # NoQuery => dbPc = "run"
    /\ inHand["flush"] # NoQuery => callPc[Controller] = "flushRun"

(* A query out of the queue has its place: not yet back in any other.       *)
IInv == TypeOK /\ HandsInv /\ ExactlyOnce

-----------------------------------------------------------------------------
(* NotifyOne only moves the database thread from waiting to woken.          *)
LEMMA NotifyType ==
    ASSUME TypeOK, NotifyOne
    PROVE  /\ dbPc' \in {"loop", "lock", "waiting", "woken", "run", "post", "done"}
           /\ dbPc = "run" => dbPc' = "run"
  BY DEF TypeOK, NotifyOne

(* Init is a state of the strengthened invariant.                           *)
LEMMA InitIInv == Init => IInv
<1> SUFFICES ASSUME Init PROVE IInv
  OBVIOUS
<1> USE QueriesAssumption DEF Init
<1>1. TypeOK
  BY DEF TypeOK, OptQuery, Runners
<1>2. HandsInv
  BY DEF HandsInv, Runners
<1>3. ToSet(<<>>) = {} /\ IsInjective(<<>>)
  BY DEF ToSet, IsInjective
<1>4. Held = {}
  BY DEF Held
<1>5. ExactlyOnce
  BY <1>3, <1>4 DEF ExactlyOnce, Runners
<1> QED
  BY <1>1, <1>2, <1>5 DEF IInv

-----------------------------------------------------------------------------
(* The steps that leave the queue, the hands and the history of queries     *)
(* alone keep ExactlyOnce.                                                  *)
LEMMA FrameExactlyOnce ==
    ASSUME ExactlyOnce, UNCHANGED <<tasks, inHand, submitted, executed>>
    PROVE  ExactlyOnce'
  BY DEF ExactlyOnce, Held

(* pop_front by a thread whose hands are empty: threadMain or flush.        *)
LEMMA PopKeeps ==
    ASSUME TypeOK, ExactlyOnce, NEW r \in Runners, tasks # <<>>, PopFor(r),
           inHand[r] = NoQuery, UNCHANGED <<submitted, executed>>
    PROVE  /\ tasks' \in Seq(Queries)
           /\ inHand' \in [Runners -> OptQuery]
           /\ ExactlyOnce'
<1> DEFINE h == Head(tasks)
<1>1. /\ h \in Queries
      /\ tasks' \in Seq(Queries)
      /\ ToSet(tasks) = ToSet(tasks') \cup {h}
  BY PopElems DEF TypeOK, PopFor
<1>2. IsInjective(tasks') /\ h \notin ToSet(tasks')
  BY PopInjective DEF TypeOK, PopFor, ExactlyOnce
<1>3. /\ inHand' \in [Runners -> OptQuery]
      /\ inHand'[r] = h
      /\ \A o \in Runners \ {r} : inHand'[o] = inHand[o]
  BY <1>1 DEF TypeOK, PopFor, OptQuery
<1>4. Held' = Held \cup {h}
  BY <1>1, <1>3, QueriesAssumption DEF Held, TypeOK
<1>5. h \notin Held /\ h # NoQuery
  BY <1>1, QueriesAssumption DEF ExactlyOnce
<1>6. inHand["threadMain"]' = inHand["flush"]' => inHand["flush"]' = NoQuery
  BY <1>3, <1>5 DEF Held, Runners
<1>7. ExactlyOnce'
  BY <1>1, <1>2, <1>4, <1>5, <1>6 DEF ExactlyOnce
<1> QED
  BY <1>1, <1>3, <1>7

(* runTask: what leaves the hands of a thread is executed.                  *)
LEMMA RunKeeps ==
    ASSUME TypeOK, ExactlyOnce, NEW r \in Runners, RunQuery(r),
           UNCHANGED <<tasks, submitted>>
    PROVE  /\ executed' \in Seq(Queries)
           /\ inHand' \in [Runners -> OptQuery]
           /\ posting' \in [Runners -> OptQuery]
           /\ ExactlyOnce'
<1> DEFINE q == inHand[r]
<1>1. q \in Queries /\ q \in Held /\ q # NoQuery
  BY QueriesAssumption DEF TypeOK, RunQuery, OptQuery, Held
<1>2. q \notin ToSet(executed)
  BY <1>1 DEF ExactlyOnce
<1>3. executed' \in Seq(Queries) /\ ToSet(executed') = ToSet(executed) \cup {q}
  BY <1>1, PushElems DEF TypeOK, RunQuery
<1>4. IsInjective(executed')
  BY <1>1, <1>2, PushInjective DEF TypeOK, RunQuery, ExactlyOnce
<1>5. /\ inHand' \in [Runners -> OptQuery]
      /\ posting' \in [Runners -> OptQuery]
      /\ inHand'[r] = NoQuery
      /\ \A o \in Runners \ {r} : inHand'[o] = inHand[o]
  BY DEF TypeOK, RunQuery, OptQuery
<1>6. inHand["threadMain"]' = inHand["flush"]' => inHand["flush"]' = NoQuery
  BY <1>5 DEF Runners
<1>7. \A o \in Runners \ {r} : inHand[o] # q
  BY <1>1 DEF ExactlyOnce, Runners
<1>8. Held' = Held \ {q}
  BY <1>1, <1>5, <1>7 DEF Held
<1>9. ExactlyOnce'
  BY <1>1, <1>3, <1>4, <1>6, <1>8 DEF ExactlyOnce
<1> QED
  BY <1>3, <1>5, <1>9

(* runTask: a callback is posted at most where one was due.                 *)
LEMMA PostType ==
    ASSUME TypeOK, NEW r \in Runners, PostCallback(r)
    PROVE  /\ callbacks' \in Seq(Queries)
           /\ posting' \in [Runners -> OptQuery]
<1>1. posting[r] \in Queries
  BY DEF TypeOK, PostCallback, OptQuery
<1> QED
  BY <1>1 DEF TypeOK, PostCallback, OptQuery

-----------------------------------------------------------------------------
(* addTask: a query is accepted at most once, and then it is in the queue.  *)
LEMMA AddTaskIInv ==
    ASSUME IInv, NEW c \in Callers, NEW q \in Queries, AddTask(c, q)
    PROVE  IInv'
<1>1. CASE threadState = "RUNNING"
  <2>1. /\ tasks' = Append(tasks, q) /\ submitted' = Append(submitted, q)
        /\ q \notin ToSet(submitted)
        /\ callPc[c] = "idle"
        /\ callPc' = [callPc EXCEPT ![c] = IF tasks = <<>> THEN "signal" ELSE "idle"]
        /\ UNCHANGED <<threadState, dbPc, inHand, posting, phase, dispatcherOpen,
                       executed, callbacks>>
    BY <1>1 DEF AddTask
  <2>2. TypeOK /\ HandsInv /\ ExactlyOnce
    BY DEF IInv
  <2>3. /\ tasks' \in Seq(Queries) /\ ToSet(tasks') = ToSet(tasks) \cup {q}
        /\ submitted' \in Seq(Queries) /\ ToSet(submitted') = ToSet(submitted) \cup {q}
    <3>1. tasks \in Seq(Queries) /\ submitted \in Seq(Queries)
      BY <2>2 DEF TypeOK
    <3> QED
      BY <2>1, <3>1, PushElems
  <2>4. q \notin ToSet(tasks) /\ q \notin Held /\ q \notin ToSet(executed)
    <3>1. ToSet(submitted) = ToSet(tasks) \cup Held \cup ToSet(executed)
      BY <2>2 DEF ExactlyOnce
    <3> QED
      BY <2>1, <3>1
  <2>5. IsInjective(tasks')
    <3>1. tasks \in Seq(Queries) /\ IsInjective(tasks)
      BY <2>2 DEF TypeOK, ExactlyOnce
    <3> QED
      BY <2>1, <2>4, <3>1, PushInjective
  <2>6. TypeOK'
    BY <2>1, <2>2, <2>3 DEF TypeOK
  <2>7. HandsInv'
    BY <2>1, <2>2, QueriesAssumption DEF HandsInv, TypeOK
  <2>8. Held' = Held
    BY <2>1 DEF Held
  <2>9. ExactlyOnce'
    BY <2>1, <2>2, <2>3, <2>4, <2>5, <2>8 DEF ExactlyOnce
  <2> QED
    BY <2>6, <2>7, <2>9 DEF IInv
<1>2. CASE threadState # "RUNNING"
  <2>1. TypeOK' /\ HandsInv'
    BY <1>2 DEF TypeOK, HandsInv, IInv, AddTask
  <2>2. ExactlyOnce'
    BY <1>2, FrameExactlyOnce DEF IInv, AddTask
  <2> QED
    BY <2>1, <2>2 DEF IInv
<1> QED
  BY <1>1, <1>2

(* The database thread: each of its steps.                                  *)
LEMMA DbThreadIInv == ASSUME IInv, DbThread \/ DbSpuriousWake PROVE IInv'
<1> USE DEF IInv
<1>1. CASE DbCheckState \/ DbWait \/ DbNothing \/ DbSpuriousWake
  <2> USE DEF DbCheckState, DbWait, DbNothing, DbSpuriousWake, queueVars, histVars
  <2>1. TypeOK' /\ HandsInv'
    BY <1>1 DEF TypeOK, HandsInv
  <2>2. ExactlyOnce'
    BY <1>1, FrameExactlyOnce
  <2> QED
    BY <2>1, <2>2
<1>2. CASE DbTake
  <2> USE DEF DbTake, histVars
  <2>1. inHand["threadMain"] = NoQuery
    BY <1>2 DEF HandsInv
  <2>2. tasks' \in Seq(Queries) /\ inHand' \in [Runners -> OptQuery] /\ ExactlyOnce'
    BY <1>2, <2>1, PopKeeps DEF Runners
  <2>3. TypeOK'
    BY <1>2, <2>2 DEF TypeOK
  <2>4. inHand'["flush"] = inHand["flush"]
    BY <1>2 DEF PopFor, TypeOK, Runners
  <2>5. HandsInv'
    BY <1>2, <2>4 DEF HandsInv
  <2> QED
    BY <2>2, <2>3, <2>5
<1>3. CASE DbRun
  <2> USE DEF DbRun, queueVars
  <2>1. /\ executed' \in Seq(Queries)
        /\ inHand' \in [Runners -> OptQuery]
        /\ posting' \in [Runners -> OptQuery]
        /\ ExactlyOnce'
    BY <1>3, RunKeeps DEF Runners
  <2>2. TypeOK'
    BY <1>3, <2>1 DEF TypeOK
  <2>3. inHand'["threadMain"] = NoQuery /\ inHand'["flush"] = inHand["flush"]
    BY <1>3 DEF RunQuery, TypeOK, Runners
  <2>4. HandsInv'
    BY <1>3, <2>3 DEF HandsInv
  <2> QED
    BY <2>1, <2>2, <2>4
<1>4. CASE DbPost
  <2> USE DEF DbPost, queueVars
  <2>1. TypeOK'
    BY <1>4, PostType DEF TypeOK, Runners
  <2>2. HandsInv'
    BY <1>4 DEF HandsInv
  <2>3. ExactlyOnce'
    BY <1>4, FrameExactlyOnce
  <2> QED
    BY <2>1, <2>2, <2>3
<1> QED
  BY <1>1, <1>2, <1>3, <1>4 DEF DbThread

(* flush, in the controller's thread.                                       *)
LEMMA FlushIInv == ASSUME IInv, Flush PROVE IInv'
<1> USE QueriesAssumption DEF IInv, ControllerAt, ControllerGoes
<1>1. CASE FlushTake
  <2> USE DEF FlushTake, histVars
  <2>1. inHand["flush"] = NoQuery
    BY <1>1 DEF HandsInv
  <2>2. tasks' \in Seq(Queries) /\ inHand' \in [Runners -> OptQuery] /\ ExactlyOnce'
    BY <1>1, <2>1, PopKeeps DEF Runners
  <2>3. TypeOK'
    BY <1>1, <2>2 DEF TypeOK
  <2>4. inHand'["threadMain"] = inHand["threadMain"] /\ callPc'[Controller] = "flushRun"
    BY <1>1 DEF PopFor, TypeOK, Runners
  <2>5. HandsInv'
    BY <1>1, <2>4 DEF HandsInv
  <2> QED
    BY <2>2, <2>3, <2>5
<1>2. CASE FlushRun
  <2> USE DEF FlushRun, queueVars
  <2>1. /\ executed' \in Seq(Queries)
        /\ inHand' \in [Runners -> OptQuery]
        /\ posting' \in [Runners -> OptQuery]
        /\ ExactlyOnce'
    BY <1>2, RunKeeps DEF Runners
  <2>2. TypeOK'
    BY <1>2, <2>1 DEF TypeOK
  <2>3. inHand'["flush"] = NoQuery /\ inHand'["threadMain"] = inHand["threadMain"]
    BY <1>2 DEF RunQuery, TypeOK, Runners
  <2>4. HandsInv'
    BY <1>2, <2>3 DEF HandsInv
  <2> QED
    BY <2>1, <2>2, <2>4
<1>3. CASE FlushPost
  <2> USE DEF FlushPost, queueVars
  <2>1. TypeOK'
    BY <1>3, PostType DEF TypeOK, Runners
  <2>2. HandsInv'
    BY <1>3 DEF HandsInv
  <2>3. ExactlyOnce'
    BY <1>3, FrameExactlyOnce
  <2> QED
    BY <2>1, <2>2, <2>3
<1>4. CASE FlushReturn
  <2> USE DEF FlushReturn, queueVars, histVars
  <2>1. TypeOK' /\ HandsInv'
    BY <1>4 DEF TypeOK, HandsInv
  <2>2. ExactlyOnce'
    BY <1>4, FrameExactlyOnce
  <2> QED
    BY <2>1, <2>2
<1> QED
  BY <1>1, <1>2, <1>3, <1>4 DEF Flush

(* Signals, saves and the shutdown sequence move no query.                  *)
LEMMA ControlIInv ==
    ASSUME IInv,
           (\E c \in Callers : SignalAdded(c)) \/ SaveGameState \/ BeginShutdown \/ GameShutdown
    PROVE  IInv'
<1> USE QueriesAssumption DEF IInv, ControllerAt, ControllerGoes, queueVars, histVars
<1>1. CASE \E c \in Callers : SignalAdded(c)
  <2>1. PICK c \in Callers : SignalAdded(c)
    BY <1>1
  <2>2. TypeOK' /\ HandsInv'
    BY <2>1, NotifyType DEF SignalAdded, TypeOK, HandsInv
  <2>3. ExactlyOnce'
    BY <2>1, FrameExactlyOnce DEF SignalAdded
  <2> QED
    BY <2>2, <2>3
<1>2. CASE SaveGameState \/ BeginShutdown
  <2> USE DEF SaveGameState, BeginShutdown
  <2>1. TypeOK' /\ HandsInv'
    BY <1>2 DEF TypeOK, HandsInv
  <2>2. ExactlyOnce'
    BY <1>2, FrameExactlyOnce
  <2> QED
    BY <2>1, <2>2
<1>3. CASE GameShutdown
  <2> USE DEF GameShutdown, StopDatabaseTasks, StopDispatcher, Shutdown, SignalShutdown
  <2>1. TypeOK' /\ HandsInv'
    BY <1>3, NotifyType DEF TypeOK, HandsInv
  <2>2. ExactlyOnce'
    BY <1>3, FrameExactlyOnce
  <2> QED
    BY <2>1, <2>2
<1> QED
  BY <1>1, <1>2, <1>3

(* Every step of the three threads keeps the strengthened invariant.        *)
LEMMA NextIInv == IInv /\ [Next]_vars => IInv'
<1> SUFFICES ASSUME IInv, [Next]_vars PROVE IInv'
  OBVIOUS
<1>1. CASE UNCHANGED vars
  <2>1. TypeOK' /\ HandsInv'
    BY <1>1 DEF IInv, vars, queueVars, histVars, TypeOK, HandsInv
  <2>2. ExactlyOnce'
    BY <1>1, FrameExactlyOnce DEF IInv, vars, queueVars, histVars
  <2> QED
    BY <2>1, <2>2 DEF IInv
<1>2. ASSUME NEW c \in Callers, NEW q \in Queries, AddTask(c, q) PROVE IInv'
  BY <1>2, AddTaskIInv
<1> QED
  BY <1>1, <1>2, DbThreadIInv, FlushIInv, ControlIInv DEF Next

(* For every set of queries and callers, the variables keep their types.    *)
THEOREM DatabaseTasksTypes == Spec => []TypeOK
<1>1. IInv => TypeOK
  BY DEF IInv
<1> QED
  BY InitIInv, NextIInv, <1>1, PTL DEF Spec

(* For every set of queries and callers, a query accepted by addTask is in  *)
(* the queue, in one thread's hands or executed, and in one of them only:   *)
(* flush and threadMain, popping the same list, neither lose a query nor    *)
(* run one twice (databasetasks.cpp:33-104).                                *)
THEOREM DatabaseTasksExactlyOnce == Spec => []ExactlyOnce
<1>1. IInv => ExactlyOnce
  BY DEF IInv
<1> QED
  BY InitIInv, NextIInv, <1>1, PTL DEF Spec
-----------------------------------------------------------------------------
(* The queue is the end of what was accepted, in its order: what is before  *)
(* has been taken out.  And a shutdown accepts no more, and signals only    *)
(* after a flush that left the queue empty.                                 *)
LatestWait ==
    /\ Len(tasks) <= Len(submitted)
    /\ \A i \in 1 .. Len(tasks) : tasks[i] = submitted[(Len(submitted) - Len(tasks)) + i]
DrainInv ==
    /\ phase \in {"stopping", "closing", "exiting", "exited"} => threadState # "RUNNING"
    /\ phase \in {"exiting", "exited"} /\ callPc[Controller] \in {"idle", "signal"} => tasks = <<>>
    /\ phase = "exited" => callPc[Controller] = "idle"
    /\ phase \notin {"online", "exited"} => callPc[Controller] # "signal"

OrderInv == IInv /\ LatestWait /\ DrainInv /\ IsInjective(submitted)

(* A pop takes the earliest that waits, an accepted query is the latest.    *)
LEMMA LatestKept == ASSUME IInv, LatestWait, [Next]_vars PROVE LatestWait'
<1>1. tasks \in Seq(Queries) /\ submitted \in Seq(Queries)
  BY DEF IInv, TypeOK
<1>2. CASE UNCHANGED <<tasks, submitted>>
  BY <1>2 DEF LatestWait
<1>3. ASSUME NEW q, tasks' = Append(tasks, q), submitted' = Append(submitted, q), q \in Queries
      PROVE  LatestWait'
  <2>1. Len(tasks') = Len(tasks) + 1 /\ Len(submitted') = Len(submitted) + 1
    BY <1>1, <1>3
  <2>2. ASSUME NEW i \in 1 .. Len(tasks')
        PROVE  tasks'[i] = submitted'[(Len(submitted') - Len(tasks')) + i]
    <3>1. CASE i = Len(tasks) + 1
      BY <1>1, <1>3, <2>1, <3>1
    <3>2. CASE i \in 1 .. Len(tasks)
      <4>1. (Len(submitted) - Len(tasks)) + i \in 1 .. Len(submitted)
        BY <1>1, <3>2 DEF LatestWait
      <4>2. tasks'[i] = tasks[i]
        BY <1>1, <1>3, <3>2
      <4>3. submitted'[(Len(submitted) - Len(tasks)) + i] = submitted[(Len(submitted) - Len(tasks)) + i]
        BY <1>1, <1>3, <4>1
      <4>4. Len(submitted') - Len(tasks') = Len(submitted) - Len(tasks)
        BY <1>1, <2>1
      <4> QED
        BY <3>2, <4>2, <4>3, <4>4 DEF LatestWait
    <3> QED
      BY <1>1, <2>1, <3>1, <3>2
  <2> QED
    BY <1>1, <2>1, <2>2 DEF LatestWait
<1>4. ASSUME tasks # <<>>, tasks' = Tail(tasks), submitted' = submitted PROVE LatestWait'
  <2>1. Len(tasks') = Len(tasks) - 1 /\ \A i \in 1 .. Len(tasks') : tasks'[i] = tasks[i + 1]
    BY <1>1, <1>4
  <2>2. \A i \in 1 .. Len(tasks') : i + 1 \in 1 .. Len(tasks)
    BY <1>1, <2>1
  <2>3. \A i \in 1 .. Len(tasks') :
          (Len(submitted') - Len(tasks')) + i = (Len(submitted) - Len(tasks)) + (i + 1)
    BY <1>1, <1>4, <2>1
  <2>4. Len(tasks') <= Len(submitted')
    BY <1>1, <1>4, <2>1 DEF LatestWait
  <2> QED
    BY <1>4, <2>1, <2>2, <2>3, <2>4 DEF LatestWait
<1>5. ASSUME NEW c \in Callers, NEW q \in Queries, AddTask(c, q) PROVE LatestWait'
  <2>1. \/ tasks' = Append(tasks, q) /\ submitted' = Append(submitted, q)
        \/ UNCHANGED <<tasks, submitted>>
    BY <1>5 DEF AddTask
  <2> QED
    BY <1>2, <1>3, <2>1
<1>6. ASSUME NEW c \in Callers, SignalAdded(c) PROVE LatestWait'
  BY <1>2, <1>6 DEF SignalAdded, queueVars, histVars
<1>7. CASE DbThread \/ DbSpuriousWake
  <2>1. CASE DbTake
    BY <1>4, <2>1 DEF DbTake, PopFor, histVars
  <2>2. CASE DbCheckState \/ DbWait \/ DbNothing \/ DbRun \/ DbPost \/ DbSpuriousWake
    BY <1>2, <2>2 DEF DbCheckState, DbWait, DbNothing, DbRun, DbPost, DbSpuriousWake, queueVars,
                      histVars
  <2> QED
    BY <1>7, <2>1, <2>2 DEF DbThread
<1>8. CASE Flush
  <2>1. CASE FlushTake
    BY <1>4, <2>1 DEF FlushTake, PopFor, histVars
  <2>2. CASE FlushRun \/ FlushPost \/ FlushReturn
    BY <1>2, <2>2 DEF FlushRun, FlushPost, FlushReturn, queueVars, histVars
  <2> QED
    BY <1>8, <2>1, <2>2 DEF Flush
<1>9. CASE SaveGameState \/ BeginShutdown \/ GameShutdown
  BY <1>2, <1>9 DEF SaveGameState, BeginShutdown, GameShutdown, StopDatabaseTasks, StopDispatcher,
                    Shutdown, SignalShutdown, queueVars, histVars
<1>10. CASE UNCHANGED vars
  BY <1>2, <1>10 DEF vars, queueVars, histVars
<1> QED
  BY <1>5, <1>6, <1>7, <1>8, <1>9, <1>10 DEF Next

(* No query is accepted twice.                                              *)
LEMMA AcceptedOnce == ASSUME IInv, IsInjective(submitted), [Next]_vars PROVE IsInjective(submitted')
<1>1. submitted \in Seq(Queries)
  BY DEF IInv, TypeOK
<1>2. ASSUME NEW c \in Callers, NEW q \in Queries, AddTask(c, q) PROVE IsInjective(submitted')
  <2>1. q \notin ToSet(submitted) /\ (submitted' = Append(submitted, q) \/ submitted' = submitted)
    BY <1>2 DEF AddTask
  <2> QED
    BY <1>1, <2>1, PushInjective
<1>3. CASE UNCHANGED submitted
  BY <1>3
<1>4. ASSUME NEW c \in Callers, SignalAdded(c) PROVE UNCHANGED submitted
  BY <1>4 DEF SignalAdded, histVars
<1>5. DbThread \/ DbSpuriousWake => UNCHANGED submitted
  BY DEF DbThread, DbTake, DbCheckState, DbWait, DbNothing, DbRun, DbPost, DbSpuriousWake, histVars
<1>6. Flush => UNCHANGED submitted
  BY DEF Flush, FlushTake, FlushRun, FlushPost, FlushReturn, histVars
<1>7. SaveGameState \/ BeginShutdown \/ GameShutdown => UNCHANGED submitted
  BY DEF SaveGameState, BeginShutdown, GameShutdown, StopDatabaseTasks, StopDispatcher, Shutdown,
         SignalShutdown, histVars
<1>8. UNCHANGED vars => UNCHANGED submitted
  BY DEF vars, histVars
<1> QED
  BY <1>2, <1>3, <1>4, <1>5, <1>6, <1>7, <1>8 DEF Next

(* From the stop on the queue only becomes shorter.                         *)
LEMMA DrainKept == ASSUME IInv, DrainInv, [Next]_vars PROVE DrainInv'
<1> USE DEF DrainInv, ControllerAt, ControllerGoes
<1>1. /\ tasks \in Seq(Queries) /\ callPc \in [Callers -> {"idle", "signal", "flush", "flushRun", "flushPost"}]
      /\ Controller \in Callers
  BY QueriesAssumption DEF IInv, TypeOK
<1>2. ASSUME NEW c \in Callers, NEW q \in Queries, AddTask(c, q) PROVE DrainInv'
  BY <1>1, <1>2 DEF AddTask
<1>3. ASSUME NEW c \in Callers, SignalAdded(c) PROVE DrainInv'
  BY <1>1, <1>3 DEF SignalAdded, queueVars, histVars
<1>4. CASE DbThread \/ DbSpuriousWake
  <2>1. CASE DbTake
    BY <1>1, <2>1 DEF DbTake, PopFor
  <2>2. CASE DbCheckState \/ DbWait \/ DbNothing \/ DbRun \/ DbPost \/ DbSpuriousWake
    BY <2>2 DEF DbCheckState, DbWait, DbNothing, DbRun, DbPost, DbSpuriousWake, queueVars
  <2> QED
    BY <1>4, <2>1, <2>2 DEF DbThread
<1>5. CASE Flush
  BY <1>1, <1>5 DEF Flush, FlushTake, PopFor, FlushRun, FlushPost, FlushReturn, queueVars
<1>6. CASE SaveGameState \/ BeginShutdown
  BY <1>1, <1>6 DEF SaveGameState, BeginShutdown, queueVars
<1>7. CASE GameShutdown
  BY <1>1, <1>7 DEF GameShutdown, StopDatabaseTasks, StopDispatcher, Shutdown, SignalShutdown,
                    queueVars
<1>8. CASE UNCHANGED vars
  BY <1>8 DEF vars, queueVars
<1> QED
  BY <1>2, <1>3, <1>4, <1>5, <1>6, <1>7, <1>8 DEF Next

LEMMA OrderInvAlways == Spec => []OrderInv
<1>1. Init => OrderInv
  <2> SUFFICES ASSUME Init PROVE LatestWait /\ DrainInv /\ IsInjective(submitted)
    BY InitIInv DEF OrderInv
  <2>1. LatestWait /\ DrainInv
    BY QueriesAssumption DEF Init, LatestWait, DrainInv
  <2>2. IsInjective(<<>>)
    BY DEF IsInjective
  <2> QED
    BY <2>1, <2>2 DEF Init
<1>2. OrderInv /\ [Next]_vars => OrderInv'
  BY NextIInv, LatestKept, DrainKept, AcceptedOnce DEF OrderInv
<1> QED
  BY <1>1, <1>2, PTL DEF Spec

(* For every set of queries and callers, the only accepted queries that are *)
(* overtaken are those in a thread's hands: threadMain and flush execute in *)
(* the order of acceptance but for what each holds (databasetasks.cpp:44,   *)
(* 90).                                                                     *)
THEOREM DatabaseTasksOvertakes == Spec => []OvertakesOnlyHeld
<1>1. ASSUME OrderInv PROVE OvertakesOnlyHeld
  <2>1. /\ IInv /\ LatestWait /\ TypeOK /\ ExactlyOnce
        /\ tasks \in Seq(Queries) /\ submitted \in Seq(Queries)
    BY <1>1 DEF OrderInv, IInv, TypeOK
  <2>0. IsInjective(submitted)
    BY <1>1 DEF OrderInv
  <2> SUFFICES ASSUME NEW i \in DOMAIN submitted, NEW j \in DOMAIN submitted,
                      i < j, submitted[j] \in ToSet(executed)
               PROVE  submitted[i] \in ToSet(executed) \cup Held
    BY DEF OvertakesOnlyHeld
  <2>2. submitted[j] \notin ToSet(tasks)
    BY <2>1 DEF ExactlyOnce
  <2>3. j <= Len(submitted) - Len(tasks)
    <3> SUFFICES ASSUME j > Len(submitted) - Len(tasks) PROVE FALSE
      BY <2>1
    <3> DEFINE k == j - (Len(submitted) - Len(tasks))
    <3>1. k \in 1 .. Len(tasks) /\ (Len(submitted) - Len(tasks)) + k = j
      BY <2>1
    <3>2. tasks[k] = submitted[j]
      BY <2>1, <3>1 DEF LatestWait
    <3> QED
      BY <2>1, <2>2, <3>1, <3>2 DEF ToSet
  <2>4. submitted[i] \notin ToSet(tasks)
    <3> SUFFICES ASSUME submitted[i] \in ToSet(tasks) PROVE FALSE
      OBVIOUS
    <3>1. PICK k \in 1 .. Len(tasks) : tasks[k] = submitted[i]
      BY <2>1 DEF ToSet
    <3> DEFINE l == (Len(submitted) - Len(tasks)) + k
    <3>2. l \in 1 .. Len(submitted) /\ submitted[l] = submitted[i] /\ i < l
      BY <2>1, <2>3, <3>1 DEF LatestWait
    <3> QED
      BY <2>0, <2>1, <3>2 DEF IsInjective
  <2>5. submitted[i] \in ToSet(submitted)
    BY DEF ToSet
  <2> QED
    BY <2>1, <2>4, <2>5 DEF ExactlyOnce
<1> QED
  BY <1>1, OrderInvAlways, PTL

(* Once the shutdown and the database thread are over, every accepted query *)
(* has been executed: what flush has left nothing of cannot be filled again *)
(* (databasetasks.cpp:58, 99-104).                                          *)
THEOREM DatabaseTasksDrains == Spec => []ShutdownDrains
<1>1. ASSUME OrderInv PROVE ShutdownDrains
  <2> SUFFICES ASSUME phase = "exited", dbPc = "done" PROVE ToSet(submitted) = ToSet(executed)
    BY DEF ShutdownDrains
  <2>1. tasks = <<>> /\ callPc[Controller] = "idle" /\ HandsInv /\ ExactlyOnce
    BY <1>1 DEF OrderInv, DrainInv, IInv
  <2>2. ToSet(<<>>) = {}
    BY DEF ToSet
  <2>3. inHand["threadMain"] = NoQuery /\ inHand["flush"] = NoQuery
    BY <2>1 DEF HandsInv
  <2>4. Held = {}
    BY <2>3 DEF Held, Runners
  <2> QED
    BY <2>1, <2>2, <2>4 DEF ExactlyOnce
<1> QED
  BY <1>1, OrderInvAlways, PTL

(***************************************************************************)
(* Houses.  HousesInv is inductive: HomesSound, and that the beds as they  *)
(* were saved are beds as they can be, so that a start after a crash finds *)
(* a house in which HomesSound holds.  Lemmas about the operators of a     *)
(* house come first, then one for each kind of step.                       *)
(***************************************************************************)
(* The beds of a house h: the halves agree, and the map names the bed in    *)
(* which a player sleeps.                                                   *)
BedsRight(h) ==
    /\ \A half \in Halves :
         /\ h.sleeper[Partner(half)] = h.sleeper[half]
         /\ h.sleeper[half] # Nobody => h.bedOf[h.sleeper[half]] \in {half, Partner(half)}
    /\ \A p \in Residents : h.bedOf[p] # <<>> => h.sleeper[h.bedOf[p]] = p

(* Nobody is inside that is not invited.                                    *)
GuestsRight(h) == \A p \in h.inside : Invited(h, p)

(* Who sleeps in a bed of h slept in that bed of the house before.          *)
SleepersOf(h, before) ==
    \A half \in Halves : h.sleeper[half] # Nobody => before.sleeper[half] = h.sleeper[half]

(* The beds as they were saved.                                             *)
SavedRight ==
    /\ \A half \in Halves : disk.sleeper[Partner(half)] = disk.sleeper[half]
    /\ \A a, b \in Halves :
         disk.sleeper[a] # Nobody /\ disk.sleeper[a] = disk.sleeper[b] => b \in {a, Partner(a)}

(* The invariant of the house.                                              *)
HousesInv == HouseTypeOK /\ HomesSound /\ SavedRight

(* A bed is two halves, each the partner of the other.                      *)
LEMMA PartnerFacts ==
    ASSUME NEW half \in Halves
    PROVE  /\ Partner(half) \in Halves /\ Partner(Partner(half)) = half
           /\ Partner(half) # half /\ half # <<>>
BY DEF Halves, Partner

(* The lists of a house, and a house with nobody on them.                   *)
LEMMA ListNames == DOMAIN NoLists = {"sub", "guest", "door"} /\ NoLists \in Lists
BY DEF NoLists, Lists

(* PlayerFlag_CanEditHouses opens every house.                              *)
LEMMA EditorsInvited ==
    ASSUME NEW h, NEW p \in Editors PROVE Invited(h, p)
BY DEF Invited, Level

(* SetAccessList changes one list and puts guests out: no one inside is     *)
(* left uninvited.                                                          *)
LEMMA SetAccessListFacts ==
    ASSUME NEW h \in Homes, NEW list \in {"sub", "guest", "door"}, NEW S \in SUBSET Residents
    PROVE  LET r == SetAccessList(h, list, S)
           IN  /\ r \in Homes /\ r.owner = h.owner /\ r.sleeper = h.sleeper
               /\ r.bedOf = h.bedOf /\ r.document = h.document
               /\ r.lists = [h.lists EXCEPT ![list] = S]
               /\ r.inside \subseteq h.inside
               /\ GuestsRight(h) => GuestsRight(r)
<1> DEFINE v == [h EXCEPT !.lists[list] = S]
           r == SetAccessList(h, list, S)
           fewer == [v EXCEPT !.inside = {p \in @ : Invited(v, p) \/ p \in Editors}]
<1>1. r = (IF list = "door" THEN v ELSE fewer)
    <2> DEFINE Op(w) == IF list = "door" THEN w
                        ELSE [w EXCEPT !.inside = {p \in @ : Invited(w, p) \/ p \in Editors}]
    <2>1. r = With(v, LAMBDA w : Op(w))
        BY DEF SetAccessList
    <2>2. With(v, LAMBDA w : Op(w)) = Op(v)
        <3> HIDE DEF Op, v
        <3> QED BY DEF With
    <2>3. QED
        BY <2>1, <2>2
<1>2. /\ v \in Homes /\ v.owner = h.owner /\ v.sleeper = h.sleeper /\ v.inside = h.inside
      /\ v.bedOf = h.bedOf /\ v.document = h.document /\ v.lists = [h.lists EXCEPT ![list] = S]
    BY ListNames DEF Homes, Lists
<1>3. /\ fewer \in Homes /\ fewer.owner = v.owner /\ fewer.sleeper = v.sleeper
      /\ fewer.bedOf = v.bedOf /\ fewer.document = v.document /\ fewer.lists = v.lists
      /\ fewer.inside = {p \in v.inside : Invited(v, p) \/ p \in Editors}
    <2> HIDE DEF v
    <2> QED BY <1>2 DEF Homes
<1>4. GuestsRight(fewer)
    <2> HIDE DEF v, fewer
    <2> QED BY <1>3, EditorsInvited DEF GuestsRight, Invited, Level
<1>5. list = "door" /\ GuestsRight(h) => GuestsRight(v)
    <2>1. list = "door" => v.lists.sub = h.lists.sub /\ v.lists.guest = h.lists.guest
        BY <1>2, ListNames DEF Homes, Lists
    <2> HIDE DEF v
    <2> QED BY <1>2, <2>1 DEF GuestsRight, Invited, Level
<1> HIDE DEF v, fewer, r
<1>6. /\ r \in Homes /\ r.owner = h.owner /\ r.sleeper = h.sleeper
      /\ r.bedOf = h.bedOf /\ r.document = h.document
      /\ r.lists = [h.lists EXCEPT ![list] = S]
      /\ r.inside \subseteq h.inside
      /\ GuestsRight(h) => GuestsRight(r)
    BY <1>1, <1>2, <1>3, <1>4, <1>5
<1>7. QED
    BY <1>6 DEF r

(* WakeUp frees the bed of one sleeper, who is asleep nowhere after it.     *)
LEMMA WakeUpFacts ==
    ASSUME NEW h \in Homes, BedsRight(h), NEW half \in Halves, h.sleeper[half] # Nobody
    PROVE  LET r == WakeUp(h, half)
           IN  /\ r \in Homes /\ BedsRight(r) /\ SleepersOf(r, h)
               /\ \A x \in Halves : r.sleeper[x] # h.sleeper[half]
               /\ r.owner = h.owner /\ r.lists = h.lists /\ r.inside = h.inside
               /\ r.document = h.document
<1> DEFINE r == WakeUp(h, half)
           p == h.sleeper[half]
<1>1. /\ r \in Homes /\ r.owner = h.owner /\ r.lists = h.lists /\ r.inside = h.inside
      /\ r.document = h.document
      /\ r.bedOf = [q \in Residents |-> IF q = p THEN <<>> ELSE h.bedOf[q]]
      /\ r.sleeper = [x \in Halves |-> IF x \in {half, Partner(half)} THEN Nobody ELSE h.sleeper[x]]
    <2>1. h.sleeper \in [Halves -> Guids] /\ h.bedOf \in [Residents -> Halves \cup {<<>>}]
        BY DEF Homes
    <2>2. r.sleeper = [x \in Halves |-> IF x \in {half, Partner(half)} THEN Nobody ELSE h.sleeper[x]]
        BY <2>1, PartnerFacts DEF WakeUp, Homes
    <2>3. r.bedOf = [q \in Residents |-> IF q = p THEN <<>> ELSE h.bedOf[q]]
        BY <2>1 DEF WakeUp, Homes
    <2>4. /\ r.owner = h.owner /\ r.lists = h.lists /\ r.inside = h.inside
          /\ r.document = h.document
        BY DEF WakeUp, Homes
    <2>5. r.sleeper \in [Halves -> Guids] /\ r.bedOf \in [Residents -> Halves \cup {<<>>}]
        BY <2>1, <2>2, <2>3 DEF Guids
    <2>6. r = [h EXCEPT !.bedOf = r.bedOf, !.sleeper = r.sleeper]
        BY DEF WakeUp, Homes
    <2> HIDE DEF r, p
    <2>7. r \in Homes
        BY <2>5, <2>6 DEF Homes
    <2>8. QED
        BY <2>2, <2>3, <2>4, <2>7
<1> HIDE DEF r, p
<1>2. p \in Residents /\ p # Nobody
    BY DEF p, Homes, Guids
<1>3. h.bedOf[p] \in {half, Partner(half)}
    BY DEF BedsRight, p
<1>4. ASSUME NEW x \in Halves, h.sleeper[x] = p PROVE x \in {half, Partner(half)}
    BY <1>2, <1>3, <1>4, PartnerFacts DEF BedsRight
<1>5. SleepersOf(r, h)
    BY <1>1 DEF SleepersOf
<1>6. \A x \in Halves : r.sleeper[x] # p
    BY <1>1, <1>2, <1>4
<1>7. BedsRight(r)
    <2>1. ASSUME NEW x \in Halves
          PROVE  /\ r.sleeper[Partner(x)] = r.sleeper[x]
                 /\ r.sleeper[x] # Nobody => r.bedOf[r.sleeper[x]] \in {x, Partner(x)}
        <3>1. r.sleeper[Partner(x)] = r.sleeper[x]
            BY <1>1, PartnerFacts DEF BedsRight
        <3>2. ASSUME r.sleeper[x] # Nobody PROVE r.bedOf[r.sleeper[x]] \in {x, Partner(x)}
            <4>1. r.sleeper[x] = h.sleeper[x] /\ h.sleeper[x] # p /\ h.sleeper[x] \in Residents
                BY <1>1, <1>6, <3>2 DEF Homes, Guids
            <4>2. QED
                BY <4>1, <1>1, <3>2 DEF BedsRight
        <3>3. QED
            BY <3>1, <3>2
    <2>2. ASSUME NEW q \in Residents, r.bedOf[q] # <<>> PROVE r.sleeper[r.bedOf[q]] = q
        <3>1. q # p /\ r.bedOf[q] = h.bedOf[q]
            BY <1>1, <2>2
        <3>2. h.bedOf[q] \in Halves /\ h.sleeper[h.bedOf[q]] = q
            BY <2>2, <3>1 DEF BedsRight, Homes
        <3>3. h.bedOf[q] \notin {half, Partner(half)}
            BY <3>1, <3>2 DEF BedsRight, p
        <3>4. QED
            BY <1>1, <3>1, <3>2, <3>3
    <2>3. QED
        BY <2>1, <2>2 DEF BedsRight
<1>8. QED
    BY <1>1, <1>5, <1>6, <1>7 DEF r, p

(* WakeAll leaves no sleeper, in the beds or in the map of the sleepers:    *)
(* whoever sleeps has a half of a bed in Woken.                             *)
LEMMA WakeAllFacts ==
    ASSUME NEW h \in Homes, BedsRight(h)
    PROVE  LET r == WakeAll(h)
           IN  /\ r \in Homes /\ BedsRight(r) /\ r.sleeper = AllFree
               /\ r.owner = h.owner /\ r.lists = h.lists /\ r.inside = h.inside
               /\ r.document = h.document
<1> DEFINE r == WakeAll(h)
<1>1. ASSUME NEW p \in Residents, h.bedOf[p] # <<>> PROVE \E half \in Woken(h) : h.sleeper[half] = p
    <2> DEFINE a == h.bedOf[p]
    <2>1. a \in Halves /\ h.sleeper[a] = p /\ h.sleeper[Partner(a)] = p /\ p # Nobody
        BY <1>1, HousesAssumption DEF BedsRight, Homes
    <2>2. a[2] = 1 \/ Partner(a)[2] = 1
        BY <2>1 DEF Halves, Partner
    <2> HIDE DEF a
    <2>3. Partner(a) \in Halves
        BY <2>1, PartnerFacts
    <2>4. QED
        BY <2>1, <2>2, <2>3 DEF Woken
<1>2. /\ r.owner = h.owner /\ r.lists = h.lists /\ r.inside = h.inside
      /\ r.document = h.document /\ r.sleeper = AllFree
    BY DEF WakeAll, Homes
<1>3. r.bedOf = [p \in Residents |-> <<>>]
    <2>1. r.bedOf = [p \in Residents |-> IF \E half \in Woken(h) : h.sleeper[half] = p THEN <<>> ELSE h.bedOf[p]]
        BY DEF WakeAll, Homes
    <2>2. QED
        BY <1>1, <2>1
<1>4. r \in Homes
    <2>1. AllFree \in [Halves -> Guids] /\ [p \in Residents |-> <<>>] \in [Residents -> Halves \cup {<<>>}]
        BY DEF AllFree, Guids
    <2>2. r = [h EXCEPT !.bedOf = r.bedOf, !.sleeper = r.sleeper]
        BY DEF WakeAll, Homes
    <2> HIDE DEF r
    <2>3. QED
        BY <1>2, <1>3, <2>1, <2>2 DEF Homes
<1> HIDE DEF r
<1>5. BedsRight(r)
    BY <1>2, <1>3, PartnerFacts DEF BedsRight, AllFree
<1>6. QED
    BY <1>2, <1>4, <1>5 DEF r

(* Deserted leaves a house with no owner, list, guest or sleeper.           *)
LEMMA DesertedFacts ==
    ASSUME NEW h \in Homes, BedsRight(h)
    PROVE  LET r == Deserted(h)
           IN  /\ r \in Homes /\ BedsRight(r) /\ r.owner = Nobody
               /\ r.lists = NoLists /\ r.sleeper = AllFree
               /\ r.inside \subseteq h.inside \cap Editors /\ r.document = h.document
<1> DEFINE out == [h EXCEPT !.inside = @ \cap Editors]
           awake == WakeAll(out)
           free == [awake EXCEPT !.owner = Nobody]
           s1 == SetAccessList(free, "sub", {})
           s2 == SetAccessList(s1, "guest", {})
           s3 == SetAccessList(s2, "door", {})
<1>1. /\ out \in Homes /\ BedsRight(out) /\ out.inside = h.inside \cap Editors
      /\ out.document = h.document
    BY DEF Homes, BedsRight
<1> HIDE DEF out
<1>2. /\ awake \in Homes /\ BedsRight(awake) /\ awake.sleeper = AllFree
      /\ awake.inside = out.inside /\ awake.document = out.document
    BY <1>1, WakeAllFacts
<1> HIDE DEF awake
<1>3. /\ free \in Homes /\ free.owner = Nobody /\ free.sleeper = AllFree
      /\ free.bedOf = awake.bedOf /\ free.inside = awake.inside /\ free.document = awake.document
    BY <1>2 DEF Homes, Guids
<1> HIDE DEF free
<1>4. /\ s1 \in Homes /\ s1.owner = Nobody /\ s1.sleeper = AllFree
      /\ s1.bedOf = awake.bedOf /\ s1.inside \subseteq free.inside /\ s1.document = free.document
      /\ s1.lists = [free.lists EXCEPT !["sub"] = {}]
    BY <1>3, SetAccessListFacts
<1> HIDE DEF s1
<1>5. /\ s2 \in Homes /\ s2.owner = Nobody /\ s2.sleeper = AllFree
      /\ s2.bedOf = awake.bedOf /\ s2.inside \subseteq free.inside /\ s2.document = free.document
      /\ s2.lists = [s1.lists EXCEPT !["guest"] = {}]
    <2>1. /\ s2 \in Homes /\ s2.owner = s1.owner /\ s2.sleeper = s1.sleeper
          /\ s2.bedOf = s1.bedOf /\ s2.document = s1.document
          /\ s2.lists = [s1.lists EXCEPT !["guest"] = {}] /\ s2.inside \subseteq s1.inside
        BY ZenonT(60), <1>4, SetAccessListFacts
    <2> HIDE DEF s2
    <2>2. QED
        BY <1>4, <2>1
<1> HIDE DEF s2
<1>6. /\ s3 \in Homes /\ s3.owner = Nobody /\ s3.sleeper = AllFree
      /\ s3.bedOf = awake.bedOf /\ s3.inside \subseteq free.inside /\ s3.document = free.document
      /\ s3.lists = [s2.lists EXCEPT !["door"] = {}]
    <2>1. /\ s3 \in Homes /\ s3.owner = s2.owner /\ s3.sleeper = s2.sleeper
          /\ s3.bedOf = s2.bedOf /\ s3.document = s2.document
          /\ s3.lists = [s2.lists EXCEPT !["door"] = {}] /\ s3.inside \subseteq s2.inside
        BY <1>5, SetAccessListFacts
    <2> HIDE DEF s3
    <2>2. QED
        BY <1>5, <2>1
<1> HIDE DEF s3
<1>7. s3.lists = NoLists
    BY <1>3, <1>4, <1>5, <1>6, ListNames DEF Homes, Lists, NoLists
<1>8. BedsRight(s3)
    BY <1>2, <1>6 DEF BedsRight
<1>9. Deserted(h) = s3
    BY DEF Deserted, NoAccess, s3, s2, s1, free, awake, out
<1>10. QED
    BY <1>1, <1>2, <1>3, <1>6, <1>7, <1>8, <1>9

(* SetOwner keeps the beds and the guests right, and takes everything from  *)
(* an owner before.                                                         *)
LEMMA SetOwnerFacts ==
    ASSUME NEW h \in Homes, BedsRight(h), GuestsRight(h), NEW g \in Guids
    PROVE  LET r == SetOwner(h, g)
           IN  /\ r \in Homes /\ BedsRight(r) /\ GuestsRight(r) /\ SleepersOf(r, h)
               /\ r.owner = g /\ r.inside \subseteq h.inside /\ r.document = h.document
               /\ h.owner \notin {Nobody, g} => r.lists = NoLists /\ r.sleeper = AllFree
<1> DEFINE r == SetOwner(h, g)
           d == Deserted(h)
<1>1. CASE h.owner = g
    BY <1>1 DEF SetOwner, SleepersOf
<1>2. CASE h.owner # g /\ h.owner = Nobody
    <2>1. /\ r = [h EXCEPT !.owner = g]
        BY <1>2 DEF SetOwner
    <2>2. /\ r \in Homes /\ r.owner = g /\ r.inside = h.inside /\ r.document = h.document
          /\ r.lists = h.lists /\ r.sleeper = h.sleeper /\ r.bedOf = h.bedOf
        BY <2>1 DEF Homes
    <2> HIDE DEF r
    <2>3. GuestsRight(r)
        <3>1. \A p \in r.inside : p # Nobody
            BY <2>2, HousesAssumption DEF Homes
        <3>2. QED
            BY <1>2, <2>2, <3>1 DEF GuestsRight, Invited, Level
    <2>4. BedsRight(r) /\ SleepersOf(r, h)
        BY <2>2 DEF BedsRight, SleepersOf
    <2>5. QED
        BY <1>2, <2>2, <2>3, <2>4 DEF r
<1>3. CASE h.owner # g /\ h.owner # Nobody
    <2>1. /\ d \in Homes /\ BedsRight(d) /\ d.lists = NoLists /\ d.sleeper = AllFree
          /\ d.inside \subseteq h.inside \cap Editors /\ d.document = h.document
        BY DesertedFacts
    <2>2. r = [d EXCEPT !.owner = g]
        BY <1>3 DEF SetOwner
    <2> HIDE DEF d
    <2>3. /\ r \in Homes /\ r.owner = g /\ r.inside = d.inside /\ r.document = d.document
          /\ r.lists = d.lists /\ r.sleeper = d.sleeper /\ r.bedOf = d.bedOf
        BY <2>1, <2>2 DEF Homes
    <2> HIDE DEF r
    <2>4. GuestsRight(r)
        BY <2>1, <2>3, EditorsInvited DEF GuestsRight
    <2>5. BedsRight(r) /\ SleepersOf(r, h)
        BY <2>1, <2>3 DEF BedsRight, SleepersOf, AllFree
    <2>6. QED
        BY <2>1, <2>3, <2>4, <2>5 DEF r
<1>4. QED
    BY <1>1, <1>2, <1>3

(* What a start loads is right if what was saved is.                        *)
LEMMA LoadedFacts ==
    ASSUME HouseTypeOK, SavedRight
    PROVE  /\ LoadedHome \in Homes /\ BedsRight(LoadedHome) /\ GuestsRight(LoadedHome)
           /\ LoadedHome.owner = disk.owner /\ LoadedHome.inside = {} /\ LoadedHome.document = <<>>
<1> DEFINE r == LoadedHome
           halvesOf(p) == {half \in Halves : disk.sleeper[half] = p}
<1>1. disk.owner \in Guids /\ disk.lists \in Lists /\ disk.sleeper \in [Halves -> Guids]
    BY DEF HouseTypeOK
<1>2. /\ r.owner = disk.owner /\ r.inside = {} /\ r.document = <<>> /\ r.lists = disk.lists
      /\ r.sleeper = disk.sleeper
      /\ r.bedOf = [p \in Residents |-> IF halvesOf(p) = {} THEN <<>> ELSE CHOOSE half \in halvesOf(p) : TRUE]
    BY DEF LoadedHome, NewHome
<1>3. /\ NewHome \in Homes
      /\ r = [NewHome EXCEPT !.owner = r.owner, !.lists = r.lists, !.sleeper = r.sleeper, !.bedOf = r.bedOf]
    <2>1. NewHome \in Homes
        BY ListNames DEF NewHome, Homes, Guids, AllFree
    <2>2. QED
        BY <2>1 DEF LoadedHome, NewHome
<1> HIDE DEF r
<1>4. ASSUME NEW p \in Residents
      PROVE  \/ r.bedOf[p] = <<>> /\ \A x \in Halves : disk.sleeper[x] # p
             \/ r.bedOf[p] \in Halves /\ disk.sleeper[r.bedOf[p]] = p
    BY <1>2
<1>5. r.bedOf \in [Residents -> Halves \cup {<<>>}]
    <2>1. \A p \in Residents : r.bedOf[p] \in Halves \cup {<<>>}
        BY <1>4
    <2>2. QED
        BY <1>2, <2>1
<1>6. r \in Homes
    <2> DEFINE n == NewHome
    <2> HIDE DEF n
    <2>1. n \in Homes /\ r = [n EXCEPT !.owner = r.owner, !.lists = r.lists, !.sleeper = r.sleeper, !.bedOf = r.bedOf]
        BY <1>3 DEF n
    <2>2. r.owner \in Guids /\ r.lists \in Lists /\ r.sleeper \in [Halves -> Guids]
        BY <1>1, <1>2
    <2>3. QED
        BY <1>5, <2>1, <2>2 DEF Homes
<1>7. BedsRight(r)
    <2>1. ASSUME NEW half \in Halves, r.sleeper[half] # Nobody
          PROVE  r.bedOf[r.sleeper[half]] \in {half, Partner(half)}
        <3> DEFINE p == r.sleeper[half]
        <3>1. p \in Residents /\ p # Nobody /\ disk.sleeper[half] = p
            BY <1>1, <1>2, <2>1 DEF Guids
        <3> HIDE DEF p
        <3>2. r.bedOf[p] \in Halves /\ disk.sleeper[r.bedOf[p]] = p
            BY <1>4, <3>1
        <3>3. QED
            BY <3>1, <3>2 DEF SavedRight, p
    <2>2. \A half \in Halves : r.sleeper[Partner(half)] = r.sleeper[half]
        BY <1>2 DEF SavedRight
    <2>3. \A p \in Residents : r.bedOf[p] # <<>> => r.sleeper[r.bedOf[p]] = p
        BY <1>2, <1>4
    <2>4. QED
        BY <2>1, <2>2, <2>3 DEF BedsRight
<1>8. QED
    BY <1>2, <1>6, <1>7 DEF r, GuestsRight

(* Who sleeps is offline or about to be kicked.                             *)
SleepersRight(h) ==
    \A half \in Halves : h.sleeper[half] # Nobody => h.sleeper[half] \notin online \/ h.sleeper[half] \in kicks

(* HomesSound, part by part.                                                *)
LEMMA HomesInParts ==
    HomesSound <=>
      /\ BedsRight(home) /\ SleepersRight(home)
      /\ home.inside \subseteq online /\ GuestsRight(home)
      /\ home.owner = Nobody /\ ~stray => home.lists = NoLists /\ home.sleeper = AllFree
      /\ disk.owner = home.owner
      /\ home.document # <<>> => {home.document[1], home.document[2]} \subseteq online
BY DEF HomesSound, BedsRight, SleepersRight, GuestsRight

(* The same after a step.                                                   *)
LEMMA HomesInPartsNext ==
    HomesSound' <=>
      /\ BedsRight(home') /\ SleepersRight(home)'
      /\ home'.inside \subseteq online' /\ GuestsRight(home')
      /\ home'.owner = Nobody /\ ~stray' => home'.lists = NoLists /\ home'.sleeper = AllFree
      /\ disk'.owner = home'.owner
      /\ home'.document # <<>> => {home'.document[1], home'.document[2]} \subseteq online'
BY DEF HomesSound, BedsRight, SleepersRight, GuestsRight, Invited, Level

(* A player sleeps in one bed, of which both halves are his.                *)
LEMMA OneBedEach ==
    ASSUME NEW h \in Homes, BedsRight(h), NEW a \in Halves, NEW b \in Halves,
           h.sleeper[a] # Nobody, h.sleeper[a] = h.sleeper[b]
    PROVE  b \in {a, Partner(a)}
<1>1. h.bedOf[h.sleeper[a]] \in {a, Partner(a)} /\ h.bedOf[h.sleeper[a]] \in {b, Partner(b)}
    BY DEF BedsRight
<1>2. QED
    BY <1>1, PartnerFacts

(* A save writes beds that are right, so the saved beds stay right.         *)
LEMMA SavedKept ==
    ASSUME HousesInv, disk'.sleeper \in {disk.sleeper, home.sleeper} PROVE SavedRight'
<1>1. home \in Homes /\ BedsRight(home)
    BY HomesInParts DEF HousesInv, HouseTypeOK
<1>2. CASE disk'.sleeper = disk.sleeper
    BY <1>2 DEF HousesInv, SavedRight
<1>3. CASE disk'.sleeper = home.sleeper
    <2>1. \A half \in Halves : home.sleeper[Partner(half)] = home.sleeper[half]
        BY <1>1 DEF BedsRight
    <2>2. \A a, b \in Halves : home.sleeper[a] # Nobody /\ home.sleeper[a] = home.sleeper[b]
                                 => b \in {a, Partner(a)}
        BY <1>1, OneBedEach
    <2>3. QED
        BY <1>3, <2>1, <2>2 DEF SavedRight
<1>4. QED
    BY <1>2, <1>3

(* The house of FirstOwner, empty.                                          *)
LEMMA InitHousesInv == HouseInit => HousesInv
<1> SUFFICES ASSUME HouseInit PROVE HousesInv
    OBVIOUS
<1>1. /\ home.owner = FirstOwner /\ home.lists = NoLists /\ home.inside = {} /\ home.sleeper = AllFree
      /\ home.bedOf = [p \in Residents |-> <<>>] /\ home.document = <<>>
    BY DEF HouseInit, NewHome
<1>2. home \in Homes
    BY ListNames, HousesAssumption DEF HouseInit, NewHome, Homes, Guids, AllFree
<1>3. disk \in [owner : Guids, lists : Lists, sleeper : [Halves -> Guids]]
    BY ListNames, HousesAssumption DEF HouseInit, Guids, AllFree
<1>4. HouseTypeOK
    BY <1>2, <1>3 DEF HouseTypeOK, HouseInit
<1>5. HomesSound
    BY <1>1, HomesInParts, PartnerFacts DEF HouseInit, BedsRight, SleepersRight, GuestsRight, AllFree
<1>6. SavedRight
    BY PartnerFacts DEF HouseInit, SavedRight, AllFree
<1>7. QED
    BY <1>4, <1>5, <1>6 DEF HousesInv

(* The owner changes, of the house as it is but for the document of a sale. *)
LEMMA OwnerStep ==
    ASSUME HousesInv, NEW g \in Guids, NEW h \in Homes, NewOwner(g, h),
           h.owner = home.owner, h.lists = home.lists, h.inside = home.inside,
           h.sleeper = home.sleeper, h.bedOf = home.bedOf, h.document \in {home.document, <<>>},
           g = Nobody => home.owner # Nobody, houseTurns' \in Nat
    PROVE  HousesInv'
<1> DEFINE r == SetOwner(h, g)
<1>1. BedsRight(home) /\ GuestsRight(home) /\ SleepersRight(home)
    BY HomesInParts DEF HousesInv
<1>2. BedsRight(h) /\ GuestsRight(h)
    BY <1>1 DEF BedsRight, GuestsRight, Invited, Level
<1>3. /\ r \in Homes /\ BedsRight(r) /\ GuestsRight(r) /\ SleepersOf(r, h)
      /\ r.owner = g /\ r.inside \subseteq h.inside /\ r.document = h.document
      /\ h.owner \notin {Nobody, g} => r.lists = NoLists /\ r.sleeper = AllFree
    BY <1>2, SetOwnerFacts
<1>4. home' = r
    BY DEF NewOwner
<1> HIDE DEF r
<1>5. SleepersRight(home)'
    BY <1>1, <1>3, <1>4 DEF SleepersRight, SleepersOf, NewOwner
<1>6. disk' = [disk EXCEPT !.owner = g] /\ disk'.owner = g /\ disk'.sleeper = disk.sleeper
    BY DEF NewOwner, HousesInv, HouseTypeOK
<1>7. HouseTypeOK'
    BY <1>3, <1>4, <1>6 DEF NewOwner, HousesInv, HouseTypeOK
<1>8. SavedRight'
    BY <1>6, SavedKept
<1>9. HomesSound'
    BY <1>3, <1>4, <1>5, <1>6, HomesInParts, HomesInPartsNext DEF NewOwner, HousesInv
<1>10. QED
    BY <1>7, <1>8, <1>9 DEF HousesInv

(* A step that leaves owner, lists, beds and table alone: somebody comes in *)
(* or goes out, comes online or leaves, a document is written or dropped.   *)
LEMMA VisitStep ==
    ASSUME HousesInv, home' \in Homes, home'.owner = home.owner, home'.lists = home.lists,
           home'.sleeper = home.sleeper, home'.bedOf = home.bedOf,
           disk' = disk, stray' = stray, saving' \in BOOLEAN, houseTurns' \in Nat,
           online' \subseteq Residents, kicks' \subseteq Residents,
           \A p \in home'.inside : p \in online' /\ (p \in home.inside \/ Invited(home, p)),
           \A p \in online' : p \in online /\ (p \in kicks => p \in kicks'),
           home'.document # <<>> => {home'.document[1], home'.document[2]} \subseteq online'
    PROVE  HousesInv'
<1>1. /\ BedsRight(home) /\ GuestsRight(home) /\ SleepersRight(home)
      /\ home.owner = Nobody /\ ~stray => home.lists = NoLists /\ home.sleeper = AllFree
      /\ disk.owner = home.owner
    BY HomesInParts DEF HousesInv
<1>2. BedsRight(home')
    BY <1>1 DEF BedsRight
<1>3. GuestsRight(home')
    BY <1>1 DEF GuestsRight, Invited, Level
<1>4. SleepersRight(home)'
    BY <1>1 DEF SleepersRight
<1>5. HouseTypeOK'
    BY DEF HousesInv, HouseTypeOK
<1>6. SavedRight'
    BY SavedKept
<1>7. HomesSound'
    BY <1>1, <1>2, <1>3, <1>4, HomesInPartsNext
<1>8. QED
    BY <1>5, <1>6, <1>7 DEF HousesInv

(* A save writes owner and lists, or beds, or nothing.                      *)
LEMMA SaveStep ==
    ASSUME HousesInv, UNCHANGED <<home, online, kicks, stray>>, saving' \in BOOLEAN, houseTurns' \in Nat,
           disk' \in {disk, [disk EXCEPT !.sleeper = home.sleeper],
                      [disk EXCEPT !.owner = home.owner, !.lists = home.lists]}
    PROVE  HousesInv'
<1>1. disk'.owner = home.owner /\ disk'.sleeper \in {disk.sleeper, home.sleeper}
    BY HomesInParts DEF HousesInv, HouseTypeOK
<1>2. HouseTypeOK'
    BY DEF HousesInv, HouseTypeOK, Homes
<1>3. HomesSound'
    BY <1>1 DEF HousesInv, HomesSound, Invited, Level
<1>4. QED
    BY <1>1, <1>2, <1>3, SavedKept DEF HousesInv

(* A list is edited: nobody inside is left uninvited.                       *)
LEMMA EditListStep ==
    ASSUME HousesInv, NEW p \in Residents, NEW S \in Texts, NEW list \in {"sub", "guest", "door"},
           EditList(p, list, S), houseTurns' \in Nat
    PROVE  HousesInv'
<1> DEFINE r == SetAccessList(home, list, S)
<1>1. home \in Homes /\ BedsRight(home) /\ GuestsRight(home) /\ SleepersRight(home)
    BY HomesInParts DEF HousesInv, HouseTypeOK
<1>2. S \in SUBSET Residents
    BY HousesAssumption
<1>3. /\ r \in Homes /\ r.owner = home.owner /\ r.sleeper = home.sleeper
      /\ r.bedOf = home.bedOf /\ r.document = home.document
      /\ r.inside \subseteq home.inside /\ GuestsRight(r)
    <2>1. ASSUME NEW h \in Homes, GuestsRight(h), NEW T \in SUBSET Residents
          PROVE  LET v == SetAccessList(h, list, T)
                 IN  /\ v \in Homes /\ v.owner = h.owner /\ v.sleeper = h.sleeper
                     /\ v.bedOf = h.bedOf /\ v.document = h.document
                     /\ v.inside \subseteq h.inside /\ GuestsRight(v)
        <3>1. CASE list = "sub"
            BY <2>1, <3>1, SetAccessListFacts
        <3>2. CASE list = "guest"
            BY <2>1, <3>2, SetAccessListFacts
        <3>3. CASE list = "door"
            BY <2>1, <3>3, SetAccessListFacts
        <3>4. QED
            BY <3>1, <3>2, <3>3
    <2>2. QED
        BY <1>1, <1>2, <2>1
<1>4. home' = r /\ stray' = (stray \/ home.owner = Nobody) /\ UNCHANGED <<online, kicks, disk, saving>>
    BY DEF EditList
<1> HIDE DEF r
<1>5. BedsRight(r) /\ SleepersRight(home)'
    BY <1>1, <1>3, <1>4 DEF BedsRight, SleepersRight
<1>6. HouseTypeOK'
    BY <1>3, <1>4 DEF HousesInv, HouseTypeOK
<1>7. HomesSound'
    BY <1>3, <1>4, <1>5, HomesInParts, HomesInPartsNext DEF HousesInv
<1>8. QED
    BY <1>4, <1>6, <1>7, SavedKept DEF HousesInv

(* Waking somebody up, in a house h that differs from the one there is in   *)
(* who is inside: everybody who is online then but the one who woke was     *)
(* online before.                                                           *)
LEMMA WakeStep ==
    ASSUME HousesInv, NEW h \in Homes, h.owner = home.owner, h.lists = home.lists,
           h.sleeper = home.sleeper, h.bedOf = home.bedOf, h.document = home.document,
           \A q \in h.inside : q \in online' /\ (q \in home.inside \/ Invited(home, q)),
           NEW half \in Halves, h.sleeper[half] # Nobody, home' = WakeUp(h, half),
           online \subseteq online', online' \subseteq Residents,
           \A q \in online' : q \in online \/ q = h.sleeper[half],
           UNCHANGED <<kicks, disk, saving, stray>>, houseTurns' \in Nat
    PROVE  HousesInv'
<1>1. BedsRight(home) /\ GuestsRight(home) /\ SleepersRight(home)
    BY HomesInParts DEF HousesInv
<1>2. BedsRight(h) /\ GuestsRight(h)
    BY <1>1 DEF BedsRight, GuestsRight, Invited, Level
<1> DEFINE r == WakeUp(h, half)
<1>3. /\ r \in Homes /\ BedsRight(r) /\ SleepersOf(r, h)
      /\ \A x \in Halves : r.sleeper[x] # h.sleeper[half]
      /\ r.owner = h.owner /\ r.lists = h.lists /\ r.inside = h.inside
      /\ r.document = h.document
    BY <1>2, WakeUpFacts
<1>4. home' = r
    OBVIOUS
<1> HIDE DEF r
<1>5. SleepersRight(home)'
    BY <1>1, <1>3, <1>4 DEF SleepersRight, SleepersOf
<1>6. GuestsRight(r)
    BY <1>2, <1>3 DEF GuestsRight, Invited, Level
<1>7. home.sleeper # AllFree
    BY DEF AllFree
<1>8. HouseTypeOK'
    BY <1>3, <1>4 DEF HousesInv, HouseTypeOK
<1>9. HomesSound'
    BY <1>3, <1>4, <1>5, <1>6, <1>7, HomesInParts, HomesInPartsNext DEF HousesInv
<1>10. QED
    BY <1>8, <1>9, SavedKept DEF HousesInv

(* A login wakes the sleeper, and lets nobody in that is not invited.       *)
LEMMA AppearStep ==
    ASSUME HousesInv, NEW p \in Residents, Appear(p), houseTurns' \in Nat
    PROVE  HousesInv'
<1>1. PICK within \in SUBSET {p} :
        /\ within # {} => Invited(home, p)
        /\ LET h == [home EXCEPT !.inside = @ \cup within]
           IN  home' = IF h.bedOf[p] = <<>> THEN h ELSE WakeUp(h, h.bedOf[p])
    BY DEF Appear
<1> DEFINE h == [home EXCEPT !.inside = @ \cup within]
<1>2. /\ p \notin online /\ online' = online \cup {p}
      /\ UNCHANGED <<kicks, disk, saving, stray>>
    BY DEF Appear
<1>3. /\ home \in Homes /\ BedsRight(home) /\ SleepersRight(home) /\ GuestsRight(home)
      /\ home.inside \subseteq online /\ p # Nobody
      /\ home.document # <<>> => {home.document[1], home.document[2]} \subseteq online
    BY HomesInParts, HousesAssumption DEF HousesInv, HouseTypeOK
<1>4. /\ h \in Homes /\ h.owner = home.owner /\ h.lists = home.lists /\ h.sleeper = home.sleeper
      /\ h.bedOf = home.bedOf /\ h.document = home.document /\ h.inside = home.inside \cup within
    BY <1>3 DEF Homes
<1>5. home' = IF h.bedOf[p] = <<>> THEN h ELSE WakeUp(h, h.bedOf[p])
    BY <1>1
<1> HIDE DEF h
<1>6. \A q \in h.inside : q \in online' /\ (q \in home.inside \/ Invited(home, q))
    BY <1>1, <1>2, <1>3, <1>4
<1>7. online' \subseteq Residents
    BY <1>2 DEF HousesInv, HouseTypeOK
<1>8. CASE h.bedOf[p] # <<>>
    <2>1. h.bedOf[p] \in Halves /\ h.sleeper[h.bedOf[p]] = p
        BY <1>3, <1>4, <1>8 DEF BedsRight, Homes
    <2> DEFINE half == h.bedOf[p]
    <2>2. home' = WakeUp(h, half)
        BY <1>5, <1>8
    <2> HIDE DEF half
    <2>3. half \in Halves /\ h.sleeper[half] = p
        BY <2>1 DEF half
    <2>4. QED
        BY <1>2, <1>3, <1>4, <1>6, <1>7, <2>2, <2>3, WakeStep
<1>9. CASE h.bedOf[p] = <<>>
    <2>1. home' = h
        BY <1>5, <1>9
    <2>2. \A half \in Halves : home.sleeper[half] # p
        BY <1>3, <1>4, <1>9, PartnerFacts DEF BedsRight
    <2>3. SleepersRight(home)'
        BY <1>2, <1>3, <1>4, <2>1, <2>2 DEF SleepersRight
    <2>4. BedsRight(h) /\ GuestsRight(h)
        <3>1. BedsRight(h)
            BY <1>3, <1>4 DEF BedsRight
        <3>2. \A q \in h.inside : Invited(home, q)
            BY <1>1, <1>3, <1>4 DEF GuestsRight
        <3>3. GuestsRight(h)
            BY <1>4, <3>2 DEF GuestsRight, Invited, Level
        <3>4. QED
            BY <3>1, <3>3
    <2>5. HouseTypeOK'
        BY <1>2, <1>4, <1>7, <2>1 DEF HousesInv, HouseTypeOK
    <2>6. HomesSound'
        BY <1>2, <1>3, <1>4, <1>6, <2>1, <2>3, <2>4, HomesInParts, HomesInPartsNext DEF HousesInv
    <2>7. QED
        BY <1>2, <2>5, <2>6, SavedKept DEF HousesInv
<1>10. QED
    BY <1>8, <1>9

(* Somebody lies down who sleeps nowhere yet, or the owner wakes a sleeper. *)
LEMMA UseBedStep ==
    ASSUME HousesInv, NEW p \in Residents, NEW half \in Halves, UseBed(p, half),
           houseTurns' \in Nat
    PROVE  HousesInv'
<1>1. /\ home \in Homes /\ BedsRight(home) /\ SleepersRight(home) /\ GuestsRight(home)
      /\ home.inside \subseteq online /\ disk.owner = home.owner
      /\ home.owner = Nobody /\ ~stray => home.lists = NoLists /\ home.sleeper = AllFree
      /\ home.document # <<>> => {home.document[1], home.document[2]} \subseteq online
    BY HomesInParts DEF HousesInv, HouseTypeOK
<1>2. p # Nobody /\ p \in home.inside /\ p \notin kicks /\ UNCHANGED <<online, disk, saving>>
    BY HousesAssumption DEF UseBed
<1>3. CASE /\ home.sleeper[half] # Nobody /\ home' = WakeUp(home, half) /\ UNCHANGED <<kicks, stray>>
    <2>1. online' \subseteq Residents
        BY <1>2 DEF HousesInv, HouseTypeOK
    <2>2. QED
        BY <1>1, <1>2, <1>3, <2>1, WakeStep
<1>4. CASE /\ home.sleeper[half] = Nobody
           /\ home' = [home EXCEPT !.sleeper = [x \in Halves |-> IF x \in {half, Partner(half)} THEN p ELSE @[x]],
                                   !.bedOf[p] = half, !.inside = @ \cup {p}]
           /\ kicks' = kicks \cup {p}
           /\ stray' = (stray \/ home.owner = Nobody)
    <2>1. /\ home'.sleeper = [x \in Halves |-> IF x \in {half, Partner(half)} THEN p ELSE home.sleeper[x]]
          /\ home'.bedOf = [home.bedOf EXCEPT ![p] = half]
          /\ home'.inside = home.inside /\ home'.owner = home.owner /\ home'.lists = home.lists
          /\ home'.document = home.document
        BY <1>1, <1>2, <1>4 DEF Homes
    <2>2. home'.sleeper \in [Halves -> Guids] /\ home'.bedOf \in [Residents -> Halves \cup {<<>>}]
        BY <1>1, <2>1 DEF Homes, Guids
    <2>3. home' = [home EXCEPT !.sleeper = home'.sleeper, !.bedOf = home'.bedOf, !.inside = home'.inside]
        BY <1>1, <1>4 DEF Homes
    <2>4. home' \in Homes
        BY <1>1, <2>1, <2>2, <2>3 DEF Homes
    <2>5. \A x \in Halves : home.sleeper[x] # p
        BY <1>1, <1>2 DEF SleepersRight
    <2>6. home.sleeper[Partner(half)] = Nobody
        BY <1>1, <1>4 DEF BedsRight
    <2>7. BedsRight(home')
        <3>1. ASSUME NEW x \in Halves
              PROVE  /\ home'.sleeper[Partner(x)] = home'.sleeper[x]
                     /\ home'.sleeper[x] # Nobody => home'.bedOf[home'.sleeper[x]] \in {x, Partner(x)}
            <4>1. CASE x \in {half, Partner(half)}
                BY <1>1, <2>1, <4>1, PartnerFacts DEF Homes
            <4>2. CASE x \notin {half, Partner(half)}
                <5>1. Partner(x) \in Halves /\ Partner(x) \notin {half, Partner(half)}
                    BY <4>2, PartnerFacts
                <5>2. home'.sleeper[x] = home.sleeper[x] /\ home'.sleeper[Partner(x)] = home.sleeper[Partner(x)]
                    BY <2>1, <4>2, <5>1
                <5>3. home.sleeper[x] # Nobody => home'.bedOf[home.sleeper[x]] = home.bedOf[home.sleeper[x]]
                    BY <1>1, <2>1, <2>5 DEF Homes, Guids
                <5>4. QED
                    BY <1>1, <5>2, <5>3 DEF BedsRight
            <4>3. QED
                BY <4>1, <4>2
        <3>2. ASSUME NEW q \in Residents, home'.bedOf[q] # <<>> PROVE home'.sleeper[home'.bedOf[q]] = q
            <4>1. CASE q = p
                BY <1>1, <2>1, <4>1 DEF Homes
            <4>2. CASE q # p
                <5>1. home'.bedOf[q] = home.bedOf[q] /\ home.bedOf[q] \in Halves /\ home.sleeper[home.bedOf[q]] = q
                    BY <1>1, <2>1, <3>2, <4>2 DEF BedsRight, Homes
                <5>2. home.bedOf[q] \notin {half, Partner(half)}
                    BY <1>4, <2>6, <5>1, HousesAssumption
                <5>3. QED
                    BY <2>1, <5>1, <5>2
            <4>3. QED
                BY <4>1, <4>2
        <3>3. QED
            BY <3>1, <3>2 DEF BedsRight
    <2>8. SleepersRight(home)'
        BY <1>1, <1>2, <1>4, <2>1 DEF SleepersRight
    <2>9. GuestsRight(home')
        BY <1>1, <2>1 DEF GuestsRight, Invited, Level
    <2>10. HouseTypeOK'
        BY <1>2, <1>4, <2>4 DEF HousesInv, HouseTypeOK
    <2>11. HomesSound'
        BY <1>1, <1>2, <1>4, <2>1, <2>7, <2>8, <2>9, HomesInPartsNext
    <2>12. QED
        BY <1>2, <2>10, <2>11, SavedKept DEF HousesInv
<1>5. QED
    BY <1>3, <1>4 DEF UseBed

(* A crash and the restart after it.                                        *)
LEMMA CrashStep ==
    ASSUME HousesInv, CrashAndRestart, houseTurns' \in Nat
    PROVE  HousesInv'
<1>1. PICK g \in {Nobody, disk.owner} :
        home' = SetOwner(LoadedHome, g) /\ disk' = [disk EXCEPT !.owner = g] /\ stray' = (g = disk.owner)
    BY DEF CrashAndRestart
<1> DEFINE l == LoadedHome
           r == SetOwner(l, g)
<1>2. /\ l \in Homes /\ BedsRight(l) /\ GuestsRight(l)
      /\ l.owner = disk.owner /\ l.inside = {} /\ l.document = <<>>
    BY LoadedFacts DEF HousesInv
<1>3. disk.owner \in Guids /\ g \in Guids
    BY DEF HousesInv, HouseTypeOK, Guids
<1> HIDE DEF l
<1>4. /\ r \in Homes /\ BedsRight(r) /\ GuestsRight(r)
      /\ r.owner = g /\ r.inside \subseteq l.inside /\ r.document = l.document
      /\ l.owner \notin {Nobody, g} => r.lists = NoLists /\ r.sleeper = AllFree
    BY <1>2, <1>3, SetOwnerFacts
<1>5. home' = r /\ online' = {} /\ kicks' = {} /\ saving' = FALSE
    BY <1>1 DEF CrashAndRestart, l
<1>6. /\ disk' = [disk EXCEPT !.owner = g] /\ disk'.owner = g /\ disk'.sleeper = disk.sleeper
      /\ disk' \in [owner : Guids, lists : Lists, sleeper : [Halves -> Guids]]
    BY <1>1, <1>3 DEF HousesInv, HouseTypeOK
<1> HIDE DEF r
<1>7. HouseTypeOK'
    BY <1>1, <1>4, <1>5, <1>6 DEF HouseTypeOK
<1>8. SleepersRight(home)'
    BY <1>5 DEF SleepersRight
<1>9. HomesSound'
    BY <1>1, <1>2, <1>4, <1>5, <1>6, <1>8, HomesInPartsNext
<1>10. QED
    BY <1>6, <1>7, <1>9, SavedKept DEF HousesInv

(* Nothing happens to the house.                                            *)
LEMMA HousesStands ==
    ASSUME HousesInv, UNCHANGED houseVars PROVE HousesInv'
BY SavedKept DEF HousesInv, houseVars, HouseTypeOK, HomesSound, Invited, Level

(* Every step keeps HousesInv.                                              *)
LEMMA StepHousesInv == HousesInv /\ [HouseNext]_houseVars => HousesInv'
<1> SUFFICES ASSUME HousesInv, [HouseNext]_houseVars PROVE HousesInv'
    OBVIOUS
<1>1. CASE UNCHANGED houseVars
    BY <1>1, HousesStands
<1> SUFFICES ASSUME HouseNext PROVE HousesInv'
    BY <1>1
<1>2. houseTurns' \in Nat
    BY DEF HouseNext, HousesInv, HouseTypeOK
<1>3. /\ home \in Homes /\ BedsRight(home) /\ SleepersRight(home) /\ GuestsRight(home)
      /\ home.inside \subseteq online /\ online \subseteq Residents /\ kicks \subseteq Residents
      /\ saving \in BOOLEAN
      /\ home.document # <<>> => {home.document[1], home.document[2]} \subseteq online
    BY HomesInParts DEF HousesInv, HouseTypeOK
<1>4. \A p \in Residents : p \in Guids /\ p # Nobody
    BY HousesAssumption DEF Guids
<1>5. ASSUME NEW p \in Residents, BuyHouse(p) \/ LeaveHouse(p) \/ GiveHouse(p)
      PROVE  HousesInv'
    <2>1. CASE BuyHouse(p) \/ GiveHouse(p)
        BY <1>2, <1>3, <1>4, <2>1, OwnerStep DEF BuyHouse, GiveHouse
    <2>2. CASE LeaveHouse(p)
        BY <1>2, <1>3, <1>4, <2>2, OwnerStep DEF LeaveHouse, Guids
    <2>3. QED
        BY <1>5, <2>1, <2>2
<1>6. ASSUME NEW p \in Residents, NEW q \in Residents, StartSale(p, q)
      PROVE  HousesInv'
    BY <1>2, <1>3, <1>6, VisitStep DEF StartSale, Homes
<1>7. ASSUME NEW p \in Residents, NEW q \in Residents, KickGuest(p, q)
      PROVE  HousesInv'
    BY <1>2, <1>3, <1>7, VisitStep DEF KickGuest, Homes
<1>8. ASSUME NEW p \in Residents, Enter(p)
      PROVE  HousesInv'
    BY <1>2, <1>3, <1>8, VisitStep DEF Enter, Homes
<1>9. ASSUME NEW p \in Residents, GoOut(p)
      PROVE  HousesInv'
    BY <1>2, <1>3, <1>9, VisitStep DEF GoOut, Homes
<1>10. ASSUME NEW p \in Residents, SessionEnds(p)
       PROVE  HousesInv'
    <2> DEFINE doc == IF p \in ToSet(home.document) THEN <<>> ELSE home.document
    <2>1. home' = [home EXCEPT !.inside = @ \ {p}, !.document = doc]
        BY <1>3, <1>10 DEF SessionEnds, Homes
    <2>2. doc # <<>> => {doc[1], doc[2]} \subseteq online'
        <3>1. home.document # <<>> => home.document[1] \in ToSet(home.document) /\ home.document[2] \in ToSet(home.document)
            BY <1>3 DEF Homes, ToSet
        <3>2. QED
            BY <1>3, <1>10, <3>1 DEF SessionEnds
    <2>3. doc \in {<<>>} \cup Residents \X Residents
        BY <1>3 DEF Homes
    <2> HIDE DEF doc
    <2>4. /\ home' \in Homes /\ home'.owner = home.owner /\ home'.lists = home.lists
          /\ home'.sleeper = home.sleeper /\ home'.bedOf = home.bedOf
          /\ home'.inside = home.inside \ {p} /\ home'.document = doc
        BY <1>3, <2>1, <2>3 DEF Homes
    <2>5. /\ UNCHANGED <<disk, saving, stray>> /\ online' = online \ {p} /\ kicks' = kicks \ {p}
        BY <1>10 DEF SessionEnds
    <2>6. /\ online' \subseteq Residents /\ kicks' \subseteq Residents /\ saving' \in BOOLEAN
          /\ \A q \in home'.inside : q \in online' /\ (q \in home.inside \/ Invited(home, q))
          /\ \A q \in online' : q \in online /\ (q \in kicks => q \in kicks')
        BY <1>3, <2>4, <2>5
    <2>7. QED
        BY <1>2, <2>2, <2>4, <2>5, <2>6, VisitStep
<1>11. ASSUME CancelSale PROVE HousesInv'
    BY <1>2, <1>3, <1>11, VisitStep DEF CancelSale, Homes
<1>12. ASSUME ExecuteTransfer PROVE HousesInv'
    <2> DEFINE h == [home EXCEPT !.document = <<>>]
               g == home.document[2]
    <2>1. NewOwner(g, h) /\ g \in Residents
        <3>1. home.document \in Residents \X Residents
            BY <1>3, <1>12 DEF ExecuteTransfer, Homes
        <3>2. QED
            BY <1>12, <3>1 DEF ExecuteTransfer
    <2>2. /\ h \in Homes /\ h.owner = home.owner /\ h.lists = home.lists /\ h.inside = home.inside
          /\ h.sleeper = home.sleeper /\ h.bedOf = home.bedOf /\ h.document = <<>>
        BY <1>3 DEF Homes
    <2> HIDE DEF h, g
    <2>3. g \in Guids /\ g # Nobody
        BY <1>4, <2>1
    <2>4. h.document \in {home.document, <<>>}
        BY <2>2
    <2>5. QED
        BY <1>2, <2>1, <2>2, <2>3, <2>4, OwnerStep
<1>13. ASSUME SaveHouseInfo \/ SaveHouse \/ SaveHouseItems PROVE HousesInv'
    BY <1>2, <1>3, <1>13, SaveStep DEF SaveHouseInfo, SaveHouse, SaveHouseItems
<1>14. CASE ~saving /\ HouseStep
    BY <1>2, <1>3, <1>5, <1>6, <1>7, <1>8, <1>9, <1>10, <1>11, <1>12, <1>13, <1>14,
       ListNames, EditListStep, AppearStep, UseBedStep
    DEF HouseStep, LogOff, KickDue
<1>15. CASE CrashAndRestart
    BY <1>2, <1>15, CrashStep
<1>16. QED
    BY <1>13, <1>14, <1>15 DEF HouseNext

(* HomesSound, for any players, beds and texts, and any number of sales,    *)
(* sleeps, saves and crashes (house.cpp:43-118, bed.cpp:121-216,            *)
(* iomapserialize.cpp:69-114).                                              *)
THEOREM HomesSoundAlways == HouseSpec => [](HouseTypeOK /\ HomesSound)
<1>1. HousesInv => HouseTypeOK /\ HomesSound
    BY DEF HousesInv
<1>2. QED
    BY <1>1, InitHousesInv, StepHousesInv, PTL DEF HouseSpec
=============================================================================
