---------------------------- MODULE EventProofs -----------------------------
(***************************************************************************)
(* Proofs about the events of the scheduler and what they drive: walks,    *)
(* the checks of spawns and of decaying items.                             *)
(*                                                                         *)
(* Scheduler implements TimerService, and its map of timers is exact, for  *)
(* any number of events and ids.  SchedulerInv says which handlers the     *)
(* queue of io_context holds for the stage an event is in; the lemmas      *)
(* about queues come first, then one for each handler and each call.  The  *)
(* waits a handler ends are posted in any order: that each has exactly one *)
(* handler then is a fact about finite sets (AbortHandlers).               *)
(*                                                                         *)
(* CreatureWalk uses what TimerService promises: an event may come late.   *)
(* Its invariant is inductive; what onWalk does is split into the part     *)
(* that moves (WalkOnFacts) and the one that schedules (AddFacts).         *)
(*                                                                         *)
(* Spawns: SpawnInv, one monster for each block, pointers that agree and a *)
(* check to come for whatever is missing.                                  *)
(*                                                                         *)
(* Decay: DecayInv, references that add up (Counted), freed items as good  *)
(* as never born (Kinded), contents whose container is there (Housed) and  *)
(* marks that are right (Marked).  While checkDecay goes through a bucket  *)
(* a mark may be wrong, on an item that waits to be released (Doomed); the *)
(* cleanup that follows frees it.  Follows is what each operation keeps,   *)
(* Visited what one place of the bucket does; the two loops are counted    *)
(* through (LoopTraced).                                                   *)
(***************************************************************************)
EXTENDS Scheduler, CreatureWalk, Spawns, Decay, QueueLemmas

-----------------------------------------------------------------------------
(* Handlers are told apart by what they are for and whose they are.         *)
LEMMA HandlerFacts ==
    /\ \A e : Insert(e).op = "insert" /\ Insert(e).event = e
    /\ \A e : Expired(e).op = "expired" /\ Expired(e).event = e
    /\ \A i : CancelId(i).op = "cancel" /\ CancelId(i).id = i
    /\ StopIo.op = "stop"
BY DEF Insert, Expired, CancelId, StopIo

(* What there is to run.                                                    *)
LEMMA HandlerKinds ==
    ASSUME NEW h \in Handlers
    PROVE  /\ h.op \in {"insert", "expired", "cancel", "stop"}
           /\ h.op = "insert" => h.event \in Events /\ h = Insert(h.event)
           /\ h.op = "expired" => h.event \in Events /\ h = Expired(h.event)
           /\ h.op = "cancel" => h.id \in 0..(IdSpace - 1) /\ h = CancelId(h.id)
           /\ h.op = "stop" => h = StopIo
BY HandlerFacts DEF Handlers

(* Every handler of the model is one.                                       *)
LEMMA HandlersOf ==
    /\ \A e \in Events : Insert(e) \in Handlers /\ Expired(e) \in Handlers
    /\ \A i \in 0..(IdSpace - 1) : CancelId(i) \in Handlers
    /\ StopIo \in Handlers
BY DEF Handlers

-----------------------------------------------------------------------------
(* Posting a handler that is not there, or that may be there twice.         *)
LEMMA PostOne ==
    ASSUME NEW s \in Seq(Handlers), OneOfEach(s), NEW h \in Handlers,
           h \notin ToSet(s) \/ h.op \notin {"insert", "expired"}
    PROVE  /\ Append(s, h) \in Seq(Handlers) /\ OneOfEach(Append(s, h))
           /\ ToSet(Append(s, h)) = ToSet(s) \cup {h}
<1>1. /\ DOMAIN Append(s, h) = DOMAIN s \cup {Len(s) + 1} /\ DOMAIN s = 1..Len(s)
      /\ \A i \in DOMAIN s : Append(s, h)[i] = s[i]
      /\ Append(s, h)[Len(s) + 1] = h
    OBVIOUS
<1>2. h \notin ToSet(s) => \A i \in DOMAIN s : s[i] # h
    BY DEF ToSet
<1>3. OneOfEach(Append(s, h))
    BY <1>1, <1>2 DEF OneOfEach
<1>4. QED
    BY <1>3, PushElems

(* Taking the first handler.                                                *)
LEMMA TakeOne ==
    ASSUME NEW s \in Seq(Handlers), OneOfEach(s), s # <<>>
    PROVE  /\ Head(s) \in Handlers /\ Tail(s) \in Seq(Handlers) /\ OneOfEach(Tail(s))
           /\ ToSet(s) = ToSet(Tail(s)) \cup {Head(s)}
           /\ Head(s).op \in {"insert", "expired"} => Head(s) \notin ToSet(Tail(s))
<1>1. /\ Len(s) \in Nat \ {0} /\ DOMAIN s = 1..Len(s) /\ DOMAIN Tail(s) = 1..(Len(s) - 1)
      /\ Head(s) = s[1]
      /\ \A i \in 1..(Len(s) - 1) : Tail(s)[i] = s[i + 1]
    OBVIOUS
<1>2. OneOfEach(Tail(s))
    BY <1>1 DEF OneOfEach
<1>3. ASSUME Head(s).op \in {"insert", "expired"}, NEW i \in 1..(Len(s) - 1), Tail(s)[i] = Head(s)
      PROVE FALSE
  <2>1. i + 1 \in DOMAIN s /\ 1 \in DOMAIN s /\ s[i + 1] = s[1] /\ i + 1 # 1
    BY <1>1, <1>3
  <2>2. QED
    BY <1>1, <1>3, <2>1 DEF OneOfEach
<1>4. QED
    BY <1>1, <1>2, <1>3, PopElems DEF ToSet

(* What io_context posts for waits that are cancelled, in any order.        *)
LEMMA AbortHandlers ==
    ASSUME NEW W \in SUBSET Events, IsFiniteSet(W), NEW order \in SetToSeqs(W)
    PROVE  LET q == [i \in DOMAIN order |-> Expired(order[i])]
           IN  /\ q \in Seq(Handlers) /\ OneOfEach(q)
               /\ ToSet(q) = {Expired(e) : e \in W}
<1> DEFINE n == Cardinality(W)
           q == [i \in DOMAIN order |-> Expired(order[i])]
<1>1. n \in Nat
    BY FS_CardinalityType
<1>2. /\ order \in [1..n -> W] /\ DOMAIN order = 1..n
      /\ \A i, j \in 1..n : i # j => order[i] # order[j]
    BY DEF SetToSeqs
<1>3. IsFiniteSet(1..n) /\ Cardinality(1..n) = n
    BY <1>1, FS_Interval
<1>4. order \in Injection(1..n, W)
    BY <1>2 DEF Injection, IsInjective
<1> HIDE DEF n
<1>5. order \in Surjection(1..n, W)
    BY <1>3, <1>4, FS_Injection DEF n
<1>6. \A e \in W : \E i \in 1..n : order[i] = e
    BY <1>5 DEF Surjection
<1>7. q \in Seq(Handlers) /\ DOMAIN q = 1..n /\ \A i \in 1..n : q[i] = Expired(order[i])
  <2>1. \A i \in 1..n : Expired(order[i]) \in Handlers
    BY <1>2, HandlersOf
  <2>2. QED
    BY <1>1, <1>2, <2>1
<1> HIDE DEF q
<1>8. OneOfEach(q)
  <2>1. ASSUME NEW i \in 1..n, NEW j \in 1..n, q[i] = q[j] PROVE i = j
    <3>1. order[i] = order[j]
      BY <1>7, <2>1, HandlerFacts
    <3>2. QED
      BY <1>2, <3>1
  <2>2. QED
    BY <1>7, <2>1 DEF OneOfEach
<1>9. ToSet(q) = {Expired(e) : e \in W}
  <2>1. ToSet(q) = {q[i] : i \in 1..n}
    BY <1>7 DEF ToSet
  <2>2. QED
    BY <1>2, <1>6, <1>7, <2>1
<1>10. QED
    BY <1>7, <1>8, <1>9 DEF q

(* One queue behind another.                                                *)
LEMMA PostMany ==
    ASSUME NEW s \in Seq(Handlers), NEW t \in Seq(Handlers), OneOfEach(s), OneOfEach(t),
           ToSet(s) \cap ToSet(t) = {}
    PROVE  /\ s \o t \in Seq(Handlers) /\ OneOfEach(s \o t)
           /\ ToSet(s \o t) = ToSet(s) \cup ToSet(t)
<1> DEFINE c == s \o t  m == Len(s)  n == Len(t)
<1>1. /\ m \in Nat /\ n \in Nat /\ DOMAIN s = 1..m /\ DOMAIN t = 1..n
      /\ c \in Seq(Handlers) /\ DOMAIN c = 1..(m + n)
      /\ \A i \in 1..m : c[i] = s[i]
      /\ \A i \in 1..n : c[m + i] = t[i]
    OBVIOUS
<1> HIDE DEF c, m, n
<1>2. \A i \in (m + 1)..(m + n) : i - m \in 1..n /\ c[i] = t[i - m]
    BY <1>1
<1>3. /\ \A i \in 1..m : s[i] \in ToSet(s)
      /\ \A i \in 1..n : t[i] \in ToSet(t)
    BY <1>1 DEF ToSet
<1>4. \A i \in 1..(m + n) : IF i <= m THEN i \in 1..m ELSE i \in (m + 1)..(m + n)
    BY <1>1
<1>5. ToSet(c) = ToSet(s) \cup ToSet(t)
  <2>1. ASSUME NEW x \in ToSet(c) PROVE x \in ToSet(s) \cup ToSet(t)
    <3>1. PICK i \in 1..(m + n) : x = c[i]
      BY <1>1, <2>1 DEF ToSet
    <3>2. QED
      BY <1>1, <1>2, <1>3, <1>4, <3>1
  <2>2. ASSUME NEW x \in ToSet(s) PROVE x \in ToSet(c)
    <3>1. PICK i \in 1..m : x = s[i]
      BY <1>1, <2>2 DEF ToSet
    <3>2. i \in DOMAIN c /\ c[i] = x
      BY <1>1, <3>1
    <3>3. QED
      BY <3>2 DEF ToSet
  <2>3. ASSUME NEW x \in ToSet(t) PROVE x \in ToSet(c)
    <3>1. PICK i \in 1..n : x = t[i]
      BY <1>1, <2>3 DEF ToSet
    <3>2. m + i \in DOMAIN c /\ c[m + i] = x
      BY <1>1, <3>1
    <3>3. QED
      BY <3>2 DEF ToSet
  <2>4. QED
    BY <2>1, <2>2, <2>3
<1>6. ASSUME NEW i \in 1..(m + n), NEW j \in 1..(m + n), c[i] = c[j],
             c[i].op \in {"insert", "expired"}
      PROVE  i = j
  <2>1. CASE i <= m /\ j <= m
    <3>1. i \in 1..m /\ j \in 1..m /\ s[i] = s[j] /\ s[i].op \in {"insert", "expired"}
      BY <1>1, <1>4, <1>6, <2>1
    <3>2. QED
      BY <1>1, <3>1 DEF OneOfEach
  <2>2. CASE ~(i <= m) /\ ~(j <= m)
    <3>1. i - m \in 1..n /\ j - m \in 1..n /\ t[i - m] = t[j - m] /\ t[i - m].op \in {"insert", "expired"}
      BY <1>2, <1>4, <1>6, <2>2
    <3>2. i - m = j - m
      BY <1>1, <3>1 DEF OneOfEach
    <3>3. QED
      BY <1>1, <3>2
  <2>3. CASE i <= m /\ ~(j <= m)
    BY <1>1, <1>2, <1>3, <1>4, <1>6, <2>3
  <2>4. CASE ~(i <= m) /\ j <= m
    BY <1>1, <1>2, <1>3, <1>4, <1>6, <2>4
  <2>5. QED
    BY <2>1, <2>2, <2>3, <2>4
<1>7. QED
    BY <1>1, <1>5, <1>6 DEF OneOfEach, c

(* A handler that ends waits: it is gone, and each of them has one.         *)
LEMMA AbortWaitsFacts ==
    ASSUME ioQueue \in Seq(Handlers), OneOfEach(ioQueue), ioQueue # <<>>,
           NEW W \in SUBSET Events, IsFiniteSet(W),
           \A e \in W : Expired(e) \notin ToSet(ioQueue), AbortWaits(W)
    PROVE  /\ ioQueue' \in Seq(Handlers) /\ OneOfEach(ioQueue')
           /\ ToSet(ioQueue') = ToSet(Tail(ioQueue)) \cup {Expired(e) : e \in W}
<1>1. PICK order \in SetToSeqs(W) :
          ioQueue' = Tail(ioQueue) \o [i \in DOMAIN order |-> Expired(order[i])]
    BY DEF AbortWaits
<1> DEFINE q == [i \in DOMAIN order |-> Expired(order[i])]
<1>2. /\ q \in Seq(Handlers) /\ OneOfEach(q) /\ ToSet(q) = {Expired(e) : e \in W}
    BY AbortHandlers
<1>3. ioQueue' = Tail(ioQueue) \o q
    BY <1>1
<1> HIDE DEF q
<1>4. /\ Tail(ioQueue) \in Seq(Handlers) /\ OneOfEach(Tail(ioQueue))
      /\ ToSet(Tail(ioQueue)) \subseteq ToSet(ioQueue)
    BY TakeOne
<1>5. ToSet(Tail(ioQueue)) \cap ToSet(q) = {}
    BY <1>2, <1>4
<1>6. QED
    BY <1>2, <1>3, <1>4, <1>5, PostMany
-----------------------------------------------------------------------------
(* The invariant.                                                           *)
LEMMA SchedulerInitInv == Init => SchedulerInv
<1> SUFFICES ASSUME Init PROVE SchedulerInv
    OBVIOUS
<1>1. ToSet(ioQueue) = {} /\ DOMAIN ioQueue = {} /\ ioQueue \in Seq(Handlers)
    BY DEF Init, ToSet
<1>2. TypeOK
  <2>1. 0 \in 0..(IdSpace - 1)
    BY IdSpaceAssumption
  <2>2. stage \in [Events -> {"none", "posted", "armed", "fired", "aborted", "handing",
                             "delivered", "deleted"}]
    BY DEF Init
  <2>3. id \in [Events -> 0..(IdSpace - 1)]
    BY <2>1 DEF Init
  <2>4. QED
    BY <1>1, <2>1, <2>2, <2>3 DEF Init, TypeOK
<1>3. IsFiniteSet(Events \ InStage({"none"}))
  <2>1. Events \ InStage({"none"}) = {}
    BY DEF Init, InStage
  <2>2. QED
    BY <2>1, FS_EmptySet
<1>4. HandlersRight
    BY <1>1 DEF Init, HandlersRight, OneOfEach
<1>5. StopsRight /\ TimersAreLive
    BY DEF Init, StopsRight, TimersAreLive, InStage
<1>6. QED
    BY <1>2, <1>3, <1>4, <1>5 DEF SchedulerInv

(* Whose wait is not over has no handler posted by it.                      *)
LEMMA ArmedFacts ==
    ASSUME SchedulerInv, NEW W \in SUBSET InStage({"armed"})
    PROVE  /\ W \subseteq Events /\ IsFiniteSet(W)
           /\ \A e \in W : Expired(e) \notin ToSet(ioQueue)
<1>1. W \in SUBSET (Events \ InStage({"none"}))
    BY DEF InStage
<1>2. IsFiniteSet(W)
    BY <1>1, FS_Subset DEF SchedulerInv
<1>3. QED
    BY <1>1, <1>2 DEF SchedulerInv, HandlersRight, InStage

(* What the thread takes and what it posts.                                 *)
LEMMA ThreadFacts ==
    ASSUME SchedulerInv, NEW op, HandlerIs(op), NEW W \in SUBSET InStage({"armed"}), AbortWaits(W)
    PROVE  /\ ioQueue' \in Seq(Handlers) /\ OneOfEach(ioQueue')
           /\ Head(ioQueue) \in Handlers /\ Head(ioQueue) \in ToSet(ioQueue)
           /\ Head(ioQueue).op = op
           /\ \A e \in Events :
                /\ Insert(e) \in ToSet(ioQueue') <=>
                        Insert(e) \in ToSet(ioQueue) /\ Insert(e) # Head(ioQueue)
                /\ Expired(e) \in ToSet(ioQueue') <=>
                        e \in W \/ (Expired(e) \in ToSet(ioQueue) /\ Expired(e) # Head(ioQueue))
           /\ \A i : CancelId(i) \in ToSet(ioQueue') => CancelId(i) \in ToSet(ioQueue)
           /\ StopIo \in ToSet(ioQueue') => StopIo \in ToSet(ioQueue)
<1>1. ioQueue \in Seq(Handlers) /\ OneOfEach(ioQueue) /\ ioQueue # <<>> /\ Head(ioQueue).op = op
    BY DEF SchedulerInv, TypeOK, HandlersRight, HandlerIs
<1>2. /\ W \in SUBSET Events /\ IsFiniteSet(W)
      /\ \A e \in W : Expired(e) \notin ToSet(ioQueue)
    BY ArmedFacts
<1>3. /\ ioQueue' \in Seq(Handlers) /\ OneOfEach(ioQueue')
      /\ ToSet(ioQueue') = ToSet(Tail(ioQueue)) \cup {Expired(e) : e \in W}
    BY <1>1, <1>2, AbortWaitsFacts
<1>4. /\ Head(ioQueue) \in Handlers
      /\ ToSet(ioQueue) = ToSet(Tail(ioQueue)) \cup {Head(ioQueue)}
      /\ Head(ioQueue).op \in {"insert", "expired"} => Head(ioQueue) \notin ToSet(Tail(ioQueue))
    BY <1>1, TakeOne
<1>5. ASSUME NEW e \in Events
      PROVE  /\ Insert(e) \in ToSet(ioQueue') <=>
                     Insert(e) \in ToSet(ioQueue) /\ Insert(e) # Head(ioQueue)
             /\ Expired(e) \in ToSet(ioQueue') <=>
                     e \in W \/ (Expired(e) \in ToSet(ioQueue) /\ Expired(e) # Head(ioQueue))
    BY <1>3, <1>4, HandlerFacts
<1>6. ASSUME NEW i, CancelId(i) \in ToSet(ioQueue') PROVE CancelId(i) \in ToSet(ioQueue)
    BY <1>3, <1>4, <1>6, HandlerFacts
<1>7. StopIo \in ToSet(ioQueue') => StopIo \in ToSet(ioQueue)
    BY <1>3, <1>4, HandlerFacts
<1>8. QED
    BY <1>1, <1>3, <1>4, <1>5, <1>6, <1>7

(* Ids that differ after a step differed before it.                         *)
LEMMA IdsStay ==
    ASSUME \A e \in Events : stage[e] # "none" => stage'[e] # "none" /\ id'[e] = id[e], IdsDiffer'
    PROVE  IdsDiffer
BY DEF IdsDiffer, SharesId

(* Two events under way that have one id are the same one.                  *)
LEMMA SameId ==
    ASSUME IdsDiffer, NEW e \in Events, NEW o \in Events, stage[e] # "none", stage[o] # "none",
           id[e] = id[o]
    PROVE  e = o
BY DEF IdsDiffer, SharesId

(* A step of the thread that moves events which are under way.              *)
LEMMA SameStarted ==
    ASSUME SchedulerInv, UNCHANGED <<id, stopAsked>>,
           \A e \in Events : stage[e] = "none" <=> stage'[e] = "none"
    PROVE  /\ IsFiniteSet(Events \ InStage({"none"}))'
           /\ \A e \in stopAsked' : stage'[e] # "none"
           /\ IdsDiffer' <=> IdsDiffer
<1>1. InStage({"none"})' = InStage({"none"})
    BY DEF InStage
<1>2. stopAsked \subseteq Events
    BY DEF SchedulerInv, TypeOK
<1>3. \A e \in stopAsked' : stage'[e] # "none"
    BY <1>2 DEF SchedulerInv, StopsRight
<1>4. IdsDiffer' <=> IdsDiffer
    BY DEF IdsDiffer, SharesId
<1>5. QED
    BY <1>1, <1>3, <1>4 DEF SchedulerInv

(* The parts of the invariant, of one state.                                *)
LEMMA InvFacts ==
    ASSUME SchedulerInv
    PROVE  /\ stage \in [Events -> {"none", "posted", "armed", "fired", "aborted", "handing",
                                    "delivered", "deleted"}]
           /\ id \in [Events -> 0..(IdSpace - 1)] /\ stopAsked \subseteq Events
           /\ timers \subseteq 0..(IdSpace - 1)
           /\ \A e \in Events :
                /\ Insert(e) \in ToSet(ioQueue) <=> stage[e] = "posted"
                /\ Expired(e) \in ToSet(ioQueue) <=> stage[e] \in {"fired", "aborted"}
           /\ \A i \in 0..(IdSpace - 1) :
                CancelId(i) \in ToSet(ioQueue) => \E e \in stopAsked : id[e] = i
           /\ StopIo \in ToSet(ioQueue) \/ ioStopped => threadState = "TERMINATED"
           /\ \A e \in stopAsked : stage[e] # "none"
BY DEF SchedulerInv, TypeOK, HandlersRight, StopsRight
-----------------------------------------------------------------------------
(* The callers.                                                             *)

(* An event that is scheduled gets an id and its first handler.             *)
LEMMA AddEventKeeps ==
    ASSUME SchedulerInv, NEW e \in Events, NEW others \in 0..(IdSpace - 1), AddEvent(e, others)
    PROVE  SchedulerInv'
<1>1. /\ stage[e] = "none" /\ lastEventId' = (lastEventId + others + 1) % IdSpace
      /\ id' = [id EXCEPT ![e] = lastEventId'] /\ stage' = [stage EXCEPT ![e] = "posted"]
      /\ ioQueue' = Append(ioQueue, Insert(e))
      /\ UNCHANGED <<threadState, timers, ioStopped, stopAsked>>
    BY DEF AddEvent
<1>2. lastEventId' \in 0..(IdSpace - 1)
    BY <1>1, IdSpaceAssumption DEF SchedulerInv, TypeOK
<1>3. e \notin stopAsked /\ Insert(e) \notin ToSet(ioQueue)
    BY <1>1, InvFacts
<1>4. /\ ioQueue' \in Seq(Handlers) /\ OneOfEach(ioQueue')
      /\ ToSet(ioQueue') = ToSet(ioQueue) \cup {Insert(e)}
    BY <1>1, <1>3, PostOne, HandlersOf DEF SchedulerInv, TypeOK, HandlersRight
<1>5. /\ \A o \in Events : id'[o] = IF o = e THEN lastEventId' ELSE id[o]
      /\ \A o \in Events : stage'[o] = IF o = e THEN "posted" ELSE stage[o]
    BY <1>1, InvFacts
<1>6. TypeOK'
    BY <1>1, <1>2, <1>4 DEF SchedulerInv, TypeOK
<1>7. IsFiniteSet(Events \ InStage({"none"}))'
  <2>1. (Events \ InStage({"none"}))' = (Events \ InStage({"none"})) \cup {e}
    BY <1>5 DEF InStage
  <2>2. QED
    BY <2>1, FS_AddElement DEF SchedulerInv
<1>8. HandlersRight'
    BY <1>1, <1>3, <1>4, <1>5, InvFacts, HandlerFacts DEF HandlersRight
<1>9. IdsDiffer' => IdsDiffer
    BY <1>1, <1>5, IdsStay
<1>10. StopsRight' /\ TimersAreLive'
    BY <1>1, <1>3, <1>5, <1>9 DEF SchedulerInv, StopsRight, TimersAreLive, InStage
<1>11. QED
    BY <1>6, <1>7, <1>8, <1>10 DEF SchedulerInv

(* Whoever asks for a stop leaves a cancellation, and nothing else.         *)
LEMMA StopEventKeeps ==
    ASSUME SchedulerInv, NEW e \in Events, StopEvent(e) PROVE SchedulerInv'
<1>1. /\ stage[e] # "none" /\ stopAsked' = stopAsked \cup {e}
      /\ ioQueue' = Append(ioQueue, CancelId(id[e]))
      /\ UNCHANGED <<threadState, lastEventId, id, stage, timers, ioStopped>>
    BY DEF StopEvent
<1>2. id[e] \in 0..(IdSpace - 1)
    BY InvFacts
<1>3. /\ ioQueue' \in Seq(Handlers) /\ OneOfEach(ioQueue')
      /\ ToSet(ioQueue') = ToSet(ioQueue) \cup {CancelId(id[e])}
    BY <1>1, <1>2, PostOne, HandlersOf, HandlerFacts DEF SchedulerInv, TypeOK, HandlersRight
<1>4. TypeOK'
    BY <1>1, <1>3 DEF SchedulerInv, TypeOK
<1>5. IsFiniteSet(Events \ InStage({"none"}))' /\ TimersAreLive'
    BY <1>1 DEF SchedulerInv, InStage, TimersAreLive, IdsDiffer, SharesId
<1>6. HandlersRight'
  <2>1. \A i \in 0..(IdSpace - 1) : CancelId(i) \in ToSet(ioQueue')
                => i = id[e] \/ CancelId(i) \in ToSet(ioQueue)
    BY <1>3, HandlerFacts
  <2>2. QED
    BY <1>1, <1>3, <2>1, InvFacts, HandlerFacts DEF HandlersRight
<1>7. StopsRight'
    BY <1>1 DEF SchedulerInv, StopsRight, InStage, IdsDiffer, SharesId
<1>8. QED
    BY <1>4, <1>5, <1>6, <1>7 DEF SchedulerInv

(* The game closes or shuts the scheduler down.                             *)
LEMMA ShutdownKeeps == ASSUME SchedulerInv, Shutdown \/ Stop PROVE SchedulerInv'
<1>1. UNCHANGED <<eventVars, stage, timers, ioStopped>>
    BY DEF Shutdown, Stop
<1>2. /\ ioQueue' \in Seq(Handlers) /\ OneOfEach(ioQueue')
      /\ ToSet(ioQueue') = ToSet(ioQueue) \/
            (ToSet(ioQueue') = ToSet(ioQueue) \cup {StopIo} /\ threadState' = "TERMINATED")
      /\ threadState' \in {"CLOSING", "TERMINATED"}
      /\ threadState = "TERMINATED" => threadState' = "TERMINATED"
  <2>1. ioQueue \in Seq(Handlers) /\ OneOfEach(ioQueue)
    BY DEF SchedulerInv, TypeOK, HandlersRight
  <2>2. CASE Shutdown
    BY <2>1, <2>2, PostOne, HandlersOf, HandlerFacts DEF Shutdown
  <2>3. CASE Stop
    BY <2>1, <2>3 DEF Stop
  <2>4. QED
    BY <2>2, <2>3
<1>3. TypeOK'
    BY <1>1, <1>2 DEF SchedulerInv, TypeOK, eventVars
<1>4. IsFiniteSet(Events \ InStage({"none"}))' /\ TimersAreLive'
    BY <1>1 DEF SchedulerInv, InStage, TimersAreLive, IdsDiffer, SharesId, eventVars
<1>5. HandlersRight'
  <2>1. \A e \in Events : /\ Insert(e) \in ToSet(ioQueue') <=> Insert(e) \in ToSet(ioQueue)
                          /\ Expired(e) \in ToSet(ioQueue') <=> Expired(e) \in ToSet(ioQueue)
    BY <1>2, HandlerFacts
  <2>2. \A i : CancelId(i) \in ToSet(ioQueue') => CancelId(i) \in ToSet(ioQueue)
    BY <1>2, HandlerFacts
  <2>3. QED
    BY <1>1, <1>2, <2>1, <2>2, InvFacts DEF HandlersRight, eventVars
<1>6. StopsRight'
    BY <1>1, <1>2 DEF SchedulerInv, StopsRight, InStage, IdsDiffer, SharesId, eventVars
<1>7. QED
    BY <1>3, <1>4, <1>5, <1>6 DEF SchedulerInv

(* A timer expires: its handler is the only one of its event.               *)
LEMMA ExpireKeeps == ASSUME SchedulerInv, NEW e \in Events, Expire(e) PROVE SchedulerInv'
<1>1. /\ stage[e] = "armed" /\ stage' = [stage EXCEPT ![e] = "fired"]
      /\ ioQueue' = Append(ioQueue, Expired(e))
      /\ UNCHANGED <<threadState, lastEventId, id, stopAsked, timers, ioStopped>>
    BY DEF Expire, eventVars
<1>2. Expired(e) \notin ToSet(ioQueue)
    BY <1>1, InvFacts
<1>3. /\ ioQueue' \in Seq(Handlers) /\ OneOfEach(ioQueue')
      /\ ToSet(ioQueue') = ToSet(ioQueue) \cup {Expired(e)}
    BY <1>1, <1>2, PostOne, HandlersOf DEF SchedulerInv, TypeOK, HandlersRight
<1>4. \A o \in Events : stage'[o] = IF o = e THEN "fired" ELSE stage[o]
    BY <1>1, InvFacts
<1>5. TypeOK'
    BY <1>1, <1>3 DEF SchedulerInv, TypeOK
<1>6. /\ IsFiniteSet(Events \ InStage({"none"}))' /\ \A o \in stopAsked' : stage'[o] # "none"
      /\ IdsDiffer' <=> IdsDiffer
    BY <1>1, <1>4, SameStarted
<1>7. HandlersRight'
    BY <1>1, <1>3, <1>4, InvFacts, HandlerFacts DEF HandlersRight
<1>8. StopsRight' /\ TimersAreLive'
    BY <1>1, <1>4, <1>6 DEF SchedulerInv, StopsRight, TimersAreLive, InStage
<1>9. QED
    BY <1>5, <1>6, <1>7, <1>8 DEF SchedulerInv
-----------------------------------------------------------------------------
(* The thread.                                                              *)

(* The timer of an event is set; a wait on a timer with its id is over.     *)
LEMMA RunInsertKeeps == ASSUME SchedulerInv, RunInsert PROVE SchedulerInv'
<1> DEFINE e == Head(ioQueue).event
           W == ArmedOn({id[e]})
<1>1. /\ HandlerIs("insert") /\ AbortWaits(W)
      /\ timers' = timers \cup {id[e]} /\ stage' = [Aborted(W) EXCEPT ![e] = "armed"]
      /\ UNCHANGED <<threadState, lastEventId, id, stopAsked, ioStopped>>
    BY DEF RunInsert, eventVars
<1>2. W \in SUBSET InStage({"armed"}) /\ \A o \in W : id[o] = id[e]
    BY DEF ArmedOn, InStage
<1>3. /\ ioQueue' \in Seq(Handlers) /\ OneOfEach(ioQueue')
      /\ Head(ioQueue) \in Handlers /\ Head(ioQueue) \in ToSet(ioQueue)
      /\ Head(ioQueue).op = "insert"
      /\ \A o \in Events :
           /\ Insert(o) \in ToSet(ioQueue') <=>
                   Insert(o) \in ToSet(ioQueue) /\ Insert(o) # Head(ioQueue)
           /\ Expired(o) \in ToSet(ioQueue') <=>
                   o \in W \/ (Expired(o) \in ToSet(ioQueue) /\ Expired(o) # Head(ioQueue))
      /\ \A i : CancelId(i) \in ToSet(ioQueue') => CancelId(i) \in ToSet(ioQueue)
      /\ StopIo \in ToSet(ioQueue') => StopIo \in ToSet(ioQueue)
    BY <1>1, <1>2, ThreadFacts
<1>4. e \in Events /\ Head(ioQueue) = Insert(e)
    BY <1>3, HandlerKinds
<1> HIDE DEF W, e
<1>5. stage[e] = "posted" /\ e \notin W
    BY <1>2, <1>3, <1>4, InvFacts DEF InStage
<1>6. \A o \in Events :
         stage'[o] = IF o = e THEN "armed" ELSE IF o \in W THEN "aborted" ELSE stage[o]
    BY <1>1, <1>4, InvFacts DEF Aborted
<1>7. TypeOK'
  <2>1. stage' \in [Events -> {"none", "posted", "armed", "fired", "aborted", "handing",
                              "delivered", "deleted"}]
    BY <1>1, <1>6, InvFacts DEF Aborted
  <2>2. timers' \subseteq 0..(IdSpace - 1)
    BY <1>1, <1>4, InvFacts
  <2>3. QED
    BY <1>1, <1>3, <2>1, <2>2 DEF SchedulerInv, TypeOK
<1>8. /\ IsFiniteSet(Events \ InStage({"none"}))' /\ \A o \in stopAsked' : stage'[o] # "none"
      /\ IdsDiffer' <=> IdsDiffer
  <2>1. \A o \in Events : stage[o] = "none" <=> stage'[o] = "none"
    BY <1>2, <1>5, <1>6 DEF InStage
  <2>2. QED
    BY <1>1, <2>1, SameStarted
<1>9. HandlersRight'
  <2>1. ASSUME NEW o \in Events
        PROVE  /\ Insert(o) \in ToSet(ioQueue') <=> stage'[o] = "posted"
               /\ Expired(o) \in ToSet(ioQueue') <=> stage'[o] \in {"fired", "aborted"}
    BY <1>2, <1>3, <1>4, <1>5, <1>6, InvFacts, HandlerFacts DEF InStage
  <2>2. QED
    BY <1>1, <1>3, <2>1, InvFacts DEF HandlersRight
<1>10. ASSUME IdsDiffer PROVE W = {}
    BY <1>2, <1>4, <1>5, <1>10, SameId DEF InStage
<1>11. StopsRight' /\ TimersAreLive'
  <2>1. CASE ~IdsDiffer
    BY <1>8, <2>1 DEF StopsRight, TimersAreLive
  <2>2. CASE IdsDiffer
    <3>1. \A o \in Events : stage'[o] = IF o = e THEN "armed" ELSE stage[o]
      BY <1>6, <1>10, <2>2
    <3>2. InStage({"aborted"})' = InStage({"aborted"})
      BY <1>5, <3>1 DEF InStage
    <3>3. InStage({"armed", "fired", "aborted"})' = InStage({"armed", "fired", "aborted"}) \cup {e}
      BY <1>4, <3>1 DEF InStage
    <3>4. QED
      BY <1>1, <1>8, <2>2, <3>2, <3>3 DEF SchedulerInv, StopsRight, TimersAreLive
  <2>3. QED
    BY <2>1, <2>2
<1>12. QED
    BY <1>7, <1>8, <1>9, <1>11 DEF SchedulerInv

(* Waits that are ended, by one who asked or by the shutdown.               *)
LEMMA AbortsKeep ==
    ASSUME SchedulerInv, NEW W \in SUBSET InStage({"armed"}), stage' = Aborted(W),
           UNCHANGED <<threadState, lastEventId, id, stopAsked, timers>>,
           ioStopped' \in BOOLEAN, ioStopped' => threadState = "TERMINATED",
           ioQueue' \in Seq(Handlers), OneOfEach(ioQueue'),
           Head(ioQueue).op \notin {"insert", "expired"},
           \A o \in Events :
              /\ Insert(o) \in ToSet(ioQueue') <=>
                      Insert(o) \in ToSet(ioQueue) /\ Insert(o) # Head(ioQueue)
              /\ Expired(o) \in ToSet(ioQueue') <=>
                      o \in W \/ (Expired(o) \in ToSet(ioQueue) /\ Expired(o) # Head(ioQueue)),
           \A k : CancelId(k) \in ToSet(ioQueue') => CancelId(k) \in ToSet(ioQueue),
           StopIo \in ToSet(ioQueue') => StopIo \in ToSet(ioQueue),
           IdsDiffer => W \subseteq stopAsked \/ threadState = "TERMINATED"
    PROVE  SchedulerInv'
<1>1. \A o \in Events : stage'[o] = IF o \in W THEN "aborted" ELSE stage[o]
    BY InvFacts DEF Aborted
<1>2. TypeOK'
  <2>1. stage' \in [Events -> {"none", "posted", "armed", "fired", "aborted", "handing",
                              "delivered", "deleted"}]
    BY InvFacts DEF Aborted
  <2>2. QED
    BY <2>1, InvFacts DEF SchedulerInv, TypeOK
<1>3. /\ IsFiniteSet(Events \ InStage({"none"}))' /\ \A o \in stopAsked' : stage'[o] # "none"
      /\ IdsDiffer' <=> IdsDiffer
  <2>1. \A o \in Events : stage[o] = "none" <=> stage'[o] = "none"
    BY <1>1 DEF InStage
  <2>2. QED
    BY <2>1, SameStarted
<1>4. HandlersRight'
  <2>1. ASSUME NEW o \in Events
        PROVE  /\ Insert(o) \in ToSet(ioQueue') <=> stage'[o] = "posted"
               /\ Expired(o) \in ToSet(ioQueue') <=> stage'[o] \in {"fired", "aborted"}
    BY <1>1, InvFacts, HandlerFacts DEF InStage
  <2>2. QED
    BY <2>1, InvFacts DEF HandlersRight
<1>5. InStage({"aborted"})' = InStage({"aborted"}) \cup W
    BY <1>1 DEF InStage
<1>6. InStage({"armed", "fired", "aborted"})' = InStage({"armed", "fired", "aborted"})
    BY <1>1 DEF InStage
<1>7. StopsRight' /\ TimersAreLive'
    BY <1>3, <1>5, <1>6 DEF SchedulerInv, StopsRight, TimersAreLive
<1>8. QED
    BY <1>2, <1>3, <1>4, <1>7 DEF SchedulerInv

(* A wait is cancelled only for one who asked for it.                       *)
LEMMA RunCancelKeeps == ASSUME SchedulerInv, RunCancel PROVE SchedulerInv'
<1> DEFINE i == Head(ioQueue).id
           W == IF i \in timers THEN ArmedOn({i}) ELSE {}
<1>1. /\ HandlerIs("cancel") /\ AbortWaits(W) /\ stage' = Aborted(W)
      /\ UNCHANGED <<threadState, lastEventId, id, stopAsked, timers, ioStopped>>
    BY DEF RunCancel, eventVars
<1>2. W \in SUBSET InStage({"armed"}) /\ \A o \in W : id[o] = i
    BY DEF ArmedOn, InStage
<1>3. /\ ioQueue' \in Seq(Handlers) /\ OneOfEach(ioQueue')
      /\ Head(ioQueue) \in Handlers /\ Head(ioQueue) \in ToSet(ioQueue)
      /\ Head(ioQueue).op = "cancel"
      /\ \A o \in Events :
           /\ Insert(o) \in ToSet(ioQueue') <=>
                   Insert(o) \in ToSet(ioQueue) /\ Insert(o) # Head(ioQueue)
           /\ Expired(o) \in ToSet(ioQueue') <=>
                   o \in W \/ (Expired(o) \in ToSet(ioQueue) /\ Expired(o) # Head(ioQueue))
      /\ \A k : CancelId(k) \in ToSet(ioQueue') => CancelId(k) \in ToSet(ioQueue)
      /\ StopIo \in ToSet(ioQueue') => StopIo \in ToSet(ioQueue)
    BY <1>1, <1>2, ThreadFacts
<1>4. i \in 0..(IdSpace - 1) /\ Head(ioQueue) = CancelId(i)
    BY <1>3, HandlerKinds
<1> HIDE DEF W, i
<1>5. PICK a \in stopAsked : id[a] = i
    BY <1>3, <1>4, InvFacts
<1>6. ASSUME IdsDiffer PROVE W \subseteq stopAsked
  <2>1. ASSUME NEW o \in W PROVE o = a
    BY <1>2, <1>5, <1>6, InvFacts, SameId DEF InStage
  <2>2. QED
    BY <1>5, <2>1
<1>7. /\ ioStopped' \in BOOLEAN
      /\ ioStopped' => threadState = "TERMINATED"
      /\ Head(ioQueue).op \notin {"insert", "expired"}
      /\ IdsDiffer => W \subseteq stopAsked \/ threadState = "TERMINATED"
      /\ UNCHANGED <<threadState, lastEventId, id, stopAsked, timers>>
    BY <1>1, <1>3, <1>6, InvFacts DEF SchedulerInv, TypeOK
<1>8. QED
    BY <1>1, <1>2, <1>3, <1>7, AbortsKeep
(* Shutdown ends every wait.                                                *)
LEMMA RunStopKeeps == ASSUME SchedulerInv, RunStop PROVE SchedulerInv'
<1> DEFINE W == ArmedOn(timers)
<1>1. /\ HandlerIs("stop") /\ AbortWaits(W) /\ stage' = Aborted(W) /\ ioStopped' = TRUE
      /\ UNCHANGED <<threadState, lastEventId, id, stopAsked, timers>>
    BY DEF RunStop, eventVars
<1>2. W \in SUBSET InStage({"armed"})
    BY DEF ArmedOn, InStage
<1> HIDE DEF W
<1>3. /\ ioQueue' \in Seq(Handlers) /\ OneOfEach(ioQueue')
      /\ Head(ioQueue) \in Handlers /\ Head(ioQueue) \in ToSet(ioQueue)
      /\ Head(ioQueue).op = "stop"
      /\ \A o \in Events :
           /\ Insert(o) \in ToSet(ioQueue') <=>
                   Insert(o) \in ToSet(ioQueue) /\ Insert(o) # Head(ioQueue)
           /\ Expired(o) \in ToSet(ioQueue') <=>
                   o \in W \/ (Expired(o) \in ToSet(ioQueue) /\ Expired(o) # Head(ioQueue))
      /\ \A k : CancelId(k) \in ToSet(ioQueue') => CancelId(k) \in ToSet(ioQueue)
      /\ StopIo \in ToSet(ioQueue') => StopIo \in ToSet(ioQueue)
    BY <1>1, <1>2, ThreadFacts
<1>4. Head(ioQueue) = StopIo /\ threadState = "TERMINATED"
    BY <1>3, HandlerKinds, InvFacts
<1>5. ioStopped' \in BOOLEAN /\ Head(ioQueue).op \notin {"insert", "expired"}
    BY <1>1, <1>3
<1>6. QED
    BY <1>1, <1>2, <1>3, <1>4, <1>5, AbortsKeep

(* The handler of a wait that ended: its timer is erased, and the event is  *)
(* handed on or deleted.                                                    *)
LEMMA RunExpiredKeeps == ASSUME SchedulerInv, RunExpired PROVE SchedulerInv'
<1> DEFINE e == Head(ioQueue).event
           W == ArmedOn({id[e]})
           to == IF stage[e] = "aborted" \/ threadState = "TERMINATED" THEN "deleted" ELSE "handing"
<1>1. /\ HandlerIs("expired") /\ AbortWaits(W)
      /\ timers' = timers \ {id[e]} /\ stage' = [Aborted(W) EXCEPT ![e] = to]
      /\ UNCHANGED <<threadState, lastEventId, id, stopAsked, ioStopped>>
    BY DEF RunExpired, eventVars
<1>2. W \in SUBSET InStage({"armed"}) /\ \A o \in W : id[o] = id[e]
    BY DEF ArmedOn, InStage
<1>3. /\ ioQueue' \in Seq(Handlers) /\ OneOfEach(ioQueue')
      /\ Head(ioQueue) \in Handlers /\ Head(ioQueue) \in ToSet(ioQueue)
      /\ Head(ioQueue).op = "expired"
      /\ \A o \in Events :
           /\ Insert(o) \in ToSet(ioQueue') <=>
                   Insert(o) \in ToSet(ioQueue) /\ Insert(o) # Head(ioQueue)
           /\ Expired(o) \in ToSet(ioQueue') <=>
                   o \in W \/ (Expired(o) \in ToSet(ioQueue) /\ Expired(o) # Head(ioQueue))
      /\ \A i : CancelId(i) \in ToSet(ioQueue') => CancelId(i) \in ToSet(ioQueue)
      /\ StopIo \in ToSet(ioQueue') => StopIo \in ToSet(ioQueue)
    BY <1>1, <1>2, ThreadFacts
<1>4. e \in Events /\ Head(ioQueue) = Expired(e) /\ to \in {"deleted", "handing"}
    BY <1>3, HandlerKinds
<1> HIDE DEF W, e, to
<1>5. stage[e] \in {"fired", "aborted"} /\ e \notin W
    BY <1>2, <1>3, <1>4, InvFacts DEF InStage
<1>6. \A o \in Events :
         stage'[o] = IF o = e THEN to ELSE IF o \in W THEN "aborted" ELSE stage[o]
    BY <1>1, <1>4, InvFacts DEF Aborted
<1>7. TypeOK'
  <2>1. stage' \in [Events -> {"none", "posted", "armed", "fired", "aborted", "handing",
                              "delivered", "deleted"}]
    BY <1>1, <1>4, <1>6, InvFacts DEF Aborted
  <2>2. timers' \subseteq 0..(IdSpace - 1)
    BY <1>1, InvFacts
  <2>3. QED
    BY <1>1, <1>3, <2>1, <2>2 DEF SchedulerInv, TypeOK
<1>8. /\ IsFiniteSet(Events \ InStage({"none"}))' /\ \A o \in stopAsked' : stage'[o] # "none"
      /\ IdsDiffer' <=> IdsDiffer
  <2>1. \A o \in Events : stage[o] = "none" <=> stage'[o] = "none"
    BY <1>2, <1>4, <1>5, <1>6 DEF InStage
  <2>2. QED
    BY <1>1, <2>1, SameStarted
<1>9. HandlersRight'
  <2>1. ASSUME NEW o \in Events
        PROVE  /\ Insert(o) \in ToSet(ioQueue') <=> stage'[o] = "posted"
               /\ Expired(o) \in ToSet(ioQueue') <=> stage'[o] \in {"fired", "aborted"}
    BY <1>2, <1>3, <1>4, <1>5, <1>6, InvFacts, HandlerFacts DEF InStage
  <2>2. QED
    BY <1>1, <1>3, <2>1, InvFacts DEF HandlersRight
<1>10. StopsRight' /\ TimersAreLive'
  <2>1. CASE ~IdsDiffer
    BY <1>8, <2>1 DEF StopsRight, TimersAreLive
  <2>2. CASE IdsDiffer
    <3>1. W = {}
      BY <1>2, <1>4, <1>5, <2>2, SameId DEF InStage
    <3>2. \A o \in Events : stage'[o] = IF o = e THEN to ELSE stage[o]
      BY <1>6, <3>1
    <3>3. InStage({"aborted"})' \subseteq InStage({"aborted"})
      BY <1>4, <3>2 DEF InStage
    <3>4. /\ InStage({"armed", "fired", "aborted"})' = InStage({"armed", "fired", "aborted"}) \ {e}
          /\ e \in InStage({"armed", "fired", "aborted"})
      BY <1>4, <1>5, <3>2 DEF InStage
    <3>5. \A o \in InStage({"armed", "fired", "aborted"}) : id[o] = id[e] => o = e
      BY <1>4, <1>5, <2>2, SameId DEF InStage
    <3>6. timers' = {id[o] : o \in InStage({"armed", "fired", "aborted"})'}
      BY <1>1, <2>2, <3>4, <3>5 DEF SchedulerInv, TimersAreLive
    <3>7. QED
      BY <1>1, <1>8, <2>2, <3>3, <3>6 DEF SchedulerInv, StopsRight, TimersAreLive
  <2>3. QED
    BY <2>1, <2>2
<1>11. QED
    BY <1>7, <1>8, <1>9, <1>10 DEF SchedulerInv

(* The event goes to the dispatcher.                                        *)
LEMMA HandOverKeeps == ASSUME SchedulerInv, NEW e \in Events, HandOver(e) PROVE SchedulerInv'
<1>1. /\ stage[e] = "handing" /\ stage' = [stage EXCEPT ![e] = "delivered"]
      /\ UNCHANGED <<threadState, lastEventId, id, stopAsked, timers, ioQueue, ioStopped>>
    BY DEF HandOver, eventVars
<1>2. \A o \in Events : stage'[o] = IF o = e THEN "delivered" ELSE stage[o]
    BY <1>1, InvFacts
<1>3. TypeOK'
    BY <1>1 DEF SchedulerInv, TypeOK
<1>4. /\ IsFiniteSet(Events \ InStage({"none"}))' /\ \A o \in stopAsked' : stage'[o] # "none"
      /\ IdsDiffer' <=> IdsDiffer
    BY <1>1, <1>2, SameStarted
<1>5. HandlersRight'
    BY <1>1, <1>2 DEF SchedulerInv, HandlersRight
<1>6. /\ InStage({"aborted"})' = InStage({"aborted"})
      /\ InStage({"armed", "fired", "aborted"})' = InStage({"armed", "fired", "aborted"})
    BY <1>1, <1>2 DEF InStage
<1>7. StopsRight' /\ TimersAreLive'
    BY <1>1, <1>4, <1>6 DEF SchedulerInv, StopsRight, TimersAreLive
<1>8. QED
    BY <1>3, <1>4, <1>5, <1>7 DEF SchedulerInv

(* Whatever the callers, the thread and time do.                            *)
LEMMA SchedulerStep == SchedulerInv /\ [Next]_vars => SchedulerInv'
<1> SUFFICES ASSUME SchedulerInv, [Next]_vars PROVE SchedulerInv'
    OBVIOUS
<1>1. CASE UNCHANGED vars
    BY <1>1 DEF vars, eventVars, SchedulerInv, TypeOK, HandlersRight, StopsRight, TimersAreLive,
                InStage, IdsDiffer, SharesId
<1>2. CASE Next
    BY <1>2, AddEventKeeps, StopEventKeeps, ShutdownKeeps, ExpireKeeps, RunInsertKeeps,
       RunCancelKeeps, RunExpiredKeeps, RunStopKeeps, HandOverKeeps DEF Next, IoThread
<1>3. QED
    BY <1>1, <1>2

(* For any number of events and of ids: as long as no two have the same id, *)
(* the map holds exactly the timers that wait or whose handler is to run.   *)
THEOREM TimersAreLiveAlways == Spec => []TimersAreLive
<1>1. SchedulerInv => TimersAreLive
    BY DEF SchedulerInv
<1>2. QED
    BY <1>1, SchedulerInitInv, SchedulerStep, PTL DEF Spec
-----------------------------------------------------------------------------
(* TimerService: what a step of the scheduler is to those who use it.       *)
Underway == {"posted", "armed", "fired", "aborted", "handing"}

(* Whose handler is the first.                                              *)
LEMMA FirstFacts ==
    ASSUME SchedulerInv
    PROVE  /\ HandlerIs("insert") => /\ Head(ioQueue).event \in Events
                                     /\ stage[Head(ioQueue).event] = "posted"
           /\ HandlerIs("expired") => /\ Head(ioQueue).event \in Events
                                      /\ stage[Head(ioQueue).event] \in {"fired", "aborted"}
<1>1. ioQueue \in Seq(Handlers)
    BY DEF SchedulerInv, TypeOK
<1>2. ioQueue # <<>> => Head(ioQueue) \in Handlers /\ Head(ioQueue) \in ToSet(ioQueue)
    BY <1>1, PopElems
<1>3. QED
    BY <1>2, HandlerKinds, InvFacts DEF HandlerIs

(* What was scheduled stays so.                                             *)
LEMMA NoneComesBack ==
    ASSUME SchedulerInv, RunExpired
    PROVE  \A e \in Events : stage[e] # "none" => stage'[e] # "none"
BY InvFacts DEF RunExpired, Aborted

(* One event goes from one stage to another.                                *)
LEMMA MovesOne ==
    ASSUME SchedulerInv, NEW e \in Events, NEW to, stage' = [stage EXCEPT ![e] = to]
    PROVE  \A s : InStage(s)' = IF to \in s THEN InStage(s) \cup {e} ELSE InStage(s) \ {e}
<1>1. \A o \in Events : stage'[o] = IF o = e THEN to ELSE stage[o]
    BY InvFacts
<1>2. QED
    BY <1>1 DEF InStage
(* Nothing is scheduled at first.                                           *)
LEMMA InitPromise == Init => Timers!Init
BY DEF Init, Timers!Init, InStage

(* addEvent is Schedule.                                                    *)
LEMMA AddEventSchedules ==
    ASSUME SchedulerInv, NEW e \in Events, NEW others \in 0..(IdSpace - 1), AddEvent(e, others)
    PROVE  Timers!Schedule(e)
<1>1. /\ stage[e] = "none" /\ stage' = [stage EXCEPT ![e] = "posted"]
      /\ UNCHANGED <<threadState, stopAsked>>
    BY DEF AddEvent
<1>2. \A s : InStage(s)' = IF "posted" \in s THEN InStage(s) \cup {e} ELSE InStage(s) \ {e}
    BY <1>1, MovesOne
<1>3. \A s : e \in InStage(s) <=> "none" \in s
    BY <1>1 DEF InStage
<1>4. /\ InStage(Underway)' = InStage(Underway) \cup {e}
      /\ UNCHANGED <<InStage({"delivered"}), InStage({"deleted"})>>
      /\ e \notin InStage(Underway) \cup InStage({"delivered"}) \cup InStage({"deleted"})
  <2>1. /\ InStage(Underway)' = InStage(Underway) \cup {e}
        /\ InStage({"delivered"})' = InStage({"delivered"}) \ {e}
        /\ InStage({"deleted"})' = InStage({"deleted"}) \ {e}
    BY <1>2 DEF Underway
  <2>2. e \notin InStage(Underway) /\ e \notin InStage({"delivered"}) /\ e \notin InStage({"deleted"})
    BY <1>3 DEF Underway
  <2>3. QED
    BY <2>1, <2>2
<1>5. UNCHANGED <<stopAsked, threadState = "TERMINATED">>
    BY <1>1
<1>6. QED
    BY <1>4, <1>5 DEF Timers!Schedule, Underway

(* stopEvent is AskStop, and no more than that.                             *)
LEMMA StopEventAsks ==
    ASSUME NEW e \in Events, StopEvent(e) PROVE Timers!AskStop(e)
BY DEF StopEvent, Timers!AskStop, InStage

(* Handing an event to the dispatcher is Deliver.                           *)
LEMMA HandOverDelivers ==
    ASSUME SchedulerInv, NEW e \in Events, HandOver(e) PROVE Timers!Deliver(e)
<1>1. /\ stage[e] = "handing" /\ stage' = [stage EXCEPT ![e] = "delivered"]
      /\ UNCHANGED <<threadState, stopAsked>>
    BY DEF HandOver, eventVars
<1>2. \A s : InStage(s)' = IF "delivered" \in s THEN InStage(s) \cup {e} ELSE InStage(s) \ {e}
    BY <1>1, MovesOne
<1>3. \A s : e \in InStage(s) <=> "handing" \in s
    BY <1>1 DEF InStage
<1>4. /\ InStage(Underway)' = InStage(Underway) \ {e} /\ e \in InStage(Underway)
      /\ InStage({"delivered"})' = InStage({"delivered"}) \cup {e}
      /\ UNCHANGED InStage({"deleted"})
    BY <1>2, <1>3 DEF Underway
<1>5. UNCHANGED <<stopAsked, threadState = "TERMINATED">>
    BY <1>1
<1>6. QED
    BY <1>4, <1>5 DEF Timers!Deliver, Underway
(* A handler that only ends waits changes nothing that is promised.         *)
LEMMA WaitsHidden ==
    ASSUME UNCHANGED <<threadState, stopAsked>>,
           \A o \in Events : \/ stage'[o] = stage[o]
                            \/ {stage[o], stage'[o]} \subseteq Underway
    PROVE  UNCHANGED Timers!vars
<1>1. \A s \in {Underway, {"delivered"}, {"deleted"}} : InStage(s)' = InStage(s)
    BY DEF InStage, Underway
<1>2. UNCHANGED <<stopAsked, threadState = "TERMINATED">>
    OBVIOUS
<1>3. QED
    BY <1>1, <1>2 DEF Timers!vars, Underway

(* Insertions, cancellations and the stop are not seen by the callers.      *)
LEMMA ThreadHidden ==
    ASSUME SchedulerInv, RunInsert \/ RunCancel \/ RunStop PROVE UNCHANGED Timers!vars
<1>1. \A ids : \A o \in ArmedOn(ids) : o \in Events /\ stage[o] = "armed"
    BY DEF ArmedOn
<1>2. ASSUME NEW W, \A o \in W : o \in Events /\ stage[o] = "armed", stage' = Aborted(W)
      PROVE  \A o \in Events : \/ stage'[o] = stage[o]
                               \/ {stage[o], stage'[o]} \subseteq Underway
  <2>1. \A o \in Events : stage'[o] = IF o \in W THEN "aborted" ELSE stage[o]
    BY <1>2 DEF Aborted
  <2>2. QED
    BY <1>2, <2>1 DEF Underway
<1>3. CASE RunCancel
  <2>1. PICK W : /\ \A o \in W : o \in Events /\ stage[o] = "armed"
                 /\ stage' = Aborted(W) /\ UNCHANGED <<threadState, stopAsked>>
    BY <1>1, <1>3 DEF RunCancel, eventVars
  <2>2. QED
    BY <1>2, <2>1, WaitsHidden
<1>4. CASE RunStop
  <2>1. PICK W : /\ \A o \in W : o \in Events /\ stage[o] = "armed"
                 /\ stage' = Aborted(W) /\ UNCHANGED <<threadState, stopAsked>>
    BY <1>1, <1>4 DEF RunStop, eventVars
  <2>2. QED
    BY <1>2, <2>1, WaitsHidden
<1>5. CASE RunInsert
  <2> DEFINE e == Head(ioQueue).event
             W == ArmedOn({id[e]})
  <2>1. /\ HandlerIs("insert") /\ stage' = [Aborted(W) EXCEPT ![e] = "armed"]
        /\ UNCHANGED <<threadState, stopAsked>>
    BY <1>5 DEF RunInsert, eventVars
  <2>2. e \in Events /\ stage[e] = "posted"
    BY <2>1, FirstFacts
  <2> HIDE DEF e
  <2>3. \A o \in Events :
           stage'[o] = IF o = e THEN "armed" ELSE IF o \in W THEN "aborted" ELSE stage[o]
    BY <2>1, <2>2 DEF Aborted
  <2>4. \A o \in Events : \/ stage'[o] = stage[o]
                          \/ {stage[o], stage'[o]} \subseteq Underway
    BY <1>1, <2>2, <2>3 DEF Underway
  <2>5. QED
    BY <2>1, <2>4, WaitsHidden
<1>6. QED
    BY <1>3, <1>4, <1>5

(* Where an event is deleted, its owner asked or the scheduler is shut down. *)
LEMMA RunExpiredDrops ==
    ASSUME SchedulerInv, IdsDiffer, RunExpired
    PROVE  UNCHANGED Timers!vars \/ \E e \in Events : Timers!Drop(e)
<1> DEFINE e == Head(ioQueue).event
           W == ArmedOn({id[e]})
           to == IF stage[e] = "aborted" \/ threadState = "TERMINATED" THEN "deleted" ELSE "handing"
<1>1. /\ HandlerIs("expired") /\ stage' = [Aborted(W) EXCEPT ![e] = to]
      /\ UNCHANGED <<threadState, stopAsked>>
    BY DEF RunExpired, eventVars
<1>2. e \in Events /\ stage[e] \in {"fired", "aborted"}
    BY <1>1, FirstFacts
<1>3. W = {}
    BY <1>2, SameId DEF ArmedOn
<1>4. Aborted(W) = stage
    BY <1>3, InvFacts DEF Aborted
<1>5. stage' = [stage EXCEPT ![e] = to]
    BY <1>1, <1>4
<1> HIDE DEF e, W
<1>6. CASE to = "handing"
  <2>1. \A o \in Events : stage'[o] = IF o = e THEN "handing" ELSE stage[o]
    BY <1>5, <1>6, InvFacts
  <2>2. \A o \in Events : \/ stage'[o] = stage[o]
                          \/ {stage[o], stage'[o]} \subseteq Underway
    BY <1>2, <2>1 DEF Underway
  <2>3. QED
    BY <1>1, <2>2, WaitsHidden
<1>7. CASE to = "deleted"
  <2>1. \A s : InStage(s)' = IF "deleted" \in s THEN InStage(s) \cup {e} ELSE InStage(s) \ {e}
    BY <1>2, <1>5, <1>7, MovesOne
  <2>2. \A s : e \in InStage(s) <=> stage[e] \in s
    BY <1>2 DEF InStage
  <2>3. /\ InStage(Underway)' = InStage(Underway) \ {e} /\ e \in InStage(Underway)
        /\ InStage({"deleted"})' = InStage({"deleted"}) \cup {e}
        /\ UNCHANGED InStage({"delivered"})
    BY <1>2, <2>1, <2>2 DEF Underway
  <2>4. stage[e] = "aborted" \/ threadState = "TERMINATED"
    BY <1>7
  <2>5. e \in stopAsked \/ threadState = "TERMINATED"
    BY <1>2, <2>2, <2>4 DEF SchedulerInv, StopsRight
  <2>6. UNCHANGED <<stopAsked, threadState = "TERMINATED">>
    BY <1>1
  <2>7. Timers!Drop(e)
    BY <2>3, <2>5, <2>6 DEF Timers!Drop, Underway
  <2>8. QED
    BY <1>2, <2>7
<1>8. QED
    BY <1>6, <1>7

(* A step of the scheduler is one of TimerService or none, as long as the   *)
(* ids differ.                                                              *)
LEMMA PromiseKept ==
    SchedulerInv /\ [Next]_vars => ~IdsDiffer' \/ Timers!Next \/ UNCHANGED Timers!vars
<1> SUFFICES ASSUME SchedulerInv, [Next]_vars, IdsDiffer'
             PROVE  Timers!Next \/ UNCHANGED Timers!vars
    OBVIOUS
<1>1. CASE UNCHANGED vars
  <2>1. UNCHANGED <<threadState, stopAsked, stage>>
    BY <1>1 DEF vars, eventVars
  <2>2. QED
    BY <2>1, WaitsHidden
<1>2. ASSUME NEW e \in Events, Expire(e) PROVE UNCHANGED Timers!vars
  <2>1. /\ UNCHANGED <<threadState, stopAsked>> /\ stage[e] = "armed"
        /\ \A o \in Events : stage'[o] = IF o = e THEN "fired" ELSE stage[o]
    BY <1>2, InvFacts DEF Expire, eventVars
  <2>2. \A o \in Events : \/ stage'[o] = stage[o]
                          \/ {stage[o], stage'[o]} \subseteq Underway
    BY <2>1 DEF Underway
  <2>3. QED
    BY <2>1, <2>2, WaitsHidden
<1>3. CASE RunExpired
  <2>1. IdsDiffer
    <3>1. UNCHANGED id /\ HandlerIs("expired")
      BY <1>3 DEF RunExpired, eventVars
    <3>2. QED
      BY <1>3, <3>1, NoneComesBack, IdsStay
  <2>2. QED
    BY <1>3, <2>1, RunExpiredDrops DEF Timers!Next
<1>4. CASE Stop
  <2>1. UNCHANGED <<stopAsked, stage>> /\ UNCHANGED (threadState = "TERMINATED")
    BY <1>4 DEF Stop, eventVars
  <2>2. QED
    BY <2>1 DEF Timers!vars, InStage
<1>5. CASE Shutdown
    BY <1>5 DEF Shutdown, eventVars, Timers!Next, Timers!Close, InStage
<1>6. CASE Next
    BY <1>2, <1>3, <1>4, <1>5, <1>6, AddEventSchedules, StopEventAsks, HandOverDelivers,
       ThreadHidden DEF Next, IoThread, Timers!Next
<1>7. QED
    BY <1>1, <1>6

(* The scheduler implements TimerService, for any number of events: as long *)
(* as no id is given twice, an event is handed over or dropped once, and    *)
(* dropped only when its owner asked or the scheduler was shut down.        *)
THEOREM SchedulerKeepsPromise == Spec => KeepsPromise
BY InitPromise, SchedulerInitInv, SchedulerStep, PromiseKept, PTL DEF Spec, KeepsPromise

-----------------------------------------------------------------------------
(* The walk of a player.                                                    *)
WalkInv == WalkTypeOK /\ WalkIsDriven

(* The event a creature knows is not over, unless a death is to come.       *)
Knows(w) == w.eventWalk # 0 /\ w.death = "none" => w.events[w.eventWalk] \in {"timer", "queued"}

(* The parts of a walk.                                                     *)
LEMMA WalkRecord ==
    ASSUME NEW w \in Walks
    PROVE  /\ w.listWalkDir \in 0..MaxSteps /\ w.eventWalk \in 0..MaxEvents
           /\ w.events \in [WalkEvents -> {"free", "timer", "stopping", "queued"}]
           /\ w.cancelNextWalk \in BOOLEAN /\ w.delay \in BOOLEAN /\ w.parked \in BOOLEAN
           /\ w.death \in {"none", "down", "healed"}
           /\ w.eventWalk # 0 => w.eventWalk \in WalkEvents
BY BoundsAssumption DEF Walks, WalkEvents

(* Scheduler::addEvent: the creature knows an event, which is alive.        *)
LEMMA ScheduleFacts ==
    ASSUME NEW w \in Walks, FreeEvents(w) # {}
    PROVE  /\ Schedule(w) \in Walks /\ Schedule(w).eventWalk # 0 /\ Knows(Schedule(w))
           /\ Schedule(w).listWalkDir = w.listWalkDir
<1> DEFINE e == CHOOSE e \in FreeEvents(w) : TRUE
           f == [w.events EXCEPT ![e] = "timer"]
           s == [w EXCEPT !.events = f, !.eventWalk = e, !.parked = FALSE]
<1>1. e \in WalkEvents
    BY DEF FreeEvents
<1>2. Schedule(w) = s
    BY WalkRecord DEF Schedule
<1> HIDE DEF e
<1>3. e \in 0..MaxEvents /\ e # 0
    BY <1>1, BoundsAssumption DEF WalkEvents
<1>4. f \in [WalkEvents -> {"free", "timer", "stopping", "queued"}] /\ f[e] = "timer"
    BY <1>1, WalkRecord
<1> HIDE DEF f
<1>5. s \in Walks /\ s.eventWalk = e /\ s.events = f /\ s.listWalkDir = w.listWalkDir
    BY <1>3, <1>4 DEF Walks
<1>6. QED
    BY <1>2, <1>3, <1>4, <1>5 DEF Knows

(* stopEventWalk: it knows none, and no event is taken.                     *)
LEMMA StopFacts ==
    ASSUME NEW w \in Walks
    PROVE  /\ StopEventWalk(w) \in Walks /\ StopEventWalk(w).eventWalk = 0
           /\ StopEventWalk(w).listWalkDir = w.listWalkDir
           /\ StopEventWalk(w).parked = w.parked
           /\ FreeEvents(w) \subseteq FreeEvents(StopEventWalk(w))
<1>1. CASE w.eventWalk = 0
    BY <1>1 DEF StopEventWalk
<1>2. CASE w.eventWalk # 0
  <2> DEFINE k == w.eventWalk
             f == [w.events EXCEPT ![k] = IF w.events[k] = "timer" THEN "stopping" ELSE w.events[k]]
             s == [w EXCEPT !.eventWalk = 0, !.events = f]
  <2>1. StopEventWalk(w) = s
    BY <1>2, WalkRecord DEF StopEventWalk
  <2>2. /\ f \in [WalkEvents -> {"free", "timer", "stopping", "queued"}]
        /\ \A e \in WalkEvents : w.events[e] = "free" => f[e] = "free"
        /\ 0 \in 0..MaxEvents
    BY <1>2, WalkRecord, BoundsAssumption
  <2> HIDE DEF f
  <2>3. /\ s \in Walks /\ s.eventWalk = 0 /\ s.events = f
        /\ s.listWalkDir = w.listWalkDir /\ s.parked = w.parked
    BY <2>2 DEF Walks
  <2>4. QED
    BY <2>1, <2>2, <2>3 DEF FreeEvents
<1>3. QED
    BY <1>1, <1>2

(* A walk whose known event is alive, and which has one or needs none.      *)
Right(w, can) ==
    /\ w \in Walks /\ Knows(w)
    /\ w.listWalkDir > 0 /\ can /\ ~w.parked => w.eventWalk # 0

(* The invariant says this of the walk there is.                            *)
LEMMA RightIsInv ==
    /\ WalkInv => Right(walk, canStep)
    /\ Right(walk, canStep) /\ canStep \in BOOLEAN /\ movementBlocked \in BOOLEAN
           /\ commands \in 0..MaxCommands => WalkInv
BY DEF WalkInv, WalkTypeOK, WalkIsDriven, WalkAlive, Right, Knows

(* addEventWalk: afterwards there is an event, unless the creature cannot   *)
(* step.                                                                    *)
LEMMA AddFacts ==
    ASSUME NEW w \in Walks, Knows(w), FreeEvents(w) # {} \/ w.eventWalk # 0
    PROVE  Right(AddEventWalk(w), canStep)
<1> DEFINE kept == [w EXCEPT !.cancelNextWalk = FALSE]
<1>1. /\ kept \in Walks /\ kept.events = w.events /\ kept.eventWalk = w.eventWalk /\ kept.death = w.death
      /\ FreeEvents(kept) = FreeEvents(w) /\ Knows(kept)
    BY DEF Walks, FreeEvents, Knows
<1>2. AddEventWalk(w) = IF canStep /\ w.eventWalk = 0 THEN Schedule(kept) ELSE kept
    BY DEF AddEventWalk
<1> HIDE DEF kept
<1>3. QED
    BY <1>1, <1>2, ScheduleFacts DEF Right

(* A step leaves the known event alone, or stops it and gives up the rest.  *)
LEMMA StepFacts ==
    ASSUME NEW w \in Walks, w.listWalkDir > 0, NEW outcome \in Outcomes
    PROVE  LET s == Step(w, outcome)
           IN  /\ s \in Walks /\ FreeEvents(w) \subseteq FreeEvents(s)
               /\ s.eventWalk = w.eventWalk \/ (s.eventWalk = 0 /\ s.parked)
               /\ w.parked => s.parked
<1> DEFINE left == [w EXCEPT !.listWalkDir = w.listWalkDir - 1]
           stopped == StopEventWalk(left)
           tele == [stopped EXCEPT !.delay = TRUE, !.parked = TRUE]
           moved == [left EXCEPT !.delay = TRUE]
<1>1. w.listWalkDir - 1 \in 0..MaxSteps
    BY WalkRecord, BoundsAssumption
<1>2. /\ left \in Walks /\ left.eventWalk = w.eventWalk /\ left.parked = w.parked
      /\ left.events = w.events
    BY <1>1 DEF Walks
<1>3. Step(w, outcome) = CASE outcome = "failed" -> left
                           [] outcome = "moved" -> moved
                           [] outcome = "teleported" -> tele
    BY DEF Step, Teleported
<1> HIDE DEF left
<1>4. FreeEvents(left) = FreeEvents(w)
    BY <1>2 DEF FreeEvents
<1>5. /\ moved \in Walks /\ moved.eventWalk = left.eventWalk /\ moved.parked = left.parked
      /\ FreeEvents(moved) = FreeEvents(left)
    BY <1>2, <1>4 DEF Walks, FreeEvents
<1>6. /\ stopped \in Walks /\ stopped.eventWalk = 0
      /\ FreeEvents(left) \subseteq FreeEvents(stopped)
    BY <1>2, StopFacts
<1> HIDE DEF stopped
<1>7. /\ tele \in Walks /\ tele.eventWalk = 0 /\ tele.parked /\ tele.events = stopped.events
    BY <1>6 DEF Walks
<1>8. FreeEvents(tele) = FreeEvents(stopped)
    BY <1>7 DEF FreeEvents
<1> HIDE DEF tele, moved
<1>9. QED
    BY <1>2, <1>3, <1>4, <1>5, <1>6, <1>7, <1>8 DEF Outcomes

(* onWalk up to its last lines: it schedules nothing, it may stop the event *)
(* that is known, and then no step is left or what is left is given up.     *)
LEMMA WalkOnFacts ==
    ASSUME NEW w \in Walks, NEW outcome \in Outcomes
    PROVE  LET v == WalkAborted(WalkOn(w, outcome))
           IN  /\ v \in Walks /\ FreeEvents(w) \subseteq FreeEvents(v)
               /\ \/ v.eventWalk = w.eventWalk
                  \/ v.eventWalk = 0 /\ (v.parked \/ v.listWalkDir = 0)
               /\ w.parked => v.parked
               /\ w.listWalkDir = 0 => v.listWalkDir = 0
<1> DEFINE u == WalkOn(w, outcome)
<1>1. /\ u \in Walks /\ FreeEvents(w) \subseteq FreeEvents(u)
      /\ \/ u.eventWalk = w.eventWalk
         \/ u.eventWalk = 0 /\ (u.parked \/ u.listWalkDir = 0)
      /\ w.parked => u.parked
      /\ w.listWalkDir = 0 => u.listWalkDir = 0
  <2>1. CASE w.delay
    BY <2>1 DEF WalkOn
  <2>2. CASE ~w.delay /\ w.listWalkDir > 0
    BY <2>2, StepFacts, WalkRecord DEF WalkOn
  <2>3. CASE ~w.delay /\ ~(w.listWalkDir > 0)
    <3>1. w.listWalkDir = 0
      BY <2>3, WalkRecord, BoundsAssumption
    <3>2. u = StopEventWalk(w)
      BY <2>3 DEF WalkOn
    <3>3. QED
      BY <3>1, <3>2, StopFacts
  <2>4. QED
    BY <2>1, <2>2, <2>3
<1> HIDE DEF u
<1>2. CASE u.cancelNextWalk
  <2> DEFINE v == [u EXCEPT !.listWalkDir = 0, !.cancelNextWalk = FALSE]
  <2>1. 0 \in 0..MaxSteps
    BY BoundsAssumption
  <2>2. /\ v \in Walks /\ v.events = u.events /\ v.eventWalk = u.eventWalk
        /\ v.parked = u.parked /\ v.listWalkDir = 0
    BY <1>1, <2>1 DEF Walks
  <2>3. FreeEvents(v) = FreeEvents(u)
    BY <2>2 DEF FreeEvents
  <2>4. WalkAborted(u) = v
    BY <1>2 DEF WalkAborted
  <2> HIDE DEF v
  <2>5. QED
    BY <1>1, <2>2, <2>3, <2>4 DEF u
<1>3. CASE ~u.cancelNextWalk
    BY <1>1, <1>3 DEF WalkAborted, u
<1>4. QED
    BY <1>2, <1>3

(* onWalk: whoever called it, the creature knows a new event or none, and   *)
(* none only if it has no step to make.                                     *)
LEMMA OnWalkFacts ==
    ASSUME NEW w \in Walks, NEW outcome \in Outcomes, FreeEvents(w) # {},
           w.listWalkDir > 0 /\ canStep /\ ~w.parked => w.eventWalk # 0
    PROVE  Right(OnWalk(w, outcome), canStep)
<1> DEFINE v == WalkAborted(WalkOn(w, outcome))
           z == [v EXCEPT !.eventWalk = 0]
<1>1. /\ v \in Walks /\ FreeEvents(w) \subseteq FreeEvents(v)
      /\ \/ v.eventWalk = w.eventWalk
         \/ v.eventWalk = 0 /\ (v.parked \/ v.listWalkDir = 0)
      /\ w.parked => v.parked
      /\ w.listWalkDir = 0 => v.listWalkDir = 0
    BY WalkOnFacts
<1>2. OnWalk(w, outcome) = IF v.eventWalk # 0 THEN AddEventWalk(z) ELSE v
    BY DEF OnWalk, Continued
<1> HIDE DEF v
<1>3. CASE v.eventWalk # 0
  <2>1. 0 \in 0..MaxEvents
    BY BoundsAssumption
  <2>2. z \in Walks /\ z.eventWalk = 0 /\ z.events = v.events
    BY <1>1, <2>1 DEF Walks
  <2>3. FreeEvents(z) # {} /\ Knows(z)
    BY <1>1, <2>2 DEF FreeEvents, Knows
  <2> HIDE DEF z
  <2>4. QED
    BY <1>2, <1>3, <2>2, <2>3, AddFacts
<1>4. CASE v.eventWalk = 0
  <2>1. v.listWalkDir > 0 => w.listWalkDir > 0
    BY <1>1, WalkRecord, BoundsAssumption
  <2>2. QED
    BY <1>1, <1>2, <1>4, <2>1, WalkRecord DEF Right, Knows
<1>5. QED
    BY <1>3, <1>4

(* startAutoWalk: with a first step at once, or without.                    *)
LEMMA StartFacts ==
    ASSUME NEW w \in Walks, Knows(w), FreeEvents(w) # {}, NEW outcome \in Outcomes
    PROVE  Right(StartAutoWalk(w, outcome), canStep)
<1> DEFINE kept == [w EXCEPT !.cancelNextWalk = FALSE]
           v == WalkAborted(WalkOn(kept, outcome))
<1>1. CASE w.listWalkDir = 1 /\ ~w.delay /\ canStep /\ w.eventWalk = 0
  <2>1. kept \in Walks /\ kept.eventWalk = 0 /\ FreeEvents(kept) = FreeEvents(w)
    BY <1>1 DEF Walks, FreeEvents
  <2>2. StartAutoWalk(w, outcome) = Schedule(OnWalk(kept, outcome))
    BY <1>1 DEF StartAutoWalk
  <2> HIDE DEF kept
  <2>3. v \in Walks /\ v.eventWalk = 0 /\ FreeEvents(w) \subseteq FreeEvents(v)
    BY <2>1, WalkOnFacts
  <2>4. OnWalk(kept, outcome) = v
    BY <2>3 DEF OnWalk, Continued
  <2> HIDE DEF v
  <2>5. QED
    BY <2>2, <2>3, <2>4, ScheduleFacts DEF Right
<1>2. CASE ~(w.listWalkDir = 1 /\ ~w.delay /\ canStep /\ w.eventWalk = 0)
  <2>1. StartAutoWalk(w, outcome) = AddEventWalk(w)
    BY <1>2 DEF StartAutoWalk
  <2>2. QED
    BY <2>1, AddFacts
<1>3. QED
    BY <1>1, <1>2

-----------------------------------------------------------------------------
(* Nobody walks at first.                                                   *)
LEMMA WalkInitInv == WalkInit => WalkInv
<1> SUFFICES ASSUME WalkInit PROVE WalkInv
    OBVIOUS
<1>1. 0 \in 0..MaxSteps /\ 0 \in 0..MaxEvents /\ 0 \in 0..MaxCommands
    BY BoundsAssumption
<1>2. walk \in Walks /\ walk.eventWalk = 0 /\ walk.listWalkDir = 0
    BY <1>1 DEF WalkInit, Walks
<1>3. Right(walk, canStep)
    BY <1>2 DEF Right, Knows
<1>4. canStep \in BOOLEAN /\ movementBlocked \in BOOLEAN /\ commands \in 0..MaxCommands
    BY <1>1 DEF WalkInit
<1>5. QED
    BY <1>3, <1>4, RightIsInv

(* What a command can count on.                                             *)
LEMMA WalkInvFacts ==
    ASSUME WalkInv
    PROVE  /\ walk \in Walks /\ Knows(walk) /\ Right(walk, canStep)
           /\ canStep \in BOOLEAN /\ movementBlocked \in BOOLEAN /\ commands \in 0..MaxCommands
           /\ Command => commands' \in 0..MaxCommands
BY RightIsInv, BoundsAssumption DEF WalkInv, WalkTypeOK, Right, Command

(* It is enough that the next walk is right.                                *)
LEMMA WalkInvNext ==
    ASSUME Right(walk', canStep'), canStep' \in BOOLEAN, movementBlocked' \in BOOLEAN,
           commands' \in 0..MaxCommands
    PROVE  WalkInv'
BY DEF WalkInv, WalkTypeOK, WalkIsDriven, WalkAlive, Right, Knows

(* Parts that do not matter to who drives the walk.                         *)
LEMMA SameDrive ==
    ASSUME NEW w, NEW can, Right(w, can), NEW v \in Walks, v.events = w.events,
           v.eventWalk = w.eventWalk, v.parked \/ ~w.parked \/ v.listWalkDir = 0,
           v.listWalkDir = w.listWalkDir \/ v.listWalkDir = 0 \/ v.parked,
           v.death = w.death \/ v.death # "none"
    PROVE  Right(v, can)
BY WalkRecord, BoundsAssumption DEF Right, Knows

(* Commands, also those that stop, block and paralyse.                      *)
LEMMA CommandsKeep == ASSUME WalkInv, Commands PROVE WalkInv'
<1>1. ASSUME NEW n \in 1..MaxSteps, NEW outcome \in Outcomes, PlayerWalks(n, outcome) PROVE WalkInv'
  <2> DEFINE w == [walk EXCEPT !.listWalkDir = n, !.parked = FALSE]
  <2>1. n \in 0..MaxSteps
    BY BoundsAssumption
  <2>2. w \in Walks /\ Knows(w) /\ FreeEvents(w) # {}
    BY <1>1, <2>1, WalkInvFacts DEF PlayerWalks, RoomForEvent, Walks, Knows, FreeEvents
  <2>3. /\ Command /\ UNCHANGED <<canStep, movementBlocked>>
        /\ walk' = IF movementBlocked THEN walk ELSE StartAutoWalk(w, outcome)
    BY <1>1 DEF PlayerWalks
  <2> HIDE DEF w
  <2>4. Right(walk', canStep)
    BY <2>2, <2>3, StartFacts, WalkInvFacts
  <2>5. QED
    BY <2>3, <2>4, WalkInvFacts, WalkInvNext
<1>2. ASSUME NEW n \in 0..MaxSteps, NEW outcome \in Outcomes, GoToFollowCreature(n, outcome)
      PROVE WalkInv'
  <2> DEFINE path == [walk EXCEPT !.listWalkDir = n]
             w == [path EXCEPT !.parked = FALSE]
             v == [path EXCEPT !.parked = TRUE]
  <2>1. w \in Walks /\ Knows(w) /\ FreeEvents(w) # {}
    BY <1>2, WalkInvFacts DEF GoToFollowCreature, RoomForEvent, Walks, Knows, FreeEvents
  <2>2. /\ path \in Walks /\ v \in Walks /\ v.parked /\ path.listWalkDir = n
        /\ path.parked = walk.parked
        /\ \A u \in {path, v} :
              u.events = walk.events /\ u.eventWalk = walk.eventWalk /\ u.death = walk.death
    BY WalkInvFacts DEF Walks
  <2>3. /\ Command /\ UNCHANGED <<canStep, movementBlocked>>
        /\ walk' = IF n = 0 THEN path ELSE IF movementBlocked THEN v ELSE StartAutoWalk(w, outcome)
    BY <1>2 DEF GoToFollowCreature
  <2> HIDE DEF path, w, v
  <2>4. Right(walk', canStep)
    BY <2>1, <2>2, <2>3, StartFacts, SameDrive, WalkInvFacts
  <2>5. QED
    BY <2>3, <2>4, WalkInvFacts, WalkInvNext
<1>3. ASSUME SetFollowCreature \/ StopWalk \/ Struck \/ Healed
             \/ \E state \in BOOLEAN : SetMovementBlocked(state)
      PROVE  WalkInv'
  <2>1. /\ Command /\ UNCHANGED canStep /\ movementBlocked' \in BOOLEAN
        /\ \/ walk' = [walk EXCEPT !.listWalkDir = 0]
           \/ walk' = [walk EXCEPT !.cancelNextWalk = TRUE]
           \/ walk' = [walk EXCEPT !.death = "down"]
           \/ walk' = [walk EXCEPT !.death = "healed"]
    BY <1>3, WalkInvFacts DEF SetFollowCreature, StopWalk, SetMovementBlocked, Struck, Healed
  <2>2. /\ walk' \in Walks /\ walk'.events = walk.events /\ walk'.eventWalk = walk.eventWalk
        /\ walk'.parked = walk.parked
        /\ walk'.listWalkDir = walk.listWalkDir \/ walk'.listWalkDir = 0
        /\ walk'.death = walk.death \/ walk'.death # "none"
    <3>1. 0 \in 0..MaxSteps
      BY BoundsAssumption
    <3>2. CASE walk' = [walk EXCEPT !.listWalkDir = 0]
      BY <3>1, <3>2, WalkInvFacts DEF Walks
    <3>3. CASE walk' = [walk EXCEPT !.cancelNextWalk = TRUE]
      BY <3>3, WalkInvFacts DEF Walks
    <3>4. CASE walk' = [walk EXCEPT !.death = "down"]
      BY <3>4, WalkInvFacts DEF Walks
    <3>5. CASE walk' = [walk EXCEPT !.death = "healed"]
      BY <3>5, WalkInvFacts DEF Walks
    <3>6. QED
      BY <2>1, <3>2, <3>3, <3>4, <3>5
  <2>3. Right(walk', canStep)
    BY <2>2, WalkInvFacts, SameDrive, WalkRecord
  <2>4. QED
    BY <2>1, <2>3, WalkInvFacts, WalkInvNext
<1>4. ASSUME Paralyse PROVE WalkInv'
  <2> DEFINE u == StopEventWalk(walk)
  <2>1. u \in Walks /\ u.eventWalk = 0
    BY WalkInvFacts, StopFacts
  <2>2. /\ Command /\ canStep' = FALSE /\ UNCHANGED movementBlocked
        /\ walk' = [u EXCEPT !.cancelNextWalk = TRUE]
    BY <1>4 DEF Paralyse
  <2> HIDE DEF u
  <2>3. walk' \in Walks /\ walk'.eventWalk = 0
    BY <2>1, <2>2 DEF Walks
  <2>4. Right(walk', canStep')
    BY <2>2, <2>3 DEF Right, Knows
  <2>5. QED
    BY <2>2, <2>4, WalkInvFacts, WalkInvNext
<1>5. ASSUME Recover PROVE WalkInv'
  <2> DEFINE kept == [walk EXCEPT !.cancelNextWalk = FALSE]
  <2>1. /\ kept \in Walks /\ kept.eventWalk = walk.eventWalk /\ kept.events = walk.events
        /\ kept.listWalkDir = walk.listWalkDir /\ kept.death = walk.death
    BY WalkInvFacts DEF Walks
  <2>2. /\ Command /\ canStep' = TRUE /\ UNCHANGED movementBlocked
        /\ FreeEvents(walk) # {}
        /\ walk' = IF walk.listWalkDir = 0 THEN walk
                   ELSE IF walk.eventWalk = 0 THEN Schedule(kept) ELSE kept
    BY <1>5 DEF Recover, RoomForEvent
  <2> HIDE DEF kept
  <2>3. FreeEvents(kept) # {}
    BY <2>1, <2>2 DEF FreeEvents
  <2>4. Right(walk', canStep')
    BY <2>1, <2>2, <2>3, ScheduleFacts, WalkInvFacts DEF Right, Knows
  <2>5. QED
    BY <2>2, <2>4, WalkInvFacts, WalkInvNext
<1>6. QED
    BY <1>1, <1>2, <1>3, <1>4, <1>5 DEF Commands

(* Events that expire, are cancelled or run, and time.                      *)
LEMMA EventsKeep ==
    ASSUME WalkInv, NEW e \in WalkEvents, RunEvent(e) \/ WalkExpire(e) \/ Cancelled(e)
    PROVE  WalkInv'
<1>1. ASSUME NEW outcome \in Outcomes, CheckCreatureWalk(e, outcome) PROVE WalkInv'
  <2>1. PICK delay \in BOOLEAN :
           LET over == [walk EXCEPT !.events[e] = "free", !.delay = delay]
           IN  walk' = IF walk.death = "down" THEN over ELSE OnWalk(over, outcome)
    BY <1>1, WalkInvFacts, WalkRecord DEF CheckCreatureWalk
  <2> DEFINE f == [walk.events EXCEPT ![e] = "free"]
             w == [walk EXCEPT !.events = f, !.delay = delay]
  <2>2. /\ walk' = IF walk.death = "down" THEN w ELSE OnWalk(w, outcome)
        /\ UNCHANGED <<canStep, movementBlocked, commands>>
    BY <1>1, <2>1 DEF CheckCreatureWalk
  <2>3. f \in [WalkEvents -> {"free", "timer", "stopping", "queued"}] /\ f[e] = "free"
    BY WalkInvFacts, WalkRecord
  <2> HIDE DEF f
  <2>4. /\ w \in Walks /\ w.events = f /\ w.eventWalk = walk.eventWalk
        /\ w.listWalkDir = walk.listWalkDir /\ w.parked = walk.parked /\ w.death = walk.death
    BY <2>3, WalkInvFacts DEF Walks
  <2> HIDE DEF w
  <2>5. FreeEvents(w) # {}
    BY <2>3, <2>4 DEF FreeEvents
  <2>6. w.listWalkDir > 0 /\ canStep /\ ~w.parked => w.eventWalk # 0
    BY <2>4, WalkInvFacts DEF Right
  <2>7. Right(walk', canStep)
    <3>1. CASE walk.death = "down"
      BY <2>2, <2>4, <2>6, <3>1 DEF Right, Knows
    <3>2. CASE walk.death # "down"
      BY <2>2, <2>4, <2>5, <2>6, <3>2, OnWalkFacts
    <3>3. QED
      BY <3>1, <3>2
  <2>8. QED
    BY <2>2, <2>7, WalkInvFacts, WalkInvNext
<1>2. ASSUME WalkExpire(e) \/ Cancelled(e) PROVE WalkInv'
  <2>1. PICK to \in {"queued", "free"} :
           /\ walk' = [walk EXCEPT !.events[e] = to]
           /\ walk.events[e] \in {"timer", "stopping"}
           /\ to = "free" => walk.events[e] = "stopping"
           /\ UNCHANGED <<canStep, movementBlocked, commands>>
    BY <1>2 DEF WalkExpire, Cancelled
  <2> DEFINE f == [walk.events EXCEPT ![e] = to]
  <2>2. /\ f \in [WalkEvents -> {"free", "timer", "stopping", "queued"}]
        /\ \A o \in WalkEvents : walk.events[o] \in {"timer", "queued"} => f[o] \in {"timer", "queued"}
    BY <2>1, WalkInvFacts, WalkRecord
  <2>3. walk' = [walk EXCEPT !.events = f]
    BY <2>1
  <2> HIDE DEF f
  <2>4. /\ walk' \in Walks /\ walk'.events = f /\ walk'.eventWalk = walk.eventWalk
        /\ walk'.listWalkDir = walk.listWalkDir /\ walk'.parked = walk.parked /\ walk'.death = walk.death
    BY <2>2, <2>3, WalkInvFacts DEF Walks
  <2>5. Right(walk', canStep)
    BY <2>2, <2>4, WalkInvFacts, WalkRecord DEF Right, Knows
  <2>6. QED
    BY <2>1, <2>5, WalkInvFacts, WalkInvNext
<1>3. QED
    BY <1>1, <1>2 DEF RunEvent

(* Whatever is commanded and in whichever order events run.                 *)
LEMMA WalkStep == WalkInv /\ [WalkNext]_walkVars => WalkInv'
<1> SUFFICES ASSUME WalkInv, [WalkNext]_walkVars PROVE WalkInv'
    OBVIOUS
<1>1. CASE UNCHANGED walkVars
    BY <1>1 DEF walkVars, WalkInv, WalkTypeOK, WalkIsDriven, WalkAlive
<1>2. CASE DelayOver
  <2>1. /\ walk' \in Walks /\ walk'.events = walk.events /\ walk'.eventWalk = walk.eventWalk
        /\ walk'.parked = walk.parked /\ walk'.listWalkDir = walk.listWalkDir /\ walk'.death = walk.death
        /\ UNCHANGED <<canStep, movementBlocked, commands>>
    BY <1>2, WalkInvFacts DEF DelayOver, Walks
  <2>2. Right(walk', canStep)
    BY <2>1, WalkInvFacts DEF Right, Knows
  <2>3. QED
    BY <2>1, <2>2, WalkInvFacts, WalkInvNext
<1>3. CASE DiesInArena
  <2> DEFINE u == StopEventWalk(walk)
  <2>1. u \in Walks /\ u.eventWalk = 0
    BY WalkInvFacts, StopFacts
  <2>2. /\ walk' = [[u EXCEPT !.delay = TRUE, !.parked = TRUE] EXCEPT !.death = "none"]
        /\ UNCHANGED <<canStep, movementBlocked, commands>>
    BY <1>3 DEF DiesInArena, Teleported
  <2> HIDE DEF u
  <2>3. walk' \in Walks /\ walk'.eventWalk = 0 /\ walk'.parked
    BY <2>1, <2>2 DEF Walks
  <2>4. Right(walk', canStep)
    BY <2>3 DEF Right, Knows
  <2>5. QED
    BY <2>2, <2>4, WalkInvFacts, WalkInvNext
<1>4. QED
    BY <1>1, <1>2, <1>3, CommandsKeep, EventsKeep DEF WalkNext

(* For paths of any length and any number of events and commands: the event *)
(* a creature knows is never one that is over, and a creature with steps to *)
(* make that can make them knows an event that will, however late the       *)
(* events before it are delivered.  An event that finds it without health   *)
(* is lost only until its death is dealt with (Game::checkCreatureWalk).    *)
THEOREM WalkIsDrivenAlways == WalkSpec => []WalkIsDriven
<1>1. WalkInv => WalkIsDriven
    BY DEF WalkInv
<1>2. QED
    BY <1>1, WalkInitInv, WalkStep, PTL DEF WalkSpec

(***************************************************************************)
(* Spawns.  SpawnInv is inductive: its parts say what SpawnSound says, and *)
(* that a monster knows its spawn until the spawns are cleared, which is   *)
(* why a removal always calls for the check that is needed.                *)
(***************************************************************************)
(* What spawnMonster and cleanup keep right in the record of a spawn: two   *)
(* that are listed have different blocks, unless they have left the zone.   *)
OneEach(s) ==
    \A m, n \in MonsterIds :
        /\ m # n /\ s.monster[m].id = s.monster[n].id
        /\ s.monster[m].state # "none" /\ s.monster[n].state # "none"
        => s.monster[m].id = Roamer

(* A monster knows its spawn until the spawns are cleared, which releases   *)
(* those that are removed.                                                  *)
PointersRight(s) ==
    \A m \in MonsterIds :
        /\ s.monster[m].state = "in" => (s.monster[m].spawn <=> s.stage # "cleared")
        /\ s.stage = "new" => s.monster[m].state = "none"
        /\ s.stage = "cleared" => ~s.monster[m].spawn

(* A check is on its way for what was removed and for what is missing.      *)
ChecksRight(s) ==
    /\ s.stage = "started" /\ (\E m \in MonsterIds : s.monster[m].state = "removed") => s.check # "none"
    /\ s.stage = "started" /\ s.woken /\ Cardinality(ListedFor(s)) < Blocks => s.check # "none"
    /\ s.stage = "cleared" => s.check = "none"
    /\ s.stage = "new" => s.check = "none" /\ ~s.woken

(* The invariant of a spawn.                                                *)
SpawnInv == SpawnTypeOK /\ OneEach(spawn) /\ PointersRight(spawn) /\ ChecksRight(spawn)

(* spawnMonster for blocks that are vacant gives each of them one monster.  *)
LEMMA SpawnedFacts ==
    ASSUME NEW s \in SpawnRecords, OneEach(s), NEW B \in SUBSET BlockIds, \A b \in B : Vacant(s, b)
    PROVE  LET r == Spawned(s, B)
           IN  /\ r \in SpawnRecords /\ OneEach(r) /\ r.seen = s.seen /\ r.check = s.check
               /\ r.woken = s.woken /\ r.stage = s.stage
               /\ \A m \in MonsterIds :
                    \/ r.monster[m] = s.monster[m]
                    \/ r.monster[m].state = "in" /\ r.monster[m].spawn
<1> DEFINE new == {m \in MonsterIds : s.monster[m].state = "none"}
           blockOf(m) == {b \in B : m \in new /\ Rank(B, b) = Rank(new, m)}
           born(m) == [state |-> "in", id |-> CHOOSE b \in blockOf(m) : TRUE, away |-> FALSE, spawn |-> TRUE]
           r == Spawned(s, B)
<1>0. Blocks \in Nat /\ MaxMonsters \in Nat
    BY SpawnsAssumption
<1>1. /\ r.monster = [m \in MonsterIds |-> IF blockOf(m) = {} THEN s.monster[m] ELSE born(m)]
      /\ r.due = [b \in BlockIds |-> s.due[b] /\ b \notin B]
      /\ r.seen = s.seen /\ r.check = s.check /\ r.woken = s.woken /\ r.stage = s.stage
      /\ r = [s EXCEPT !.monster = r.monster, !.due = r.due]
    BY DEF Spawned, SpawnRecords
<1> HIDE DEF r
<1>2. ASSUME NEW m \in MonsterIds
      PROVE  \/ r.monster[m] = s.monster[m]
             \/ /\ r.monster[m].state = "in" /\ r.monster[m].spawn = TRUE /\ r.monster[m].away = FALSE
                /\ r.monster[m].id \in blockOf(m)
                /\ r.monster[m] = born(m)
    <2>1. blockOf(m) # {} => (CHOOSE b \in blockOf(m) : TRUE) \in blockOf(m)
        OBVIOUS
    <2> HIDE DEF blockOf
    <2>2. QED
        BY <1>1, <2>1
<1>3. ASSUME NEW m \in MonsterIds
      PROVE  r.monster[m] \in Listings
    <2>1. born(m).id \in BlockIds => born(m) \in Listings
        <3> DEFINE g == CHOOSE b \in blockOf(m) : TRUE
        <3> HIDE DEF g
        <3>1. g \in BlockIds => [state |-> "in", id |-> g, away |-> FALSE, spawn |-> TRUE] \in Listings
            BY DEF Listings
        <3>2. QED
            BY <3>1 DEF g
    <2>2. QED
        BY <1>2, <2>1 DEF SpawnRecords
<1>4. r \in SpawnRecords
    <2>1. r.monster \in [MonsterIds -> Listings]
        BY <1>1, <1>3
    <2>2. r.due \in [BlockIds -> BOOLEAN]
        BY <1>1 DEF SpawnRecords
    <2>3. QED
        BY <1>1, <2>1, <2>2 DEF SpawnRecords
<1>5. OneEach(r)
    <2> SUFFICES ASSUME NEW m \in MonsterIds, NEW n \in MonsterIds, m # n,
                        r.monster[m].state # "none", r.monster[n].state # "none",
                        r.monster[m].id = r.monster[n].id
                 PROVE  r.monster[m].id = Roamer
        BY DEF OneEach
    <2> DEFINE g == r.monster[m].id
    <2>1. CASE r.monster[m] = s.monster[m] /\ r.monster[n] = s.monster[n]
        BY <2>1 DEF OneEach
    <2>2. ASSUME g \in blockOf(m), r.monster[n] = s.monster[n] PROVE FALSE
        <3>1. g \in B /\ n \in ListedFor(s) /\ s.monster[n].id = g
            BY <2>2 DEF ListedFor
        <3>2. QED
            BY <3>1 DEF Vacant
    <2>3. ASSUME g \in blockOf(n), r.monster[m] = s.monster[m] PROVE FALSE
        <3>1. g \in B /\ m \in ListedFor(s) /\ s.monster[m].id = g
            BY <2>3 DEF ListedFor
        <3>2. QED
            BY <3>1 DEF Vacant
    <2>4. ASSUME g \in blockOf(m), g \in blockOf(n) PROVE FALSE
        <3>1. m \in new /\ n \in new /\ Rank(new, m) = Rank(new, n)
            BY <2>4
        <3>2. IsFiniteSet(new) /\ new \subseteq Nat
            <4>1. new \subseteq 1 .. MaxMonsters
                BY DEF MonsterIds
            <4>2. IsFiniteSet(1 .. MaxMonsters)
                BY <1>0, FS_Interval
            <4>3. QED
                BY <1>0, <4>1, <4>2, FS_Subset
        <3> HIDE DEF new
        <3>3. Cardinality(Before(new, m)) = Cardinality(Before(new, n))
            BY <3>1 DEF Rank, Before
        <3>4. m = n
            BY <3>1, <3>2, <3>3, RankInjective
        <3>5. QED
            BY <3>4
    <2>5. QED
        BY <1>2, <2>1, <2>2, <2>3, <2>4
<1>6. \A m \in MonsterIds :
         \/ r.monster[m] = s.monster[m]
         \/ r.monster[m].state = "in" /\ r.monster[m].spawn
    BY <1>2
<1>7. QED
    BY <1>1, <1>4, <1>5, <1>6 DEF r

(* cleanup leaves none that is removed and gives none a block.              *)
LEMMA TidiedFacts ==
    ASSUME NEW s \in SpawnRecords, OneEach(s)
    PROVE  LET r == Tidied(s)
           IN  /\ r \in SpawnRecords /\ OneEach(r) /\ r.seen = s.seen /\ r.check = s.check
               /\ r.woken = s.woken /\ r.stage = s.stage
               /\ \A m \in MonsterIds :
                    /\ r.monster[m].state # "removed"
                    /\ r.monster[m].state = "in" => s.monster[m].state = "in" /\ r.monster[m].spawn = s.monster[m].spawn
<1> DEFINE gone == {m \in ListedFor(s) : s.monster[m].state = "removed"}
           one(m) == IF m \in gone THEN Missing
                     ELSE IF s.monster[m].away THEN [s.monster[m] EXCEPT !.id = Roamer] ELSE s.monster[m]
           r == Tidied(s)
<1>1. /\ r.monster = [m \in MonsterIds |-> one(m)]
      /\ r.due = [b \in BlockIds |-> s.due[b] /\ \A m \in gone : s.monster[m].id # b]
      /\ r.seen = s.seen /\ r.check = s.check /\ r.woken = s.woken /\ r.stage = s.stage
      /\ r = [s EXCEPT !.monster = r.monster, !.due = r.due]
    BY DEF Tidied, SpawnRecords
<1>2. ASSUME NEW m \in MonsterIds
      PROVE  /\ one(m) \in Listings /\ one(m).state # "removed"
             /\ one(m).state # "none" => /\ one(m).id \in {Roamer, s.monster[m].id}
                                         /\ s.monster[m].state = one(m).state
                                         /\ one(m).spawn = s.monster[m].spawn
    <2>1. s.monster[m] \in Listings
        BY DEF SpawnRecords
    <2>2. m \in gone <=> s.monster[m].state = "removed"
        BY DEF ListedFor
    <2>3. Missing \in Listings /\ Missing.state = "none"
        BY DEF Missing, Listings
    <2> HIDE DEF gone
    <2>4. CASE m \in gone
        BY <2>3, <2>4
    <2>5. CASE m \notin gone /\ s.monster[m].away
        <3> DEFINE l == s.monster[m]
        <3>1. l \in Listings
            BY <2>1
        <3>2. one(m) = [l EXCEPT !.id = Roamer]
            BY <2>5
        <3> HIDE DEF l, one
        <3>3. /\ one(m) \in Listings /\ one(m).state = l.state /\ one(m).id = Roamer /\ one(m).spawn = l.spawn
            BY <3>1, <3>2 DEF Listings
        <3>4. QED
            BY <2>2, <2>5, <3>3 DEF l
    <2>6. CASE m \notin gone /\ ~s.monster[m].away
        BY <2>1, <2>2, <2>6
    <2>7. QED
        BY <2>4, <2>5, <2>6
<1> HIDE DEF one, r
<1>3. r \in SpawnRecords
    <2>1. r.monster \in [MonsterIds -> Listings]
        BY <1>1, <1>2
    <2>2. r.due \in [BlockIds -> BOOLEAN]
        <3>1. \A b \in BlockIds : (s.due[b] /\ \A m \in gone : s.monster[m].id # b) \in BOOLEAN
            OBVIOUS
        <3>2. QED
            BY <1>1, <3>1
    <2>3. QED
        BY <1>1, <2>1, <2>2 DEF SpawnRecords
<1>4. OneEach(r)
    BY <1>1, <1>2 DEF OneEach
<1>5. QED
    BY <1>1, <1>2, <1>3, <1>4 DEF r

(* checkSpawn places monsters at vacant blocks only.                        *)
LEMMA RefilledFacts ==
    ASSUME NEW s \in SpawnRecords, OneEach(s), NEW blocked \in SUBSET BlockIds
    PROVE  LET r == Refilled(s, blocked)
           IN  /\ r \in SpawnRecords /\ OneEach(r) /\ r.seen = s.seen /\ r.check = s.check
               /\ r.woken = s.woken /\ r.stage = s.stage
               /\ \A m \in MonsterIds :
                    \/ r.monster[m] = s.monster[m]
                    \/ r.monster[m].state = "in" /\ r.monster[m].spawn
<1> DEFINE due == {b \in BlockIds : Vacant(s, b) /\ s.due[b]}
           can == {b \in due : CanSpawn(s, b, blocked)}
           reached == {b \in due : Rank(can, b) < IF Rate = 0 THEN 1 ELSE Rate}
           B == can \cap reached
           v == Spawned(s, B)
           r == Refilled(s, blocked)
<1>1. B \in SUBSET BlockIds /\ \A b \in B : Vacant(s, b)
    OBVIOUS
<1>2. r = [v EXCEPT !.due = [b \in BlockIds |-> @[b] /\ b \notin reached]]
    BY DEF Refilled
<1> HIDE DEF B, reached
<1>3. /\ v \in SpawnRecords /\ OneEach(v) /\ v.seen = s.seen /\ v.check = s.check
      /\ v.woken = s.woken /\ v.stage = s.stage
      /\ \A m \in MonsterIds :
           \/ v.monster[m] = s.monster[m]
           \/ v.monster[m].state = "in" /\ v.monster[m].spawn
    BY <1>1, SpawnedFacts
<1> HIDE DEF v, r
<1>4. /\ r \in SpawnRecords /\ r.monster = v.monster /\ r.seen = v.seen /\ r.check = v.check
      /\ r.woken = v.woken /\ r.stage = v.stage
    <2> DEFINE f == [b \in BlockIds |-> v.due[b] /\ b \notin reached]
    <2>1. f \in [BlockIds -> BOOLEAN]
        OBVIOUS
    <2>2. r = [v EXCEPT !.due = f]
        BY <1>2, <1>3 DEF SpawnRecords
    <2> HIDE DEF f
    <2>3. QED
        BY <1>3, <2>1, <2>2 DEF SpawnRecords
<1>5. QED
    BY <1>3, <1>4 DEF OneEach, r

(* SpawnSound, part by part.                                                *)
LEMMA SpawnSoundInParts ==
    ASSUME SpawnInv PROVE SpawnSound
BY DEF SpawnInv, SpawnSound, OneEach, PointersRight, ChecksRight, ListedFor, Runs

(* No monster is listed, and no check is due.                               *)
LEMMA InitSpawnInv == SpawnInit => SpawnInv
<1> SUFFICES ASSUME SpawnInit PROVE SpawnInv
    OBVIOUS
<1>1. /\ spawn.monster = [m \in MonsterIds |-> Missing] /\ spawn.due = [b \in BlockIds |-> TRUE]
      /\ spawn.seen = {} /\ spawn.check = "none" /\ spawn.woken = FALSE /\ spawn.stage = "new"
    BY DEF SpawnInit
<1>2. [m \in MonsterIds |-> Missing] \in [MonsterIds -> Listings]
    BY DEF Missing, Listings
<1>3. SpawnTypeOK
    BY <1>2 DEF SpawnInit, SpawnTypeOK, SpawnRecords
<1>4. QED
    BY <1>1, <1>3 DEF SpawnInv, OneEach, PointersRight, ChecksRight, Missing

(* SpawnInv after a step, from its parts.                                   *)
LEMMA SpawnInvNext ==
    ASSUME spawn' \in SpawnRecords, mishaps' \in Nat,
           OneEach(spawn'), PointersRight(spawn'), ChecksRight(spawn')
    PROVE  SpawnInv'
BY DEF SpawnTypeOK, SpawnInv, OneEach, PointersRight, ChecksRight, ListedFor

(* After a check none is removed, and another one follows unless there are  *)
(* enough.                                                                  *)
LEMMA CheckSpawnStep ==
    ASSUME SpawnInv, NEW blocked \in SUBSET BlockIds, CheckSpawn(blocked), mishaps' \in Nat
    PROVE  SpawnInv'
<1> DEFINE t == Tidied(spawn)
           r == Refilled(t, blocked)
           c == CheckedAgain(r)
<1>1. spawn \in SpawnRecords /\ OneEach(spawn) /\ PointersRight(spawn)
    BY DEF SpawnTypeOK, SpawnInv
<1>2. /\ t \in SpawnRecords /\ OneEach(t) /\ t.stage = spawn.stage
      /\ \A m \in MonsterIds :
           /\ t.monster[m].state # "removed"
           /\ t.monster[m].state = "in" => spawn.monster[m].state = "in" /\ t.monster[m].spawn = spawn.monster[m].spawn
    BY <1>1, TidiedFacts
<1>3. spawn' = c
    BY DEF CheckSpawn, With
<1> HIDE DEF t
<1>4. /\ r \in SpawnRecords /\ OneEach(r) /\ r.stage = spawn.stage
      /\ \A m \in MonsterIds :
           \/ r.monster[m] = t.monster[m]
           \/ r.monster[m].state = "in" /\ r.monster[m].spawn
    BY <1>2, RefilledFacts
<1> HIDE DEF r
<1>5. /\ c \in SpawnRecords /\ c.monster = r.monster /\ c.stage = r.stage /\ c.woken = r.woken
      /\ c.check = IF Cardinality(ListedFor(r)) < Blocks THEN "waiting" ELSE "none"
    BY <1>4 DEF CheckedAgain, SpawnRecords
<1> HIDE DEF c
<1>6. spawn.stage \in {"started", "closing"}
    BY DEF CheckSpawn
<1>7. \A m \in MonsterIds : r.monster[m].state # "removed" /\ (r.monster[m].state = "in" => r.monster[m].spawn)
    BY <1>1, <1>2, <1>4, <1>6 DEF PointersRight
<1>8. OneEach(c) /\ PointersRight(c)
    BY <1>4, <1>5, <1>6, <1>7 DEF OneEach, PointersRight
<1>9. ChecksRight(c)
    BY <1>4, <1>5, <1>6, <1>7 DEF ChecksRight, ListedFor
<1>10. QED
    BY <1>3, <1>5, <1>8, <1>9, SpawnInvNext

(* The first monsters are placed when none is listed.                       *)
LEMMA SpawnStartupStep ==
    ASSUME SpawnInv, NEW blocked \in SUBSET BlockIds, SpawnStartup(blocked), mishaps' \in Nat
    PROVE  SpawnInv'
<1> DEFINE s == [spawn EXCEPT !.stage = "started"]
           B == BlockIds \ blocked
           r == Spawned(s, B)
<1>1. spawn \in SpawnRecords /\ PointersRight(spawn) /\ ChecksRight(spawn) /\ spawn.stage = "new"
    BY DEF SpawnTypeOK, SpawnInv, SpawnStartup
<1>2. /\ s \in SpawnRecords /\ s.monster = spawn.monster /\ s.check = spawn.check
      /\ s.woken = spawn.woken /\ s.stage = "started"
    BY <1>1 DEF SpawnRecords
<1>3. spawn' = r
    BY DEF SpawnStartup
<1> HIDE DEF s
<1>4. \A m \in MonsterIds : s.monster[m].state = "none"
    BY <1>1, <1>2 DEF PointersRight
<1>5. OneEach(s) /\ \A b \in B : Vacant(s, b)
    BY <1>4 DEF OneEach, Vacant, ListedFor
<1>6. B \in SUBSET BlockIds
    OBVIOUS
<1> HIDE DEF B
<1>7. /\ r \in SpawnRecords /\ OneEach(r) /\ r.check = s.check /\ r.woken = s.woken /\ r.stage = s.stage
      /\ \A m \in MonsterIds :
           \/ r.monster[m] = s.monster[m]
           \/ r.monster[m].state = "in" /\ r.monster[m].spawn
    BY <1>2, <1>5, <1>6, SpawnedFacts
<1> HIDE DEF r
<1>8. PointersRight(r)
    BY <1>2, <1>4, <1>7 DEF PointersRight
<1>9. ChecksRight(r)
    BY <1>1, <1>2, <1>4, <1>7 DEF ChecksRight
<1>10. QED
    BY <1>3, <1>7, <1>8, <1>9, SpawnInvNext

(* A monster that knows its spawn calls for a check when it is removed; one *)
(* that does not outlived the spawns.                                       *)
LEMMA RemoveMonsterStep ==
    ASSUME SpawnInv, NEW m \in MonsterIds, RemoveMonster(m), mishaps' \in Nat
    PROVE  SpawnInv'
<1> DEFINE s == [spawn EXCEPT !.monster[m].state = "removed"]
           c == StartSpawnCheck(s)
<1>1. /\ spawn \in SpawnRecords /\ OneEach(spawn) /\ PointersRight(spawn) /\ ChecksRight(spawn)
      /\ spawn.monster[m].state = "in"
    BY DEF SpawnTypeOK, SpawnInv, RemoveMonster
<1>2. /\ s \in SpawnRecords /\ s.check = spawn.check /\ s.woken = spawn.woken /\ s.stage = spawn.stage
      /\ \A n \in MonsterIds \ {m} : s.monster[n] = spawn.monster[n]
      /\ s.monster[m].state = "removed" /\ s.monster[m].id = spawn.monster[m].id
      /\ s.monster[m].spawn = spawn.monster[m].spawn
    BY <1>1 DEF SpawnRecords, Listings
<1>3. spawn' = IF spawn.monster[m].spawn THEN c ELSE s
    BY DEF RemoveMonster
<1> HIDE DEF s
<1>4. OneEach(s) /\ PointersRight(s)
    BY <1>1, <1>2 DEF OneEach, PointersRight
<1>5. /\ c \in SpawnRecords /\ c.monster = s.monster /\ c.stage = s.stage /\ c.check # "none"
    BY <1>2 DEF StartSpawnCheck, SpawnRecords
<1> HIDE DEF c
<1>6. CASE spawn.monster[m].spawn
    <2>1. s.stage \notin {"new", "cleared"}
        BY <1>1, <1>2, <1>6 DEF PointersRight
    <2>2. OneEach(c) /\ PointersRight(c) /\ ChecksRight(c)
        BY <1>4, <1>5, <2>1 DEF OneEach, PointersRight, ChecksRight
    <2>3. QED
        BY <1>3, <1>5, <1>6, <2>2, SpawnInvNext
<1>7. CASE ~spawn.monster[m].spawn
    <2>1. s.stage = "cleared"
        BY <1>1, <1>2, <1>7 DEF PointersRight
    <2>2. ChecksRight(s)
        BY <1>1, <1>2, <2>1 DEF ChecksRight
    <2>3. QED
        BY <1>2, <1>3, <1>4, <1>7, <2>2, SpawnInvNext
<1>8. QED
    BY <1>6, <1>7

(* Whether a monster is in the zone matters to cleanup only.                *)
LEMMA CrossBorderStep ==
    ASSUME SpawnInv, NEW m \in MonsterIds, CrossBorder(m), mishaps' \in Nat
    PROVE  SpawnInv'
<1>1. /\ spawn \in SpawnRecords /\ OneEach(spawn) /\ PointersRight(spawn) /\ ChecksRight(spawn)
      /\ spawn' = [spawn EXCEPT !.monster[m].away = ~@]
    BY DEF SpawnTypeOK, SpawnInv, CrossBorder
<1>2. /\ spawn' \in SpawnRecords /\ spawn'.check = spawn.check /\ spawn'.woken = spawn.woken
      /\ spawn'.stage = spawn.stage
      /\ \A n \in MonsterIds : /\ spawn'.monster[n].state = spawn.monster[n].state
                                /\ spawn'.monster[n].id = spawn.monster[n].id
                                /\ spawn'.monster[n].spawn = spawn.monster[n].spawn
    BY <1>1 DEF SpawnRecords, Listings
<1>3. ListedFor(spawn') = ListedFor(spawn)
    BY <1>2 DEF ListedFor
<1>4. OneEach(spawn') /\ PointersRight(spawn') /\ ChecksRight(spawn')
    BY <1>1, <1>2, <1>3 DEF OneEach, PointersRight, ChecksRight
<1>5. QED
    BY <1>2, <1>4, SpawnInvNext

(* A step that leaves the monsters alone.                                   *)
LEMMA SpawnRestsStep ==
    ASSUME SpawnInv, spawn' \in SpawnRecords, mishaps' \in Nat,
           spawn'.monster = spawn.monster, spawn'.woken = spawn.woken,
           \/ spawn'.stage = spawn.stage /\ spawn'.check = spawn.check
           \/ spawn'.stage = spawn.stage /\ spawn.stage = "started" /\ spawn'.check # "none"
           \/ spawn.stage = "started" /\ spawn'.stage = "closing" /\ spawn'.check = spawn.check
    PROVE  SpawnInv'
<1>1. OneEach(spawn') /\ PointersRight(spawn') /\ ChecksRight(spawn')
    BY DEF SpawnInv, OneEach, PointersRight, ChecksRight, ListedFor
<1>2. QED
    BY <1>1, SpawnInvNext

(* Spawn::~Spawn takes the pointers to it back.                             *)
LEMMA ClearSpawnsStep ==
    ASSUME SpawnInv, ClearSpawns PROVE SpawnInv'
<1> DEFINE one(m) == IF spawn.monster[m].state = "removed" THEN Missing
                     ELSE [spawn.monster[m] EXCEPT !.spawn = FALSE]
           f == [m \in MonsterIds |-> one(m)]
<1>1. /\ spawn \in SpawnRecords /\ OneEach(spawn) /\ mishaps' \in Nat
      /\ spawn' = [spawn EXCEPT !.stage = "cleared", !.check = "none", !.monster = f]
    BY DEF SpawnTypeOK, SpawnInv, ClearSpawns, SpawnRecords
<1>2. ASSUME NEW m \in MonsterIds
      PROVE  /\ one(m) \in Listings /\ ~one(m).spawn
             /\ one(m).state # "none" => one(m).state = spawn.monster[m].state /\ one(m).id = spawn.monster[m].id
    <2> DEFINE l == spawn.monster[m]
    <2>1. l \in Listings
        BY <1>1 DEF SpawnRecords
    <2>2. one(m) = IF l.state = "removed" THEN Missing ELSE [l EXCEPT !.spawn = FALSE]
        OBVIOUS
    <2> HIDE DEF l, one
    <2>3. CASE l.state = "removed"
        <3>1. Missing \in Listings /\ ~Missing.spawn /\ Missing.state = "none"
            BY DEF Missing, Listings
        <3>2. QED
            BY <2>2, <2>3, <3>1
    <2>4. CASE l.state # "removed"
        <3>1. one(m) = [l EXCEPT !.spawn = FALSE]
            BY <2>2, <2>4
        <3>2. one(m) \in Listings /\ ~one(m).spawn /\ one(m).state = l.state /\ one(m).id = l.id
            BY <2>1, <3>1 DEF Listings
        <3>3. QED
            BY <3>2 DEF l
    <2>5. QED
        BY <2>3, <2>4
<1> HIDE DEF one
<1>3. f \in [MonsterIds -> Listings]
    BY <1>2
<1>4. \A m \in MonsterIds : f[m] = one(m)
    OBVIOUS
<1> HIDE DEF f
<1>5. /\ spawn' \in SpawnRecords /\ spawn'.monster = f /\ spawn'.stage = "cleared" /\ spawn'.check = "none"
    BY <1>1, <1>3 DEF SpawnRecords
<1>6. OneEach(spawn') /\ PointersRight(spawn') /\ ChecksRight(spawn')
    BY <1>1, <1>2, <1>4, <1>5 DEF OneEach, PointersRight, ChecksRight
<1>7. QED
    BY <1>1, <1>5, <1>6, SpawnInvNext

(* Every step keeps SpawnInv.                                               *)
LEMMA StepSpawnInv == SpawnInv /\ [SpawnNext]_spawnVars => SpawnInv'
<1> SUFFICES ASSUME SpawnInv, [SpawnNext]_spawnVars PROVE SpawnInv'
    OBVIOUS
<1>1. spawn \in SpawnRecords /\ mishaps \in Nat /\ SpawnsAssumption
    BY SpawnsAssumption DEF SpawnTypeOK, SpawnInv
<1>2. ASSUME NEW n \in Nat, Mishap(n) PROVE mishaps' \in Nat
    BY <1>1, <1>2 DEF Mishap
<1>3. ASSUME NEW blocked \in SUBSET BlockIds PROVE Cardinality(blocked) \in Nat
    <2>1. IsFiniteSet(BlockIds)
        BY <1>1, FS_Interval DEF BlockIds, SpawnsAssumption
    <2>2. QED
        BY <2>1, FS_Subset, FS_CardinalityType
<1>4. ASSUME NEW blocked \in SUBSET BlockIds, SpawnStartup(blocked) \/ CheckSpawn(blocked) PROVE SpawnInv'
    <2>1. mishaps' \in Nat
        BY <1>2, <1>3, <1>4 DEF SpawnStartup, CheckSpawn
    <2>2. QED
        BY <1>4, <2>1, SpawnStartupStep, CheckSpawnStep
<1>5. ASSUME NEW m \in MonsterIds, RemoveMonster(m) \/ CrossBorder(m) PROVE SpawnInv'
    <2>1. mishaps' \in Nat
        BY <1>2, <1>5 DEF RemoveMonster, CrossBorder
    <2>2. QED
        BY <1>5, <2>1, RemoveMonsterStep, CrossBorderStep
<1>6. ASSUME NEW b \in BlockIds, PlayerComes(b) PROVE SpawnInv'
    <2>1. mishaps' \in Nat /\ spawn' = [spawn EXCEPT !.seen = @ \cup {b}]
        BY <1>2, <1>6 DEF PlayerComes
    <2>2. QED
        BY <1>1, <2>1, SpawnRestsStep DEF SpawnRecords
<1>7. ASSUME NEW b \in BlockIds, PlayerGoes(b) PROVE SpawnInv'
    BY <1>1, <1>7, SpawnRestsStep DEF PlayerGoes, SpawnRecords
<1>8. ASSUME NEW b \in BlockIds, TimePasses(b) PROVE SpawnInv'
    BY <1>1, <1>8, SpawnRestsStep DEF TimePasses, SpawnRecords
<1>9. ASSUME HandCheck PROVE SpawnInv'
    BY <1>1, <1>9, SpawnRestsStep DEF HandCheck, Runs, SpawnRecords
<1>10. ASSUME CloseServer PROVE SpawnInv'
    BY <1>1, <1>10, SpawnRestsStep DEF CloseServer, Runs, SpawnRecords
<1>11. ASSUME UNCHANGED spawnVars PROVE SpawnInv'
    BY <1>1, <1>11, SpawnRestsStep DEF spawnVars
<1>12. QED
    BY <1>4, <1>5, <1>6, <1>7, <1>8, <1>9, <1>10, <1>11, ClearSpawnsStep DEF SpawnNext

(* SpawnSound, for any number of blocks and monsters, any rate and any      *)
(* history: one monster for a block in its zone, a check on its way while   *)
(* one is removed or missing, no pointer to a spawn that is gone            *)
(* (spawn.cpp:356-417, 255-269).                                            *)
THEOREM SpawnSoundAlways == SpawnSpec => [](SpawnTypeOK /\ SpawnSound)
<1>1. SpawnInv => SpawnTypeOK /\ SpawnSound
    BY SpawnSoundInParts DEF SpawnInv
<1>2. QED
    BY <1>1, InitSpawnInv, StepSpawnInv, PTL DEF SpawnSpec

-----------------------------------------------------------------------------
DecayItems ==
    [kind : DecayKinds \cup {"none"}, duration : Nat, timed : BOOLEAN, decaying : BOOLEAN,
     in : DecayIds \cup {World, Nowhere}, refs : Nat]
Decays ==
    [item : [DecayIds -> DecayItems], toDecay : [DecayIds -> Nat], toRelease : [DecayIds -> Nat],
     bucket : [Buckets -> [DecayIds -> Nat]], last : Buckets, full : BOOLEAN]

(* Who holds references to an item.                                         *)
Counted(d, i) ==
    d.item[i].refs = (IF d.item[i].in = Nowhere THEN 0 ELSE 1) + d.toRelease[i] + Listed(d, i)
(* A freed item is as good as never born.                                   *)
Kinded(d, i) ==
    /\ d.item[i].refs = 0 => d.item[i] = Unborn
    /\ d.item[i].refs > 0 => d.item[i].kind \in DecayKinds
(* A container is there, and in the world when it is anywhere.              *)
Housed(d, i) ==
    d.item[i].in \in DecayIds => d.item[d.item[i].in].refs > 0 /\ d.item[d.item[i].in].in \notin DecayIds
Whole(d) ==
    /\ d \in Decays
    /\ \A i \in DecayIds : Counted(d, i) /\ Kinded(d, i) /\ Housed(d, i)

(* What counts as decaying is listed; or waits to be released.              *)
Marked(d, i) ==
    d.item[i].decaying => Listed(d, i) > 0 /\ (d.item[i].duration > 0 \/ d.item[i].in = Nowhere)
Doomed(d, i) == d.item[i].in = Nowhere /\ d.toRelease[i] > 0

DecayInv == Whole(decay) /\ \A i \in DecayIds : Marked(decay, i)

(* The facts about the constants that the proofs use.                       *)
LEMMA DecayConstants ==
    /\ MaxObjects \in Nat /\ DecayIds = 1..MaxObjects /\ DecayIds \subseteq Nat
    /\ World \notin DecayIds /\ Nowhere \notin DecayIds /\ World # Nowhere /\ World = 0
    /\ \A i \in DecayIds : i > World
    /\ \A k \in DecayKinds : DecayTime[k] \in Nat /\ DecayTo[k] \in DecayKinds \cup {"gone", "never"}
BY DecayAssumption DEF DecayAssumption, DecayIds, World, Nowhere

(* A state, field by field.                                                 *)
LEMMA DecayFields ==
    ASSUME NEW d \in Decays
    PROVE  /\ d.item \in [DecayIds -> DecayItems] /\ d.toDecay \in [DecayIds -> Nat]
           /\ d.toRelease \in [DecayIds -> Nat] /\ d.bucket \in [Buckets -> [DecayIds -> Nat]]
           /\ d.last \in Buckets /\ d.full \in BOOLEAN
BY DEF Decays

(* An item, field by field.                                                 *)
LEMMA ItemFields ==
    ASSUME NEW it \in DecayItems
    PROVE  /\ it.kind \in DecayKinds \cup {"none"} /\ it.duration \in Nat /\ it.timed \in BOOLEAN
           /\ it.decaying \in BOOLEAN /\ it.in \in DecayIds \cup {World, Nowhere} /\ it.refs \in Nat
BY DEF DecayItems

(* How often an item is listed.                                             *)
LEMMA ListedNat ==
    ASSUME NEW d \in Decays, NEW i \in DecayIds
    PROVE  /\ Listed(d, i) \in Nat /\ d.toDecay[i] \in Nat /\ d.toRelease[i] \in Nat
           /\ \A b \in Buckets : d.bucket[b][i] \in Nat /\ d.bucket[b][i] <= Listed(d, i)
<1>1. 0 \in Buckets /\ 1 \in Buckets /\ 2 \in Buckets /\ 3 \in Buckets
  BY DEF Buckets
<1>2. \A b \in Buckets : d.bucket[b][i] \in Nat
  BY DecayFields
<1>3. d.toDecay[i] \in Nat /\ d.toRelease[i] \in Nat
  BY DecayFields
<1>4. Listed(d, i) \in Nat
  BY <1>1, <1>2, <1>3 DEF Listed
<1>5. ASSUME NEW b \in Buckets PROVE d.bucket[b][i] <= Listed(d, i)
  <2>1. b = 0 \/ b = 1 \/ b = 2 \/ b = 3
    BY DEF Buckets
  <2>2. /\ d.bucket[0][i] \in Nat /\ d.bucket[1][i] \in Nat /\ d.bucket[2][i] \in Nat /\ d.bucket[3][i] \in Nat
    BY <1>1, <1>2
  <2> QED
    BY <2>1, <2>2, <1>3 DEF Listed
<1> QED
  BY <1>2, <1>3, <1>4, <1>5

(* Nothing about j is touched.                                              *)
SameAt(d, e, j) ==
    e.item[j] = d.item[j] /\ e.toRelease[j] = d.toRelease[j] /\ Listed(e, j) = Listed(d, j)

(* A change of one item that is there, neither put into another one nor     *)
(* let go of.                                                               *)
LEMMA OneChanged ==
    ASSUME NEW d, Whole(d), NEW e \in Decays, NEW i \in DecayIds,
           \A j \in DecayIds : j # i => SameAt(d, e, j),
           Counted(e, i), d.item[i].refs > 0, e.item[i].refs > 0, e.item[i].kind \in DecayKinds,
           e.item[i].in = d.item[i].in \/ e.item[i].in \in {World, Nowhere}
    PROVE  Whole(e)
<1>1. d \in Decays /\ \A j \in DecayIds : Counted(d, j) /\ Kinded(d, j) /\ Housed(d, j)
  BY DEF Whole
<1>2. World \notin DecayIds /\ Nowhere \notin DecayIds
  BY DecayConstants
<1>3. ASSUME NEW j \in DecayIds PROVE Counted(e, j)
  BY <1>1 DEF Counted, SameAt
<1>4. ASSUME NEW j \in DecayIds PROVE Kinded(e, j)
  <2>1. CASE j = i
    <3>1. e.item[i].refs # 0
      OBVIOUS
    <3> QED
      BY <2>1, <3>1 DEF Kinded
  <2>2. CASE j # i
    BY <2>2, <1>1 DEF Kinded, SameAt
  <2> QED
    BY <2>1, <2>2
<1>5. ASSUME NEW j \in DecayIds PROVE Housed(e, j)
  <2>1. CASE e.item[j].in = d.item[j].in
    <3> SUFFICES ASSUME d.item[j].in \in DecayIds
                 PROVE  e.item[d.item[j].in].refs > 0 /\ e.item[d.item[j].in].in \notin DecayIds
      BY <2>1 DEF Housed
    <3>1. d.item[d.item[j].in].refs > 0 /\ d.item[d.item[j].in].in \notin DecayIds
      BY <1>1 DEF Housed
    <3>2. CASE d.item[j].in = i
      BY <3>1, <3>2, <1>2
    <3>3. CASE d.item[j].in # i
      BY <3>1, <3>3 DEF SameAt
    <3> QED
      BY <3>2, <3>3
  <2>2. CASE e.item[j].in # d.item[j].in
    <3>1. j = i
      BY <2>2 DEF SameAt
    <3> QED
      BY <2>2, <3>1, <1>2 DEF Housed
  <2> QED
    BY <2>1, <2>2
<1> QED
  BY <1>3, <1>4, <1>5 DEF Whole

(* What is in the world is there.                                           *)
LEMMA InWorldThere ==
    ASSUME NEW d, Whole(d), NEW i \in DecayIds, InWorld(d, i)
    PROVE  /\ d.item[i].refs > 0 /\ d.item[i].in # Nowhere /\ d.item[i].kind \in DecayKinds
           /\ d.item[i].in \in DecayIds \cup {World}
<1>1. d \in Decays /\ Counted(d, i) /\ Kinded(d, i)
  BY DEF Whole
<1>2. d.item[i] \in DecayItems
  BY <1>1, DecayFields
<1>3. d.item[i].in \in DecayIds \cup {World, Nowhere} /\ d.item[i].refs \in Nat
  BY <1>2, ItemFields
<1>4. d.item[i].in # Nowhere
  BY DEF InWorld, Nowhere, World
<1>5. d.item[i].refs > 0
  <2>1. Listed(d, i) \in Nat /\ d.toRelease[i] \in Nat
    BY <1>1, ListedNat
  <2> QED
    BY <1>1, <1>4, <2>1 DEF Counted
<1> QED
  BY <1>1, <1>3, <1>4, <1>5 DEF Kinded

(* No mark is lost, nobody waits for a release in vain, and the buckets     *)
(* stay as they are.                                                        *)
Kept(d, e) ==
    /\ d.full => e.full
    /\ \A j \in DecayIds : (Marked(d, j) => Marked(e, j)) /\ (Doomed(d, j) => Doomed(e, j))
Follows(d, e) == Whole(e) /\ Kept(d, e) /\ e.bucket = d.bucket /\ e.last = d.last

(* Nothing done is a step that follows.                                     *)
LEMMA FollowsSelf == ASSUME NEW d, Whole(d) PROVE Follows(d, d)
BY DEF Follows, Kept

(* Steps that follow one another.                                           *)
LEMMA FollowsOn ==
    ASSUME NEW d, NEW e, NEW f, Follows(d, e), Follows(e, f)
    PROVE  Follows(d, f)
BY DEF Follows, Kept

(* The same fields of an item mean the same.                                *)
LEMMA SameAtKept ==
    ASSUME NEW d, NEW e, NEW j, SameAt(d, e, j)
    PROVE  (Marked(d, j) => Marked(e, j)) /\ (Doomed(d, j) => Doomed(e, j))
BY DEF SameAt, Marked, Doomed

(* Listing an item that is there.                                           *)
LEMMA ListFields ==
    ASSUME NEW d \in Decays, NEW i \in DecayIds
    PROVE  /\ List(d, i) \in Decays
           /\ \A j \in DecayIds : j # i => SameAt(d, List(d, i), j)
           /\ List(d, i).item[i] = [d.item[i] EXCEPT !.refs = @ + 1, !.decaying = TRUE]
           /\ Listed(List(d, i), i) = Listed(d, i) + 1
           /\ List(d, i).toRelease = d.toRelease /\ List(d, i).full = d.full
           /\ List(d, i).bucket = d.bucket /\ List(d, i).last = d.last
<1> DEFINE e == List(d, i)
           it == [d.item[i] EXCEPT !.refs = @ + 1, !.decaying = TRUE]
<1>1. d.item[i] \in DecayItems /\ d.toDecay[i] \in Nat
  BY DecayFields
<1>2. it \in DecayItems
  <2>1. d.item[i].refs + 1 \in Nat
    BY <1>1, ItemFields
  <2> QED
    BY <1>1, <2>1 DEF DecayItems
<1>3. /\ e.item = [d.item EXCEPT ![i] = it] /\ e.toDecay = [d.toDecay EXCEPT ![i] = @ + 1]
      /\ e.toRelease = d.toRelease /\ e.full = d.full /\ e.bucket = d.bucket /\ e.last = d.last
  BY DecayFields DEF List, Decays
<1>4. e \in Decays
  <2>1. e.item \in [DecayIds -> DecayItems] /\ e.toDecay \in [DecayIds -> Nat]
    BY <1>1, <1>2, <1>3, DecayFields
  <2>2. e = [d EXCEPT !.item = e.item, !.toDecay = e.toDecay]
    BY <1>3 DEF List, Decays
  <2> HIDE DEF e
  <2> QED
    BY <2>1, <2>2 DEF Decays
<1>5. ASSUME NEW j \in DecayIds, j # i PROVE SameAt(d, e, j)
  <2>1. e.item[j] = d.item[j] /\ e.toDecay[j] = d.toDecay[j]
    BY <1>3, <1>5, DecayFields
  <2> QED
    BY <2>1, <1>3 DEF SameAt, Listed
<1>6. e.item[i] = it /\ e.toDecay[i] = d.toDecay[i] + 1
  BY <1>3, DecayFields
<1>7. Listed(e, i) = Listed(d, i) + 1
  <2>1. \A b \in Buckets : d.bucket[b][i] \in Nat
    BY DecayFields
  <2>2. 0 \in Buckets /\ 1 \in Buckets /\ 2 \in Buckets /\ 3 \in Buckets
    BY DEF Buckets
  <2>3. /\ d.bucket[0][i] \in Nat /\ d.bucket[1][i] \in Nat /\ d.bucket[2][i] \in Nat /\ d.bucket[3][i] \in Nat
    BY <2>1, <2>2
  <2> HIDE DEF e
  <2> QED
    BY <2>3, <1>1, <1>3, <1>6 DEF Listed
<1> QED
  BY <1>3, <1>4, <1>5, <1>6, <1>7

(* ... follows, and marks it.                                               *)
LEMMA ListFollows ==
    ASSUME NEW d, Whole(d), NEW i \in DecayIds, d.item[i].refs > 0, d.item[i].duration > 0
    PROVE  Follows(d, List(d, i)) /\ Marked(List(d, i), i)
<1> DEFINE e == List(d, i)
<1>1. d \in Decays /\ Counted(d, i) /\ Kinded(d, i)
  BY DEF Whole
<1>2. /\ e \in Decays
      /\ \A j \in DecayIds : j # i => SameAt(d, e, j)
      /\ e.item[i] = [d.item[i] EXCEPT !.refs = @ + 1, !.decaying = TRUE]
      /\ Listed(e, i) = Listed(d, i) + 1
      /\ e.toRelease = d.toRelease /\ e.full = d.full
      /\ e.bucket = d.bucket /\ e.last = d.last
  BY <1>1, ListFields
<1> HIDE DEF e
<1>3. d.item[i] \in DecayItems
  BY <1>1, DecayFields
<1>4. /\ e.item[i].refs = d.item[i].refs + 1 /\ e.item[i].in = d.item[i].in /\ e.item[i].kind = d.item[i].kind
      /\ e.item[i].duration = d.item[i].duration
  BY <1>2, <1>3 DEF DecayItems
<1>5. d.item[i].refs \in Nat /\ d.item[i].duration \in Nat
  BY <1>3, ItemFields
<1>6. Listed(d, i) \in Nat /\ d.toRelease[i] \in Nat
  BY <1>1, ListedNat
<1>7. Counted(e, i)
  BY <1>1, <1>2, <1>4, <1>5, <1>6 DEF Counted
<1>8. e.item[i].refs > 0 /\ e.item[i].kind \in DecayKinds
  BY <1>1, <1>4, <1>5 DEF Kinded
<1>9. Whole(e)
  BY <1>2, <1>4, <1>7, <1>8, OneChanged
<1>10. Marked(e, i)
  BY <1>2, <1>4, <1>6 DEF Marked
<1>11. Doomed(d, i) => Doomed(e, i)
  BY <1>2, <1>4 DEF Doomed
<1>12. Kept(d, e)
  BY <1>2, <1>10, <1>11, SameAtKept DEF Kept
<1> QED
  BY <1>2, <1>9, <1>10, <1>12 DEF Follows, e

(* Taking an item from where it is, for cleanup to release.                 *)
LEMMA TakenFields ==
    ASSUME NEW d \in Decays, NEW i \in DecayIds
    PROVE  /\ Taken(d, i) \in Decays
           /\ \A j \in DecayIds : j # i => SameAt(d, Taken(d, i), j)
           /\ Taken(d, i).item[i] = [d.item[i] EXCEPT !.in = Nowhere]
           /\ Listed(Taken(d, i), i) = Listed(d, i)
           /\ Taken(d, i).toRelease[i] = d.toRelease[i] + 1 /\ Taken(d, i).full = d.full
           /\ Taken(d, i).bucket = d.bucket /\ Taken(d, i).last = d.last
<1> DEFINE e == Taken(d, i)
           it == [d.item[i] EXCEPT !.in = Nowhere]
<1>1. d.item[i] \in DecayItems /\ d.toRelease[i] \in Nat
  BY DecayFields
<1>2. it \in DecayItems
  BY <1>1 DEF DecayItems
<1>3. /\ e.item = [d.item EXCEPT ![i] = it] /\ e.toRelease = [d.toRelease EXCEPT ![i] = @ + 1]
      /\ e.toDecay = d.toDecay /\ e.full = d.full /\ e.bucket = d.bucket /\ e.last = d.last
  BY DecayFields DEF Taken, ReleaseItem, Decays
<1>4. e \in Decays
  <2>1. e.item \in [DecayIds -> DecayItems] /\ e.toRelease \in [DecayIds -> Nat]
    BY <1>1, <1>2, <1>3, DecayFields
  <2>2. e = [d EXCEPT !.item = e.item, !.toRelease = e.toRelease]
    BY <1>3 DEF Taken, ReleaseItem, Decays
  <2> HIDE DEF e
  <2> QED
    BY <2>1, <2>2 DEF Decays
<1>5. ASSUME NEW j \in DecayIds, j # i PROVE SameAt(d, e, j)
  <2>1. e.item[j] = d.item[j] /\ e.toRelease[j] = d.toRelease[j]
    BY <1>3, <1>5, DecayFields
  <2> QED
    BY <2>1, <1>3 DEF SameAt, Listed
<1>6. e.item[i] = it /\ e.toRelease[i] = d.toRelease[i] + 1
  BY <1>3, DecayFields
<1>7. Listed(e, i) = Listed(d, i)
  BY <1>3 DEF Listed
<1> QED
  BY <1>3, <1>4, <1>5, <1>6, <1>7

(* ... follows, and it waits for its release.                               *)
LEMMA TakenFollows ==
    ASSUME NEW d, Whole(d), NEW i \in DecayIds, d.item[i].in # Nowhere
    PROVE  Follows(d, Taken(d, i)) /\ Doomed(Taken(d, i), i)
<1> DEFINE e == Taken(d, i)
<1>1. d \in Decays /\ Counted(d, i) /\ Kinded(d, i)
  BY DEF Whole
<1>2. /\ e \in Decays
      /\ \A j \in DecayIds : j # i => SameAt(d, e, j)
      /\ e.item[i] = [d.item[i] EXCEPT !.in = Nowhere]
      /\ Listed(e, i) = Listed(d, i)
      /\ e.toRelease[i] = d.toRelease[i] + 1 /\ e.full = d.full
      /\ e.bucket = d.bucket /\ e.last = d.last
  BY <1>1, TakenFields
<1> HIDE DEF e
<1>3. d.item[i] \in DecayItems
  BY <1>1, DecayFields
<1>4. /\ e.item[i].refs = d.item[i].refs /\ e.item[i].in = Nowhere /\ e.item[i].kind = d.item[i].kind
      /\ e.item[i].duration = d.item[i].duration /\ e.item[i].decaying = d.item[i].decaying
  BY <1>2, <1>3 DEF DecayItems
<1>5. d.item[i].refs \in Nat
  BY <1>3, ItemFields
<1>6. Listed(d, i) \in Nat /\ d.toRelease[i] \in Nat
  BY <1>1, ListedNat
<1>7. Counted(e, i)
  BY <1>1, <1>2, <1>4, <1>5, <1>6 DEF Counted
<1>8. d.item[i].refs > 0
  BY <1>1, <1>5, <1>6 DEF Counted
<1>9. e.item[i].refs > 0 /\ e.item[i].kind \in DecayKinds
  BY <1>1, <1>4, <1>8 DEF Kinded
<1>10. Whole(e)
  BY <1>2, <1>4, <1>7, <1>8, <1>9, OneChanged
<1>11. Doomed(e, i)
  BY <1>2, <1>4, <1>6 DEF Doomed
<1>12. Marked(d, i) => Marked(e, i)
  BY <1>2, <1>4 DEF Marked
<1>13. Kept(d, e)
  BY <1>2, <1>11, <1>12, SameAtKept DEF Kept
<1> QED
  BY <1>2, <1>10, <1>11, <1>13 DEF Follows, e

(* An item that changes where it is, with the references it has.            *)
LEMMA AlteredFields ==
    ASSUME NEW d \in Decays, NEW i \in DecayIds, NEW it \in DecayItems
    PROVE  LET e == [d EXCEPT !.item[i] = it]
           IN  /\ e \in Decays
               /\ \A j \in DecayIds : j # i => SameAt(d, e, j)
               /\ e.item[i] = it /\ Listed(e, i) = Listed(d, i)
               /\ e.toRelease = d.toRelease /\ e.full = d.full
               /\ e.bucket = d.bucket /\ e.last = d.last
<1> DEFINE e == [d EXCEPT !.item[i] = it]
<1>1. e \in Decays
  BY DEF Decays
<1>2. /\ e.item = [d.item EXCEPT ![i] = it] /\ e.toRelease = d.toRelease
      /\ e.toDecay = d.toDecay /\ e.full = d.full /\ e.bucket = d.bucket /\ e.last = d.last
  BY DecayFields DEF Decays
<1>3. ASSUME NEW j \in DecayIds PROVE Listed(e, j) = Listed(d, j)
  BY <1>2 DEF Listed
<1>4. ASSUME NEW j \in DecayIds, j # i PROVE SameAt(d, e, j)
  <2>1. e.item[j] = d.item[j]
    BY <1>2, <1>4, DecayFields
  <2> QED
    BY <2>1, <1>2, <1>3 DEF SameAt
<1>5. e.item[i] = it
  BY <1>2, DecayFields
<1> HIDE DEF e
<1>6. /\ e \in Decays
      /\ \A j \in DecayIds : j # i => SameAt(d, e, j)
      /\ e.item[i] = it /\ Listed(e, i) = Listed(d, i)
      /\ e.toRelease = d.toRelease /\ e.full = d.full
      /\ e.bucket = d.bucket /\ e.last = d.last
  BY <1>1, <1>2, <1>3, <1>4, <1>5
<1> QED
  BY <1>6 DEF e

(* ... and the counts stay right.                                           *)
LEMMA AlteredWhole ==
    ASSUME NEW d, Whole(d), NEW i \in DecayIds, NEW it \in DecayItems, d.item[i].refs > 0,
           it.refs = d.item[i].refs, it.in = d.item[i].in, it.kind \in DecayKinds
    PROVE  Whole([d EXCEPT !.item[i] = it])
<1> DEFINE e == [d EXCEPT !.item[i] = it]
<1>1. d \in Decays /\ Counted(d, i)
  BY DEF Whole
<1>2. /\ e \in Decays
      /\ \A j \in DecayIds : j # i => SameAt(d, e, j)
      /\ e.item[i] = it /\ Listed(e, i) = Listed(d, i)
      /\ e.toRelease = d.toRelease
  BY <1>1, AlteredFields
<1> HIDE DEF e
<1>3. Counted(e, i)
  BY <1>1, <1>2 DEF Counted
<1>4. Whole(e)
  BY <1>2, <1>3, OneChanged
<1> QED
  BY <1>4 DEF e

(* ... and follows when a mark stays only with what is left of the time.    *)
LEMMA AlteredFollows ==
    ASSUME NEW d, Whole(d), NEW i \in DecayIds, NEW it \in DecayItems, d.item[i].refs > 0,
           it.refs = d.item[i].refs, it.in = d.item[i].in, it.kind \in DecayKinds,
           it.decaying => d.item[i].decaying /\ it.duration = d.item[i].duration
    PROVE  Follows(d, [d EXCEPT !.item[i] = it])
<1> DEFINE e == [d EXCEPT !.item[i] = it]
<1>1. d \in Decays
  BY DEF Whole
<1>2. /\ e \in Decays
      /\ \A j \in DecayIds : j # i => SameAt(d, e, j)
      /\ e.item[i] = it /\ Listed(e, i) = Listed(d, i)
      /\ e.toRelease = d.toRelease /\ e.full = d.full
      /\ e.bucket = d.bucket /\ e.last = d.last
  BY <1>1, AlteredFields
<1>3. Whole(e)
  BY AlteredWhole
<1> HIDE DEF e
<1>4. (Marked(d, i) => Marked(e, i)) /\ (Doomed(d, i) => Doomed(e, i))
  BY <1>2 DEF Marked, Doomed
<1>5. Kept(d, e)
  BY <1>2, <1>4, SameAtKept DEF Kept
<1> QED
  BY <1>2, <1>3, <1>5 DEF Follows, e

(* Item::setID: it starts anew, is done with decaying, or goes on as before.*)
LEMMA SetIDFields ==
    ASSUME NEW it \in DecayItems, NEW kind \in DecayKinds
    PROVE  /\ SetID(it, kind) \in DecayItems
           /\ SetID(it, kind).refs = it.refs /\ SetID(it, kind).in = it.in /\ SetID(it, kind).kind = kind
           /\ SetID(it, kind).decaying => it.decaying /\ SetID(it, kind).duration = it.duration
           /\ \/ DecayTime[kind] > 0 /\ it.kind \notin StopTime
              \/ DecayTime[kind] = 0 /\ kind \notin StopTime /\ DecayTo[kind] = "never"
              => ~SetID(it, kind).decaying
<1> DEFINE forgets == DecayTime[kind] = 0 /\ kind \notin StopTime /\ DecayTo[kind] = "never"
           a == IF forgets THEN [it EXCEPT !.decaying = FALSE, !.timed = FALSE, !.duration = 0] ELSE it
           resets == DecayTime[kind] > 0 /\ (it.kind \notin StopTime \/ ~a.timed)
           b == IF resets
                THEN [a EXCEPT !.decaying = FALSE, !.timed = TRUE, !.duration = DecayTime[kind]] ELSE a
           c == [b EXCEPT !.kind = kind]
<1>1. DecayTime[kind] \in Nat
  BY DecayConstants
<1>2. a \in DecayItems /\ a.refs = it.refs /\ a.in = it.in
      /\ (a.decaying => it.decaying /\ a.duration = it.duration /\ ~forgets)
  BY DEF DecayItems
<1> HIDE DEF a
<1>3. b \in DecayItems /\ b.refs = it.refs /\ b.in = it.in
      /\ (b.decaying => it.decaying /\ b.duration = it.duration /\ ~forgets /\ ~resets)
  BY <1>1, <1>2 DEF DecayItems
<1> HIDE DEF b
<1>4. c \in DecayItems /\ c.refs = it.refs /\ c.in = it.in /\ c.kind = kind
      /\ (c.decaying => it.decaying /\ c.duration = it.duration /\ ~forgets /\ ~resets)
  BY <1>3 DEF DecayItems
<1>5. c = SetID(it, kind)
  BY DEF SetID, a, b
<1> HIDE DEF c
<1> QED
  BY <1>1, <1>4, <1>5

(* A new object, where another one lies.                                    *)
LEMMA BornFollows ==
    ASSUME NEW d, Whole(d), NEW n \in DecayIds, d.item[n] = Unborn, NEW kind \in DecayKinds,
           NEW in \in DecayIds \cup {World},
           in \in DecayIds => d.item[in].refs > 0 /\ d.item[in].in \notin DecayIds,
           NEW it \in DecayItems, it.refs = 1, it.in = in, it.kind = kind
    PROVE  LET e == [d EXCEPT !.item[n] = it]
           IN  /\ Whole(e) /\ e.full = d.full /\ e.bucket = d.bucket /\ e.last = d.last
               /\ e.item[n] = it /\ e.toRelease = d.toRelease
               /\ \A j \in DecayIds : j # n => SameAt(d, e, j)
               /\ ~Doomed(d, n)
<1> DEFINE e == [d EXCEPT !.item[n] = it]
<1>1. d \in Decays /\ \A j \in DecayIds : Counted(d, j) /\ Kinded(d, j) /\ Housed(d, j)
  BY DEF Whole
<1>2. World \notin DecayIds /\ Nowhere \notin DecayIds /\ World # Nowhere
  BY DecayConstants
<1>3. /\ e \in Decays
      /\ \A j \in DecayIds : j # n => SameAt(d, e, j)
      /\ e.item[n] = it /\ Listed(e, n) = Listed(d, n)
      /\ e.toRelease = d.toRelease /\ e.full = d.full
      /\ e.bucket = d.bucket /\ e.last = d.last
  BY <1>1, AlteredFields
<1> HIDE DEF e
<1>4. d.item[n].refs = 0 /\ d.item[n].in = Nowhere
  BY DEF Unborn
<1>5. d.toRelease[n] = 0 /\ Listed(d, n) = 0
  <2>1. d.toRelease[n] \in Nat /\ Listed(d, n) \in Nat
    BY <1>1, ListedNat
  <2>2. Counted(d, n)
    BY <1>1
  <2> QED
    BY <1>4, <2>1, <2>2 DEF Counted
<1>6. ASSUME NEW j \in DecayIds PROVE Counted(e, j)
  <2>1. CASE j = n
    <3>1. e.item[n].refs = 1 /\ e.item[n].in # Nowhere /\ e.toRelease[n] = 0 /\ Listed(e, n) = 0
      <4>1. in # Nowhere
        BY <1>2
      <4> QED
        BY <4>1, <1>3, <1>5
    <3>2. Counted(e, n)
      BY <3>1 DEF Counted
    <3> QED
      BY <2>1, <3>2
  <2>2. CASE j # n
    BY <2>2, <1>1, <1>3 DEF Counted, SameAt
  <2> QED
    BY <2>1, <2>2
<1>7. ASSUME NEW j \in DecayIds PROVE Kinded(e, j)
  BY <1>1, <1>3 DEF Kinded, SameAt
<1>8. ASSUME NEW j \in DecayIds PROVE Housed(e, j)
  <2>1. CASE j = n
    <3>1. in # n
      BY <1>4
    <3>2. in \in DecayIds => e.item[in].refs > 0 /\ e.item[in].in \notin DecayIds
      BY <1>3, <3>1 DEF SameAt
    <3> QED
      BY <2>1, <1>3, <3>2 DEF Housed
  <2>2. CASE j # n
    <3>1. d.item[j].in # n
      BY <1>1, <1>4 DEF Housed
    <3> QED
      BY <2>2, <1>1, <1>3, <3>1 DEF Housed, SameAt
  <2> QED
    BY <2>1, <2>2
<1>9. Whole(e)
  BY <1>3, <1>6, <1>7, <1>8 DEF Whole
<1>10. ~Doomed(d, n)
  BY <1>5 DEF Doomed
<1> QED
  BY <1>3, <1>9, <1>10 DEF e

(* The state that has no object left: as before, but for that.              *)
LEMMA FullFollows ==
    ASSUME NEW d, Whole(d)
    PROVE  Follows(d, [d EXCEPT !.full = TRUE]) /\ [d EXCEPT !.full = TRUE].full
<1> DEFINE e == [d EXCEPT !.full = TRUE]
<1>1. d \in Decays
  BY DEF Whole
<1>2. e \in Decays /\ e.item = d.item /\ e.toRelease = d.toRelease /\ e.toDecay = d.toDecay
      /\ e.bucket = d.bucket /\ e.last = d.last /\ e.full
  BY <1>1 DEF Decays
<1> HIDE DEF e
<1>3. ASSUME NEW j \in DecayIds PROVE SameAt(d, e, j)
  BY <1>2 DEF SameAt, Listed
<1>4. Whole(e)
  BY <1>2, <1>3 DEF Whole, Counted, Kinded, Housed, SameAt
<1>5. Kept(d, e)
  BY <1>2, <1>3, SameAtKept DEF Kept
<1> QED
  BY <1>2, <1>4, <1>5 DEF Follows, e

(* transformItem by a new object.                                           *)
LEMMA ReplacedFollows ==
    ASSUME NEW d, Whole(d), NEW i \in DecayIds, InWorld(d, i), NEW kind \in DecayKinds, Fresh(d) # {}
    PROVE  /\ Follows(d, Replaced(d, i, kind).d) /\ Replaced(d, i, kind).new \in DecayIds
           /\ Doomed(Replaced(d, i, kind).d, i)
<1> DEFINE n == CHOOSE n \in Fresh(d) : TRUE
<1>1. n \in Fresh(d)
  OBVIOUS
<1> HIDE DEF n
<1>2. n \in DecayIds /\ d.item[n] = Unborn
  BY <1>1 DEF Fresh
<1> DEFINE in == d.item[i].in
           it == Born(kind, in)
           e == [d EXCEPT !.item[n] = it]
           f == Taken(e, i)
<1>3. d \in Decays /\ Housed(d, i)
  BY DEF Whole
<1>4. d.item[i].refs > 0 /\ in \in DecayIds \cup {World}
  BY InWorldThere
<1>5. in \in DecayIds => d.item[in].refs > 0 /\ d.item[in].in \notin DecayIds
  BY <1>3 DEF Housed
<1>6. it \in DecayItems /\ it.refs = 1 /\ it.in = in /\ it.kind = kind /\ it.decaying = FALSE
      /\ it.duration = DecayTime[kind]
  BY <1>4, DecayConstants DEF Born, DecayItems
<1> HIDE DEF it, in
<1>7. /\ Whole(e) /\ e.full = d.full /\ e.bucket = d.bucket /\ e.last = d.last
      /\ e.item[n] = it /\ e.toRelease = d.toRelease
      /\ \A j \in DecayIds : j # n => SameAt(d, e, j)
      /\ ~Doomed(d, n)
  BY <1>2, <1>4, <1>5, <1>6, BornFollows
<1>8. Follows(d, e)
  <2>1. Marked(e, n)
    BY <1>6, <1>7 DEF Marked
  <2>2. Kept(d, e)
    BY <1>7, <2>1, SameAtKept DEF Kept
  <2> QED
    BY <1>7, <2>2 DEF Follows
<1>9. i # n /\ e.item[i].in # Nowhere
  <2>1. i # n
    BY <1>2, <1>4 DEF Unborn
  <2>2. e.item[i].in = in
    BY <1>7, <2>1 DEF SameAt, in
  <2>3. in # Nowhere
    BY <1>4, DecayConstants
  <2> QED
    BY <2>1, <2>2, <2>3
<1>10. Follows(e, f) /\ Doomed(f, i)
  BY <1>7, <1>9, TakenFollows
<1>11. f.item[n] = it
  <2>1. e \in Decays
    BY <1>7 DEF Whole
  <2>2. SameAt(e, f, n)
    BY <1>2, <1>9, <2>1, TakenFields
  <2> QED
    BY <1>7, <2>2 DEF SameAt
<1>12. Replaced(d, i, kind) = [d |-> IF DecayTime[kind] > 0 THEN List(f, n) ELSE f, new |-> n]
  BY DEF Replaced, n, in, it
<1> HIDE DEF e, f
<1>13. Follows(d, f)
  BY <1>8, <1>10, FollowsOn
<1>14. CASE DecayTime[kind] > 0
  <2>1. Follows(f, List(f, n))
    BY <1>2, <1>6, <1>11, <1>14, <1>13, ListFollows DEF Follows
  <2>2. Doomed(List(f, n), i)
    BY <1>10, <2>1 DEF Follows, Kept
  <2>3. Follows(d, List(f, n))
    BY <1>13, <2>1, FollowsOn
  <2>4. Replaced(d, i, kind).d = List(f, n) /\ Replaced(d, i, kind).new = n
    BY <1>12, <1>14
  <2> QED
    BY <1>2, <2>2, <2>3, <2>4
<1>15. CASE ~(DecayTime[kind] > 0)
  <2>1. Replaced(d, i, kind).d = f /\ Replaced(d, i, kind).new = n
    BY <1>12, <1>15
  <2> QED
    BY <1>2, <1>10, <1>13, <2>1
<1> QED
  BY <1>14, <1>15

(* What a step of the chain leaves: i is marked, waits for its release, or  *)
(* there was no object left.                                                *)
Settled(d, i) == d.full \/ Marked(d, i) \/ Doomed(d, i)

Transformed(d, t) ==
    /\ Follows(d, t.d) /\ t.new \in DecayIds

(* What decays in place starts anew or is done with decaying.               *)
LEMMA InPlace ==
    ASSUME NEW from \in DecayKinds, NEW to \in DecayKinds, DecayTime[from] > 0, to = DecayTo[from],
           to \notin {"gone", "never"}, Group[from] = Group[to]
    PROVE  /\ to # from
           /\ \/ DecayTime[to] > 0 /\ from \notin StopTime
              \/ DecayTime[to] = 0 /\ to \notin StopTime /\ DecayTo[to] = "never"
BY DecayAssumption DEF DecayAssumption

(* Game::transformItem.                                                     *)
LEMMA TransformFollows ==
    ASSUME NEW d, Whole(d), NEW i \in DecayIds, InWorld(d, i), NEW kind \in DecayKinds
    PROVE  /\ Transformed(d, TransformDecayed(d, i, kind))
           /\ DecayTime[d.item[i].kind] > 0 /\ kind = DecayTo[d.item[i].kind] /\ kind \notin {"gone", "never"}
              => Settled(TransformDecayed(d, i, kind).d, i)
<1> DEFINE from == d.item[i].kind
           t == TransformDecayed(d, i, kind)
<1>1. d \in Decays /\ d.item[i].refs > 0 /\ from \in DecayKinds
  BY InWorldThere DEF Whole
<1>2. CASE from = kind
  <2>1. t = [d |-> d, new |-> i]
    BY <1>2 DEF TransformDecayed
  <2>2. ~(DecayTime[from] > 0 /\ kind = DecayTo[from] /\ kind \notin {"gone", "never"})
    BY <1>1, <1>2, InPlace
  <2> QED
    BY <2>1, <2>2, FollowsSelf DEF Transformed
<1>3. CASE from # kind /\ Group[from] = Group[kind]
  <2> DEFINE it == SetID(d.item[i], kind)
             e == [d EXCEPT !.item[i] = it]
  <2>1. t = [d |-> e, new |-> i]
    <3>1. e = [d EXCEPT !.item[i] = SetID(@, kind)]
      BY <1>1 DEF Decays
    <3> QED
      BY <1>3, <3>1 DEF TransformDecayed
  <2>2. d.item[i] \in DecayItems
    BY <1>1, DecayFields
  <2>3. /\ it \in DecayItems
        /\ it.refs = d.item[i].refs /\ it.in = d.item[i].in /\ it.kind = kind
        /\ it.decaying => d.item[i].decaying /\ it.duration = d.item[i].duration
        /\ \/ DecayTime[kind] > 0 /\ from \notin StopTime
           \/ DecayTime[kind] = 0 /\ kind \notin StopTime /\ DecayTo[kind] = "never"
           => ~it.decaying
    BY <2>2, SetIDFields
  <2> HIDE DEF it
  <2>4. Follows(d, e)
    BY <1>1, <2>3, AlteredFollows
  <2>5. ASSUME DecayTime[from] > 0, kind = DecayTo[from], kind \notin {"gone", "never"} PROVE Settled(e, i)
    <3>1. \/ DecayTime[kind] > 0 /\ from \notin StopTime
          \/ DecayTime[kind] = 0 /\ kind \notin StopTime /\ DecayTo[kind] = "never"
      BY <1>1, <1>3, <2>5, InPlace
    <3>2. e.item[i] = it
      BY <1>1, <2>3, AlteredFields
    <3> QED
      BY <2>3, <3>1, <3>2 DEF Settled, Marked
  <2> HIDE DEF e
  <2> QED
    BY <2>1, <2>4, <2>5 DEF Transformed
<1>4. CASE from # kind /\ Group[from] # Group[kind] /\ Fresh(d) = {}
  <2> DEFINE e == [d EXCEPT !.full = TRUE]
  <2>1. t = [d |-> e, new |-> i]
    BY <1>4 DEF TransformDecayed
  <2>2. Follows(d, e) /\ e.full
    BY FullFollows
  <2> HIDE DEF e
  <2>3. Settled(e, i)
    BY <2>2, Zenon DEF Settled
  <2> QED
    BY <2>1, <2>2, <2>3 DEF Transformed
<1>5. CASE from # kind /\ Group[from] # Group[kind] /\ Fresh(d) # {}
  <2>1. t = Replaced(d, i, kind)
    BY <1>5 DEF TransformDecayed
  <2> QED
    BY <1>5, <2>1, ReplacedFollows DEF Transformed, Settled
<1> QED
  BY <1>2, <1>3, <1>4, <1>5

(* internalRemoveItem.                                                      *)
LEMMA RemoveFollows ==
    ASSUME NEW d, Whole(d), NEW i \in DecayIds
    PROVE  Follows(d, RemoveDecayed(d, i)) /\ (InWorld(d, i) => Doomed(RemoveDecayed(d, i), i))
<1>1. CASE InWorld(d, i)
  <2>1. d.item[i].in # Nowhere
    BY <1>1, InWorldThere
  <2> QED
    BY <1>1, <2>1, TakenFollows DEF RemoveDecayed
<1>2. CASE ~InWorld(d, i)
  BY <1>2, FollowsSelf DEF RemoveDecayed
<1> QED
  BY <1>1, <1>2

(* internalDecayItem, up to the startDecay that follows.                    *)
LEMMA DecayedFollows ==
    ASSUME NEW d, Whole(d), NEW i \in DecayIds, CanDecay(d, i)
    PROVE  Transformed(d, Decayed(d, i)) /\ Settled(Decayed(d, i).d, i)
<1> DEFINE from == d.item[i].kind
           to == DecayTo[from]
<1>1. InWorld(d, i) /\ to # "never" /\ DecayTime[from] > 0
  BY DEF CanDecay
<1>2. from \in DecayKinds
  BY <1>1, InWorldThere
<1>3. to \in DecayKinds \cup {"gone", "never"}
  BY <1>2, DecayConstants
<1>4. CASE to = "gone"
  <2> DEFINE e == RemoveDecayed(d, i)
  <2>1. Decayed(d, i) = [d |-> e, new |-> i]
    BY <1>4 DEF Decayed
  <2>2. Follows(d, e) /\ Doomed(e, i)
    BY <1>1, RemoveFollows
  <2> HIDE DEF e
  <2> QED
    BY <2>1, <2>2 DEF Transformed, Settled
<1>5. CASE to # "gone"
  <2>1. Decayed(d, i) = TransformDecayed(d, i, to)
    BY <1>5 DEF Decayed
  <2>2. to \in DecayKinds /\ to \notin {"gone", "never"}
    BY <1>1, <1>3, <1>5
  <2> QED
    BY <1>1, <2>1, <2>2, TransformFollows
<1> QED
  BY <1>4, <1>5

(* One more startDecay.                                                     *)
LEMMA FurtherFollows ==
    ASSUME NEW t, Whole(t.d), t.new \in DecayIds
    PROVE  Transformed(t.d, Further(t))
<1> DEFINE d == t.d
           i == t.new
<1>1. CASE ~CanDecay(d, i) \/ d.item[i].decaying
  <2>1. Further(t) = t
    BY <1>1 DEF Further
  <2> QED
    BY <2>1, FollowsSelf DEF Transformed
<1>2. CASE CanDecay(d, i) /\ ~d.item[i].decaying /\ d.item[i].duration > 0
  <2>1. Further(t) = [d |-> List(d, i), new |-> i]
    BY <1>2 DEF Further
  <2>2. d.item[i].refs > 0
    BY <1>2, InWorldThere DEF CanDecay
  <2>3. Follows(d, List(d, i))
    BY <1>2, <2>2, ListFollows
  <2> QED
    BY <2>1, <2>3 DEF Transformed
<1>3. CASE CanDecay(d, i) /\ ~d.item[i].decaying /\ ~(d.item[i].duration > 0)
  <2>1. Further(t) = Decayed(d, i)
    BY <1>3 DEF Further
  <2> HIDE DEF d, i
  <2>2. Transformed(d, Decayed(d, i))
    <3>1. Whole(d) /\ i \in DecayIds /\ CanDecay(d, i)
      BY <1>3 DEF d, i
    <3> QED
      BY <3>1, DecayedFollows
  <2> QED
    BY <2>1, <2>2 DEF d, i
<1> QED
  BY <1>1, <1>2, <1>3

-----------------------------------------------------------------------------
(* What the two loops over decaying items do at one place.                  *)
LoopStep(kind, b, d, i) == IF kind = "visit" THEN Visit(d, b, i) ELSE Further(d)

LoopSolves(kind, b, base, list, f) ==
    f = [s \in SUBSET (DOMAIN list) |->
            IF s = {} THEN base ELSE LoopStep(kind, b, f[s \ {Max(s)}], list[Max(s)])]

LoopTrace(kind, b, base, list, t) ==
    /\ t[0] = base
    /\ \A n \in 1..Len(list) : t[n] = LoopStep(kind, b, t[n - 1], list[n])

(* The same equations for the first n places.                               *)
PartSolves(kind, b, base, list, n, f) ==
    f = [s \in SUBSET (1..n) |->
            IF s = {} THEN base ELSE LoopStep(kind, b, f[s \ {Max(s)}], list[Max(s)])]

(* One place more.                                                          *)
LEMMA LoopLonger ==
    ASSUME NEW kind, NEW b, NEW base, NEW list, NEW n \in Nat, NEW f, PartSolves(kind, b, base, list, n, f)
    PROVE  \E h : PartSolves(kind, b, base, list, n + 1, h)
<1> DEFINE op(d, i) == LoopStep(kind, b, d, i)
           h == [s \in SUBSET (1..(n + 1)) |->
                     IF n + 1 \in s THEN op(f[s \ {n + 1}], list[n + 1]) ELSE f[s]]
<1>0. \A s \in SUBSET (1..n) : f[s] = IF s = {} THEN base ELSE op(f[s \ {Max(s)}], list[Max(s)])
  BY DEF PartSolves
<1> HIDE DEF op
<1>1. ASSUME NEW s \in SUBSET (1..(n + 1)), n + 1 \in s
      PROVE  s \ {n + 1} \in SUBSET (1..n) /\ Max(s) = n + 1
  <2>1. s \ {n + 1} \in SUBSET (1..n)
    OBVIOUS
  <2>2. n + 1 \in Nat
    OBVIOUS
  <2> QED
    BY <1>1, <2>1, <2>2, MaxIs
<1>2. ASSUME NEW s \in SUBSET (1..(n + 1)), n + 1 \notin s
      PROVE  s \in SUBSET (1..n) /\ \A x : s \ {x} \in SUBSET (1..n) /\ s \ {x} \in SUBSET (1..(n + 1)) /\ n + 1 \notin s \ {x}
  <2>1. ASSUME NEW i \in s PROVE i \in 1..n
    BY <1>2
  <2> QED
    BY <2>1, <1>2
<1>3. \A s \in SUBSET (1..(n + 1)) : h[s] = IF n + 1 \in s THEN op(f[s \ {n + 1}], list[n + 1]) ELSE f[s]
  OBVIOUS
<1>4. h = [s \in SUBSET (1..(n + 1)) |-> h[s]]
  OBVIOUS
<1> HIDE DEF h
<1>5. ASSUME NEW s \in SUBSET (1..(n + 1))
      PROVE  h[s] = IF s = {} THEN base ELSE op(h[s \ {Max(s)}], list[Max(s)])
  <2>1. CASE n + 1 \in s
    <3>1. s \ {n + 1} \in SUBSET (1..(n + 1)) /\ n + 1 \notin s \ {n + 1}
      OBVIOUS
    <3>2. h[s \ {n + 1}] = f[s \ {n + 1}] /\ h[s] = op(f[s \ {n + 1}], list[n + 1])
      BY <2>1, <3>1, <1>3
    <3> QED
      BY <2>1, <1>1, <3>2
  <2>2. CASE n + 1 \notin s
    <3>1. s \in SUBSET (1..n) /\ h[s] = f[s]
      BY <2>2, <1>2, <1>3
    <3>2. h[s \ {Max(s)}] = f[s \ {Max(s)}]
      BY <2>2, <1>2, <1>3
    <3>3. f[s] = IF s = {} THEN base ELSE op(f[s \ {Max(s)}], list[Max(s)])
      BY <1>0, <3>1
    <3> QED
      BY <3>1, <3>2, <3>3
  <2> QED
    BY <2>1, <2>2
<1>6. h = [s \in SUBSET (1..(n + 1)) |-> IF s = {} THEN base ELSE op(h[s \ {Max(s)}], list[Max(s)])]
  BY <1>4, <1>5, Zenon
<1>7. PartSolves(kind, b, base, list, n + 1, h)
  BY <1>6, Zenon DEF PartSolves, op
<1> QED
  BY <1>7

(* So a loop has a solution, whatever its steps do.                         *)
LEMMA LoopExists ==
    ASSUME NEW kind, NEW b, NEW base, NEW L \in Nat, NEW list, DOMAIN list = 1..L
    PROVE  \E f : LoopSolves(kind, b, base, list, f)
<1> DEFINE P(n) == \E f : PartSolves(kind, b, base, list, n, f)
           S == {n \in 0..L : P(n)}
<1>1. P(0)
  <2> DEFINE op(d, i) == LoopStep(kind, b, d, i)
             f == [s \in SUBSET (1..0) |-> base]
  <2> HIDE DEF op
  <2>1. \A s \in SUBSET (1..0) : s = {}
    OBVIOUS
  <2>2. f = [s \in SUBSET (1..0) |-> IF s = {} THEN base ELSE op(f[s \ {Max(s)}], list[Max(s)])]
    BY <2>1
  <2>3. PartSolves(kind, b, base, list, 0, f)
    BY <2>2, Zenon DEF PartSolves, op
  <2> QED
    BY <2>3
<1>2. ASSUME NEW n \in 1..L, n - 1 \in S PROVE n \in S
  <2>1. n - 1 \in Nat /\ (n - 1) + 1 = n /\ n \in 0..L
    OBVIOUS
  <2>2. P(n - 1)
    BY <1>2
  <2>3. P((n - 1) + 1)
    BY <2>1, <2>2, LoopLonger
  <2>4. P(n)
    BY <2>1, <2>3
  <2> QED
    BY <2>1, <2>4
<1>3. L \in S
  <2>1. 0 \in S
    BY <1>1
  <2> HIDE DEF S
  <2> QED
    BY <1>2, <2>1, CountUp
<1>4. P(L)
  BY <1>3
<1> QED
  BY <1>4, Zenon DEF PartSolves, LoopSolves

(* A solution can be counted through.                                       *)
LEMMA LoopTraced ==
    ASSUME NEW kind, NEW b, NEW base, NEW L \in Nat, NEW list, DOMAIN list = 1..L, L = Len(list),
           NEW h, LoopSolves(kind, b, base, list, h)
    PROVE  \E t : LoopTrace(kind, b, base, list, t) /\ h[DOMAIN list] = t[L]
<1> DEFINE t == [n \in 0..L |-> h[1..n]]
<1>2. ASSUME NEW s \in SUBSET (DOMAIN list)
      PROVE  h[s] = IF s = {} THEN base ELSE LoopStep(kind, b, h[s \ {Max(s)}], list[Max(s)])
  BY DEF LoopSolves
<1>3. t[0] = base
  <2>1. 1..0 = {} /\ {} \in SUBSET (DOMAIN list) /\ 0 \in 0..L
    OBVIOUS
  <2> QED
    BY <2>1, <1>2
<1>4. ASSUME NEW n \in 1..L PROVE t[n] = LoopStep(kind, b, t[n - 1], list[n])
  <2>1. n \in 0..L /\ n - 1 \in 0..L
    OBVIOUS
  <2>2. t[n] = h[1..n] /\ t[n - 1] = h[1..(n - 1)]
    BY <2>1
  <2>3. h[1..n] = LoopStep(kind, b, h[1..(n - 1)], list[n])
    BY <1>2, Stretches
  <2> QED
    BY <2>2, <2>3
<1>5. h[DOMAIN list] = t[L]
  OBVIOUS
<1> HIDE DEF t
<1> QED
  BY <1>3, <1>4, <1>5 DEF LoopTrace

(* With, written out: a step with the state evaluated once is the step.     *)
OnceFurther(t) == CHOOSE r \in {Further(v) : v \in {t}} : TRUE
(* ... for startDecay.                                                      *)
LEMMA OnceFurtherIs ==
    ASSUME NEW t
    PROVE  OnceFurther(t) = Further(t)
  BY Zenon DEF OnceFurther
ChainSolves(base, list, f) ==
    f = [s \in SUBSET (DOMAIN list) |-> IF s = {} THEN base ELSE OnceFurther(f[s \ {Max(s)}])]

(* What the fold of startDecay and internalDecayItem stands for.            *)
LEMMA ToTheEndIs ==
    ASSUME NEW t
    PROVE  ToTheEnd(t) = (CHOOSE f : ChainSolves(t, DecayChain, f))[DOMAIN DecayChain].d
  BY Zenon DEF With, OnceFurther, ToTheEnd, ChainSolves, FoldLeft, MapThenFoldSet

(* The chain of decay is a finite list.                                     *)
LEMMA ChainIs == Len(DecayChain) \in Nat /\ DOMAIN DecayChain = 1..Len(DecayChain)
<1>1. Cardinality(DecayKinds) \in Nat
  BY DecayAssumption, FS_CardinalityType DEF DecayAssumption
<1>2. DecayChain \in Seq(Nat)
  BY <1>1 DEF DecayChain
<1> QED
  BY <1>2

(* startDecay and internalDecayItem, called by each other to the end.       *)
LEMMA ToTheEndFollows ==
    ASSUME NEW t, Whole(t.d), t.new \in DecayIds
    PROVE  Follows(t.d, ToTheEnd(t))
<1> DEFINE L == Len(DecayChain)
<1>1. L \in Nat /\ DOMAIN DecayChain = 1..L
  BY ChainIs
<1>2. ASSUME NEW f PROVE LoopSolves("chain", 0, t, DecayChain, f) <=> ChainSolves(t, DecayChain, f)
  <2>1. \A d, i : LoopStep("chain", 0, d, i) = OnceFurther(d)
    BY OnceFurtherIs, Zenon DEF LoopStep
  <2> QED
    BY <2>1, Zenon DEF LoopSolves, ChainSolves
<1>3. \E f : ChainSolves(t, DecayChain, f)
  BY <1>1, <1>2, LoopExists
<1>4. ChainSolves(t, DecayChain, CHOOSE f : ChainSolves(t, DecayChain, f))
  BY <1>3, Zenon
<1>5. PICK h : h = CHOOSE f : ChainSolves(t, DecayChain, f)
  OBVIOUS
<1>6. LoopSolves("chain", 0, t, DecayChain, h)
  BY <1>2, <1>4, <1>5
<1>7. PICK u : LoopTrace("chain", 0, t, DecayChain, u) /\ h[DOMAIN DecayChain] = u[L]
  BY <1>1, <1>6, LoopTraced
<1>8. ToTheEnd(t) = u[L].d
  BY <1>5, <1>7, ToTheEndIs
<1> DEFINE S == {n \in 0..L : Transformed(t.d, u[n])}
<1>9. 0 \in S
  <2>1. u[0] = t /\ 0 \in 0..L
    BY <1>1, <1>7 DEF LoopTrace
  <2> QED
    BY <2>1, FollowsSelf DEF Transformed
<1>10. ASSUME NEW n \in 1..L, n - 1 \in S PROVE n \in S
  <2>1. n \in 0..L
    BY <1>1
  <2>2. u[n] = Further(u[n - 1])
    BY <1>7 DEF LoopTrace, LoopStep
  <2>3. Transformed(t.d, u[n - 1])
    BY <1>10
  <2>4. Whole(u[n - 1].d) /\ u[n - 1].new \in DecayIds /\ Follows(t.d, u[n - 1].d)
    BY <2>3 DEF Transformed, Follows
  <2>5. Transformed(u[n - 1].d, u[n])
    BY <2>2, <2>4, FurtherFollows
  <2>6. Transformed(t.d, u[n])
    BY <2>4, <2>5, FollowsOn DEF Transformed
  <2> QED
    BY <2>1, <2>6
<1>11. L \in S
  <2> HIDE DEF S, L
  <2> QED
    BY <1>1, <1>9, <1>10, CountUp
<1>12. Transformed(t.d, u[L])
  BY <1>11
<1> QED
  BY <1>8, <1>12 DEF Transformed

(* Game::startDecay.                                                        *)
LEMMA StartDecayFollows ==
    ASSUME NEW d, Whole(d), NEW i \in DecayIds
    PROVE  Follows(d, StartDecay(d, i))
<1> DEFINE t == [d |-> d, new |-> i]
<1>1. t.d = d /\ t.new = i
  OBVIOUS
<1>2. StartDecay(d, i) = ToTheEnd(t)
  BY DEF StartDecay
<1> HIDE DEF t
<1> QED
  BY <1>1, <1>2, ToTheEndFollows

(* Game::internalDecayItem.                                                 *)
LEMMA InternalDecayFollows ==
    ASSUME NEW d, Whole(d), NEW i \in DecayIds, CanDecay(d, i)
    PROVE  Follows(d, InternalDecayItem(d, i)) /\ Settled(InternalDecayItem(d, i), i)
<1> DEFINE t == Decayed(d, i)
<1>1. InternalDecayItem(d, i) = ToTheEnd(t)
  BY Zenon DEF InternalDecayItem, With
<1>2. Transformed(d, t) /\ Settled(t.d, i)
  BY DecayedFollows
<1> HIDE DEF t
<1>3. Follows(d, t.d) /\ Whole(t.d) /\ t.new \in DecayIds
  BY <1>2 DEF Transformed, Follows
<1>4. Follows(t.d, ToTheEnd(t))
  BY <1>3, ToTheEndFollows
<1>5. Settled(ToTheEnd(t), i)
  BY <1>2, <1>4 DEF Settled, Follows, Kept
<1>6. Follows(d, ToTheEnd(t))
  BY <1>3, <1>4, FollowsOn
<1> QED
  BY <1>1, <1>5, <1>6

(* Who is in a list is there.                                               *)
LEMMA ListedThere ==
    ASSUME NEW d, Whole(d), NEW b \in Buckets, NEW i \in DecayIds, d.bucket[b][i] > 0
    PROVE  d.item[i].refs > 0 /\ d.item[i].kind \in DecayKinds
<1>1. d \in Decays /\ Counted(d, i) /\ Kinded(d, i)
  BY DEF Whole
<1>2. Listed(d, i) \in Nat /\ d.toRelease[i] \in Nat /\ d.bucket[b][i] \in Nat /\ d.bucket[b][i] <= Listed(d, i)
  BY <1>1, ListedNat
<1>3. d.item[i].refs > 0
  BY <1>1, <1>2 DEF Counted
<1> QED
  BY <1>1, <1>3 DEF Kinded

(* One entry less in bucket b.                                              *)
LEMMA UnlistFields ==
    ASSUME NEW d \in Decays, NEW b \in Buckets, NEW i \in DecayIds, d.bucket[b][i] > 0
    PROVE  LET e == Unlist(d, b, i)
           IN  /\ e \in Decays
               /\ e.item = d.item /\ e.toDecay = d.toDecay /\ e.toRelease = d.toRelease
               /\ e.full = d.full /\ e.last = d.last
               /\ \A c \in Buckets, j \in DecayIds :
                     e.bucket[c][j] = IF c = b /\ j = i THEN d.bucket[b][i] - 1 ELSE d.bucket[c][j]
               /\ \A j \in DecayIds : Listed(e, j) = IF j = i THEN Listed(d, i) - 1 ELSE Listed(d, j)
<1> DEFINE e == Unlist(d, b, i)
           new == [d.bucket EXCEPT ![b] = [d.bucket[b] EXCEPT ![i] = d.bucket[b][i] - 1]]
<1>1. d.bucket[b] \in [DecayIds -> Nat] /\ d.bucket[b][i] - 1 \in Nat /\ d.bucket \in [Buckets -> [DecayIds -> Nat]]
  BY DecayFields
<1>2. new \in [Buckets -> [DecayIds -> Nat]]
  BY <1>1
<1>3. \A c \in Buckets, j \in DecayIds :
         new[c][j] = IF c = b /\ j = i THEN d.bucket[b][i] - 1 ELSE d.bucket[c][j]
  BY <1>1
<1>4. e = [d EXCEPT !.bucket = new]
  BY DEF Unlist, Decays
<1> HIDE DEF new, e
<1>5. /\ e \in Decays /\ e.bucket = new
      /\ e.item = d.item /\ e.toDecay = d.toDecay /\ e.toRelease = d.toRelease
      /\ e.full = d.full /\ e.last = d.last
  BY <1>2, <1>4 DEF Decays
<1>6. ASSUME NEW j \in DecayIds PROVE Listed(e, j) = IF j = i THEN Listed(d, i) - 1 ELSE Listed(d, j)
  <2>1. 0 \in Buckets /\ 1 \in Buckets /\ 2 \in Buckets /\ 3 \in Buckets
    BY DEF Buckets
  <2>2. d.toDecay[j] \in Nat /\ \A c \in Buckets : d.bucket[c][j] \in Nat
    BY DecayFields
  <2>3. CASE j # i
    BY <2>1, <2>3, <1>3, <1>5 DEF Listed
  <2>4. CASE j = i
    <3>1. b = 0 \/ b = 1 \/ b = 2 \/ b = 3
      BY DEF Buckets
    <3>2. \A c \in Buckets : e.bucket[c][i] = IF c = b THEN d.bucket[c][i] - 1 ELSE d.bucket[c][i]
      BY <1>3, <1>5
    <3>3. /\ e.bucket[0][i] = IF 0 = b THEN d.bucket[0][i] - 1 ELSE d.bucket[0][i]
          /\ e.bucket[1][i] = IF 1 = b THEN d.bucket[1][i] - 1 ELSE d.bucket[1][i]
          /\ e.bucket[2][i] = IF 2 = b THEN d.bucket[2][i] - 1 ELSE d.bucket[2][i]
          /\ e.bucket[3][i] = IF 3 = b THEN d.bucket[3][i] - 1 ELSE d.bucket[3][i]
      BY <2>1, <3>2
    <3>4. /\ d.bucket[0][i] \in Nat /\ d.bucket[1][i] \in Nat /\ d.bucket[2][i] \in Nat /\ d.bucket[3][i] \in Nat
          /\ d.toDecay[i] \in Nat /\ e.toDecay[i] = d.toDecay[i]
      BY <2>1, <2>2, <2>4, <1>5
    <3> QED
      BY <2>4, <3>1, <3>3, <3>4 DEF Listed
  <2> QED
    BY <2>3, <2>4
<1> QED
  BY <1>3, <1>5, <1>6 DEF e

(* An entry that leaves the bucket, its reference to be released.           *)
LeftBy(d, e, b, i) ==
    /\ \A j \in DecayIds : j # i => SameAt(d, e, j)
    /\ e.item = d.item /\ e.toRelease[i] = d.toRelease[i] + 1
    /\ Listed(e, i) = Listed(d, i) - 1
    /\ e.full = d.full /\ e.last = d.last
    /\ \A j \in DecayIds : e.bucket[b][j] = IF j = i THEN d.bucket[b][i] - 1 ELSE d.bucket[b][j]
(* ... and the counts stay right.                                           *)
LEMMA DroppedWhole ==
    ASSUME NEW d, Whole(d), NEW b \in Buckets, NEW i \in DecayIds, d.bucket[b][i] > 0
    PROVE  Whole(Dropped(d, b, i)) /\ LeftBy(d, Dropped(d, b, i), b, i)
<1> DEFINE u == Unlist(d, b, i)
           e == Dropped(d, b, i)
<1>1. d \in Decays /\ Counted(d, i)
  BY DEF Whole
<1>2. /\ u \in Decays
      /\ u.item = d.item /\ u.toDecay = d.toDecay /\ u.toRelease = d.toRelease
      /\ u.full = d.full /\ u.last = d.last
      /\ \A c \in Buckets, j \in DecayIds :
            u.bucket[c][j] = IF c = b /\ j = i THEN d.bucket[b][i] - 1 ELSE d.bucket[c][j]
      /\ \A j \in DecayIds : Listed(u, j) = IF j = i THEN Listed(d, i) - 1 ELSE Listed(d, j)
  BY <1>1, UnlistFields
<1>3. e = [u EXCEPT !.toRelease[i] = @ + 1]
  BY DEF Dropped, ReleaseItem
<1> HIDE DEF u, e
<1>4. u.toRelease \in [DecayIds -> Nat]
  BY <1>2, DecayFields
<1>5. /\ e \in Decays /\ e.toRelease = [u.toRelease EXCEPT ![i] = @ + 1]
      /\ e.item = u.item /\ e.toDecay = u.toDecay /\ e.bucket = u.bucket
      /\ e.full = u.full /\ e.last = u.last
  <2>1. [u.toRelease EXCEPT ![i] = u.toRelease[i] + 1] \in [DecayIds -> Nat]
    BY <1>4
  <2>2. e = [u EXCEPT !.toRelease = [u.toRelease EXCEPT ![i] = u.toRelease[i] + 1]]
    BY <1>2, <1>3 DEF Decays
  <2> QED
    BY <1>2, <2>1, <2>2 DEF Decays
<1>6. \A j \in DecayIds : Listed(e, j) = Listed(u, j)
  BY <1>5 DEF Listed
<1>7. \A j \in DecayIds : e.toRelease[j] = IF j = i THEN d.toRelease[i] + 1 ELSE d.toRelease[j]
  BY <1>2, <1>4, <1>5
<1>8. \A j \in DecayIds : j # i => SameAt(d, e, j)
  BY <1>2, <1>5, <1>6, <1>7 DEF SameAt
<1>9. Listed(e, i) = Listed(d, i) - 1 /\ e.item = d.item /\ e.toRelease[i] = d.toRelease[i] + 1
  BY <1>2, <1>5, <1>6, <1>7
<1>10. Counted(e, i)
  <2>1. Listed(d, i) \in Nat /\ d.toRelease[i] \in Nat
    BY <1>1, ListedNat
  <2> QED
    BY <1>1, <1>9, <2>1 DEF Counted
<1>11. d.item[i].refs > 0 /\ d.item[i].kind \in DecayKinds
  BY ListedThere
<1>12. Whole(e)
  <2>1. e.item[i] = d.item[i]
    BY <1>9
  <2> QED
    BY <1>5, <1>8, <1>10, <1>11, <2>1, OneChanged
<1>13. LeftBy(d, e, b, i)
  BY <1>2, <1>5, <1>8, <1>9 DEF LeftBy
<1> QED
  BY <1>12, <1>13 DEF e

(* std::min.                                                                *)
LEMMA MinOfTwo ==
    ASSUME NEW m \in Nat, NEW n \in Nat
    PROVE  Min({m, n}) = IF m <= n THEN m ELSE n
<1> DEFINE k == IF m <= n THEN m ELSE n
<1>1. k \in {m, n} /\ \A y \in {m, n} : k <= y
  OBVIOUS
<1>2. \A x \in {m, n} : (\A y \in {m, n} : x <= y) => x = k
  OBVIOUS
<1> HIDE DEF k
<1>3. Min({m, n}) = k
  BY <1>1, <1>2, Zenon DEF Min
<1> QED
  BY <1>3 DEF k

(* The bucket that is due is one of the four.                               *)
LEMMA NewBucketIn ==
    ASSUME NEW b \in Buckets, NEW left \in Nat
    PROVE  NewBucket(b, left) \in Buckets
<1>1. (left + 1) \div 8 \in Int
  OBVIOUS
<1> QED
  BY <1>1 DEF NewBucket, Buckets, Round

(* What one place of the bucket does to the state.                          *)
Visited(d, e, b, i) ==
    /\ Whole(e) /\ e.last = d.last
    /\ \A j \in DecayIds : Settled(d, j) => Settled(e, j)
    /\ \A j \in DecayIds : e.bucket[b][j] >= d.bucket[b][j] - (IF j = i THEN 1 ELSE 0)

(* What is not touched stays settled.                                       *)
LEMMA SameSettled ==
    ASSUME NEW d, NEW e, NEW j, SameAt(d, e, j), d.full => e.full
    PROVE  Settled(d, j) => Settled(e, j)
BY SameAtKept DEF Settled

(* It cannot decay any more: not decaying.                                  *)
LEMMA ForgottenVisited ==
    ASSUME NEW d, Whole(d), NEW b \in Buckets, NEW i \in DecayIds, d.bucket[b][i] > 0
    PROVE  Visited(d, Forgotten(d, b, i), b, i)
<1> DEFINE it == [d.item[i] EXCEPT !.decaying = FALSE]
           a == [d EXCEPT !.item[i] = it]
           e == Dropped(a, b, i)
<1>1. d \in Decays /\ d.item[i].refs > 0 /\ d.item[i].kind \in DecayKinds
  BY ListedThere DEF Whole
<1>2. d.item[i] \in DecayItems
  BY <1>1, DecayFields
<1>3. /\ it \in DecayItems /\ it.refs = d.item[i].refs /\ it.in = d.item[i].in /\ it.kind = d.item[i].kind
      /\ it.decaying = FALSE
  BY <1>2 DEF DecayItems
<1>4. Forgotten(d, b, i) = e
  <2>1. a = [d EXCEPT !.item[i].decaying = FALSE]
    BY <1>1 DEF Decays
  <2> QED
    BY <2>1 DEF Forgotten
<1> HIDE DEF it
<1>5. Follows(d, a)
  BY <1>1, <1>3, AlteredFollows
<1>6. a.item[i] = it /\ \A j \in DecayIds : j # i => SameAt(d, a, j)
  BY <1>1, <1>3, AlteredFields
<1> HIDE DEF a
<1>7. Whole(a) /\ a.bucket = d.bucket /\ a.last = d.last /\ (d.full => a.full)
  BY <1>5 DEF Follows, Kept
<1>8. Whole(e) /\ LeftBy(a, e, b, i)
  BY <1>7, DroppedWhole
<1> HIDE DEF e
<1>9. Settled(e, i)
  BY <1>3, <1>6, <1>8 DEF LeftBy, Settled, Marked
<1>10. ASSUME NEW j \in DecayIds, j # i PROVE Settled(d, j) => Settled(e, j)
  <2>1. SameAt(d, a, j) /\ SameAt(a, e, j) /\ (a.full => e.full)
    BY <1>6, <1>8, <1>10 DEF LeftBy
  <2> QED
    BY <1>7, <2>1, SameSettled
<1>11. ASSUME NEW j \in DecayIds PROVE e.bucket[b][j] >= d.bucket[b][j] - (IF j = i THEN 1 ELSE 0)
  <2>1. d.bucket[b][j] \in Nat /\ d.bucket[b][i] \in Nat
    BY <1>1, DecayFields
  <2>2. e.bucket[b][j] = IF j = i THEN d.bucket[b][i] - 1 ELSE d.bucket[b][j]
    BY <1>7, <1>8 DEF LeftBy
  <2> QED
    BY <2>1, <2>2
<1>12. Visited(d, e, b, i)
  BY <1>7, <1>8, <1>9, <1>10, <1>11 DEF Visited, LeftBy
<1> QED
  BY <1>4, <1>12

(* Time went by, and some is left.                                          *)
Aged(d, i, left) == [d EXCEPT !.item[i].duration = left]
(* ... with everything else as it was.                                      *)
LEMMA AgedFields ==
    ASSUME NEW d, Whole(d), NEW b \in Buckets, NEW i \in DecayIds, d.bucket[b][i] > 0, NEW left \in Nat
    PROVE  /\ Whole(Aged(d, i, left)) /\ Aged(d, i, left).full = d.full
           /\ Aged(d, i, left).bucket = d.bucket /\ Aged(d, i, left).last = d.last
           /\ Aged(d, i, left).item[i] = [d.item[i] EXCEPT !.duration = left]
           /\ Listed(Aged(d, i, left), i) = Listed(d, i) /\ Aged(d, i, left).toRelease = d.toRelease
           /\ \A j \in DecayIds : j # i => SameAt(d, Aged(d, i, left), j)
<1> DEFINE it == [d.item[i] EXCEPT !.duration = left]
           a == [d EXCEPT !.item[i] = it]
<1>1. d \in Decays /\ d.item[i].refs > 0 /\ d.item[i].kind \in DecayKinds
  BY ListedThere DEF Whole
<1>2. d.item[i] \in DecayItems
  BY <1>1, DecayFields
<1>3. it \in DecayItems /\ it.refs = d.item[i].refs /\ it.in = d.item[i].in /\ it.kind = d.item[i].kind
  BY <1>2 DEF DecayItems
<1>4. a = Aged(d, i, left)
  BY <1>1 DEF Decays, Aged
<1> HIDE DEF it
<1>5. Whole(a)
  BY <1>1, <1>3, AlteredWhole
<1>6. /\ a.item[i] = it /\ \A j \in DecayIds : j # i => SameAt(d, a, j)
      /\ a.full = d.full /\ a.bucket = d.bucket /\ a.last = d.last /\ a.toRelease = d.toRelease
      /\ Listed(a, i) = Listed(d, i)
  BY <1>1, <1>3, AlteredFields
<1> HIDE DEF a
<1> QED
  BY <1>4, <1>5, <1>6 DEF it

(* Still decaying, in the same bucket.                                      *)
LEMMA AgedVisited ==
    ASSUME NEW d, Whole(d), NEW b \in Buckets, NEW i \in DecayIds, d.bucket[b][i] > 0,
           NEW left \in Nat, left > 0
    PROVE  Visited(d, Aged(d, i, left), b, i) /\ (Settled(d, i) => Settled(Aged(d, i, left), i))
<1> DEFINE a == Aged(d, i, left)
<1>1. /\ Whole(a) /\ a.full = d.full /\ a.bucket = d.bucket /\ a.last = d.last
      /\ a.item[i] = [d.item[i] EXCEPT !.duration = left]
      /\ Listed(a, i) = Listed(d, i) /\ a.toRelease = d.toRelease
      /\ \A j \in DecayIds : j # i => SameAt(d, a, j)
  BY AgedFields
<1> HIDE DEF a
<1>2. d \in Decays
  BY DEF Whole
<1>3. a.item[i].decaying = d.item[i].decaying /\ a.item[i].duration = left /\ a.item[i].in = d.item[i].in
  <2>1. d.item[i] \in DecayItems
    BY <1>2, DecayFields
  <2> QED
    BY <1>1, <2>1 DEF DecayItems
<1>4. Settled(d, i) => Settled(a, i)
  BY <1>1, <1>3 DEF Settled, Marked, Doomed
<1>5. ASSUME NEW j \in DecayIds PROVE Settled(d, j) => Settled(a, j)
  BY <1>1, <1>4, SameSettled
<1>6. ASSUME NEW j \in DecayIds PROVE a.bucket[b][j] >= d.bucket[b][j] - (IF j = i THEN 1 ELSE 0)
  <2>1. d.bucket[b][j] \in Nat
    BY <1>2, DecayFields
  <2> QED
    BY <1>1, <2>1
<1>7. Visited(d, a, b, i)
  BY <1>1, <1>5, <1>6 DEF Visited
<1> QED
  BY <1>4, <1>7 DEF a

(* Time is up: it decays.                                                   *)
LEMMA OverVisited ==
    ASSUME NEW d, Whole(d), NEW b \in Buckets, NEW i \in DecayIds, d.bucket[b][i] > 0,
           NEW left \in Nat, CanDecay(d, i)
    PROVE  Visited(d, InternalDecayItem(Dropped(Aged(d, i, left), b, i), i), b, i)
<1> DEFINE a == Aged(d, i, left)
           v == Dropped(a, b, i)
           e == InternalDecayItem(v, i)
<1>1. /\ Whole(a) /\ a.full = d.full /\ a.bucket = d.bucket /\ a.last = d.last
      /\ a.item[i] = [d.item[i] EXCEPT !.duration = left]
      /\ \A j \in DecayIds : j # i => SameAt(d, a, j)
  BY AgedFields
<1>2. d \in Decays
  BY DEF Whole
<1>3. a.item[i].kind = d.item[i].kind /\ a.item[i].in = d.item[i].in
  <2>1. d.item[i] \in DecayItems
    BY <1>2, DecayFields
  <2> QED
    BY <1>1, <2>1 DEF DecayItems
<1> HIDE DEF a
<1>4. Whole(v) /\ LeftBy(a, v, b, i)
  BY <1>1, DroppedWhole
<1> HIDE DEF v
<1>5. CanDecay(v, i)
  <2>1. v.item = a.item
    BY <1>4 DEF LeftBy
  <2>2. d.item[i].in # i
    <3>1. Housed(d, i)
      BY DEF Whole
    <3> QED
      BY <3>1 DEF Housed
  <2>3. InWorld(d, i) /\ d.item[i].in \in DecayIds \cup {World}
    BY InWorldThere DEF CanDecay
  <2>4. InWorld(v, i)
    <3>1. CASE d.item[i].in = World
      BY <1>3, <2>1, <3>1 DEF InWorld
    <3>2. CASE d.item[i].in # World
      <4>1. d.item[i].in > World /\ d.item[d.item[i].in].in = World
        BY <2>3, <3>2 DEF InWorld
      <4>2. v.item[d.item[i].in] = d.item[d.item[i].in]
        BY <1>1, <2>1, <2>2, <2>3, <3>2 DEF SameAt
      <4> QED
        BY <1>3, <2>1, <4>1, <4>2 DEF InWorld
    <3> QED
      BY <3>1, <3>2
  <2> QED
    BY <1>3, <2>1, <2>4 DEF CanDecay
<1>6. Follows(v, e) /\ Settled(e, i)
  BY <1>4, <1>5, InternalDecayFollows
<1> HIDE DEF e
<1>7. ASSUME NEW j \in DecayIds, j # i PROVE Settled(d, j) => Settled(e, j)
  <2>1. SameAt(d, a, j) /\ SameAt(a, v, j) /\ (a.full => v.full) /\ (d.full => a.full)
    BY <1>1, <1>4, <1>7 DEF LeftBy
  <2>2. Settled(d, j) => Settled(v, j)
    BY <2>1, SameSettled
  <2> QED
    BY <1>6, <2>2 DEF Settled, Follows, Kept
<1>8. ASSUME NEW j \in DecayIds PROVE e.bucket[b][j] >= d.bucket[b][j] - (IF j = i THEN 1 ELSE 0)
  <2>1. d.bucket[b][j] \in Nat /\ d.bucket[b][i] \in Nat
    BY <1>2, DecayFields
  <2>2. e.bucket[b][j] = IF j = i THEN d.bucket[b][i] - 1 ELSE d.bucket[b][j]
    BY <1>1, <1>4, <1>6 DEF LeftBy, Follows
  <2> QED
    BY <2>1, <2>2
<1>9. Visited(d, e, b, i)
  BY <1>1, <1>4, <1>6, <1>7, <1>8 DEF Visited, LeftBy, Follows
<1> QED
  BY <1>9 DEF e, v, a

(* On to the bucket that is due when its time is up.                        *)
LEMMA MovedVisited ==
    ASSUME NEW d, Whole(d), NEW b \in Buckets, NEW i \in DecayIds, d.bucket[b][i] > 0,
           NEW left \in Nat, left > 0, NEW nb \in Buckets, nb # b
    PROVE  Visited(d, [Unlist(Aged(d, i, left), b, i) EXCEPT !.bucket[nb][i] = @ + 1], b, i)
<1> DEFINE a == Aged(d, i, left)
           u == Unlist(a, b, i)
           e == [u EXCEPT !.bucket[nb][i] = @ + 1]
           new == [u.bucket EXCEPT ![nb] = [u.bucket[nb] EXCEPT ![i] = u.bucket[nb][i] + 1]]
<1>1. Whole(a) /\ a.bucket = d.bucket /\ Visited(d, a, b, i)
  BY AgedFields, AgedVisited
<1> HIDE DEF a
<1>2. a \in Decays /\ a.item[i].refs > 0 /\ a.item[i].kind \in DecayKinds
  BY <1>1, ListedThere DEF Whole
<1>3. /\ u \in Decays
      /\ u.item = a.item /\ u.toDecay = a.toDecay /\ u.toRelease = a.toRelease
      /\ u.full = a.full /\ u.last = a.last
      /\ \A c \in Buckets, j \in DecayIds :
            u.bucket[c][j] = IF c = b /\ j = i THEN a.bucket[b][i] - 1 ELSE a.bucket[c][j]
      /\ \A j \in DecayIds : Listed(u, j) = IF j = i THEN Listed(a, i) - 1 ELSE Listed(a, j)
  BY <1>1, <1>2, UnlistFields
<1> HIDE DEF u
<1>4. u.bucket[nb] \in [DecayIds -> Nat] /\ u.bucket[nb][i] + 1 \in Nat /\ u.bucket \in [Buckets -> [DecayIds -> Nat]]
  BY <1>3, DecayFields
<1>5. new \in [Buckets -> [DecayIds -> Nat]]
  BY <1>4
<1>6. \A c \in Buckets, j \in DecayIds :
         new[c][j] = IF c = nb /\ j = i THEN u.bucket[nb][i] + 1 ELSE u.bucket[c][j]
  BY <1>4
<1>7. e = [u EXCEPT !.bucket = new]
  BY <1>3 DEF Decays
<1> HIDE DEF new, e
<1>8. /\ e \in Decays /\ e.bucket = new
      /\ e.item = u.item /\ e.toDecay = u.toDecay /\ e.toRelease = u.toRelease
      /\ e.full = u.full /\ e.last = u.last
  BY <1>3, <1>5, <1>7 DEF Decays
<1>9. ASSUME NEW j \in DecayIds PROVE Listed(e, j) = Listed(a, j)
  <2>1. 0 \in Buckets /\ 1 \in Buckets /\ 2 \in Buckets /\ 3 \in Buckets
    BY DEF Buckets
  <2>2. a.toDecay[j] \in Nat /\ \A c \in Buckets : a.bucket[c][j] \in Nat
    BY <1>2, DecayFields
  <2>3. CASE j # i
    <3>1. \A c \in Buckets : e.bucket[c][j] = a.bucket[c][j]
      BY <2>3, <1>3, <1>6, <1>8
    <3> QED
      BY <2>1, <3>1, <1>3, <1>8 DEF Listed
  <2>4. CASE j = i
    <3>1. (b = 0 \/ b = 1 \/ b = 2 \/ b = 3) /\ (nb = 0 \/ nb = 1 \/ nb = 2 \/ nb = 3)
      BY DEF Buckets
    <3>2. \A c \in Buckets : e.bucket[c][i] = IF c = b THEN a.bucket[c][i] - 1
                                              ELSE IF c = nb THEN a.bucket[c][i] + 1 ELSE a.bucket[c][i]
      BY <1>3, <1>6, <1>8
    <3>3. /\ e.bucket[0][i] = IF 0 = b THEN a.bucket[0][i] - 1 ELSE IF 0 = nb THEN a.bucket[0][i] + 1 ELSE a.bucket[0][i]
          /\ e.bucket[1][i] = IF 1 = b THEN a.bucket[1][i] - 1 ELSE IF 1 = nb THEN a.bucket[1][i] + 1 ELSE a.bucket[1][i]
          /\ e.bucket[2][i] = IF 2 = b THEN a.bucket[2][i] - 1 ELSE IF 2 = nb THEN a.bucket[2][i] + 1 ELSE a.bucket[2][i]
          /\ e.bucket[3][i] = IF 3 = b THEN a.bucket[3][i] - 1 ELSE IF 3 = nb THEN a.bucket[3][i] + 1 ELSE a.bucket[3][i]
      BY <2>1, <3>2
    <3>4. /\ a.bucket[0][i] \in Nat /\ a.bucket[1][i] \in Nat /\ a.bucket[2][i] \in Nat /\ a.bucket[3][i] \in Nat
          /\ a.toDecay[i] \in Nat /\ e.toDecay[i] = a.toDecay[i]
      BY <2>1, <2>2, <2>4, <1>3, <1>8
    <3> QED
      BY <2>4, <3>1, <3>3, <3>4 DEF Listed
  <2> QED
    BY <2>3, <2>4
<1>10. ASSUME NEW j \in DecayIds PROVE SameAt(a, e, j)
  BY <1>3, <1>8, <1>9 DEF SameAt
<1>11. Counted(e, i)
  <2>1. Counted(a, i)
    BY <1>1 DEF Whole
  <2> QED
    BY <2>1, <1>10 DEF Counted, SameAt
<1>12. Whole(e)
  <2>1. e.item[i] = a.item[i]
    BY <1>3, <1>8
  <2> QED
    BY <1>1, <1>2, <1>8, <1>10, <1>11, <2>1, OneChanged
<1>13. ASSUME NEW j \in DecayIds PROVE Settled(d, j) => Settled(e, j)
  <2>1. Settled(a, j) => Settled(e, j)
    BY <1>3, <1>8, <1>10, SameSettled
  <2> QED
    BY <1>1, <2>1 DEF Visited
<1>14. ASSUME NEW j \in DecayIds PROVE e.bucket[b][j] >= d.bucket[b][j] - (IF j = i THEN 1 ELSE 0)
  <2>1. e.bucket[b][j] = IF j = i THEN d.bucket[b][i] - 1 ELSE d.bucket[b][j]
    BY <1>1, <1>3, <1>6, <1>8
  <2>2. d.bucket[b][j] \in Nat
    BY <1>1, <1>2, DecayFields
  <2> QED
    BY <2>1, <2>2
<1>15. Visited(d, e, b, i)
  BY <1>1, <1>3, <1>8, <1>12, <1>13, <1>14 DEF Visited
<1> QED
  BY <1>15 DEF e, u, a

(* checkDecay at one place of the bucket.                                   *)
LEMMA VisitVisited ==
    ASSUME NEW d, Whole(d), NEW b \in Buckets, NEW i \in DecayIds, d.bucket[b][i] > 0
    PROVE  Visited(d, Visit(d, b, i), b, i)
<1> DEFINE dur == d.item[i].duration
           left == dur - Min({Round, dur})
           nb == NewBucket(b, left)
           e == Visit(d, b, i)
<1>1. dur \in Nat /\ Round \in Nat /\ Round > 0
  <2>1. d.item[i] \in DecayItems
    BY DecayFields DEF Whole
  <2> QED
    BY <2>1, ItemFields DEF Round
<1>2. left \in Nat
  <2>1. Min({Round, dur}) = IF Round <= dur THEN Round ELSE dur
    BY <1>1, MinOfTwo
  <2> QED
    BY <1>1, <2>1
<1>3. e = IF ~CanDecay(d, i) THEN Forgotten(d, b, i)
          ELSE IF left >= Round THEN Aged(d, i, left)
          ELSE IF left <= 0 \/ nb = b THEN InternalDecayItem(Dropped(Aged(d, i, left), b, i), i)
          ELSE [Unlist(Aged(d, i, left), b, i) EXCEPT !.bucket[nb][i] = @ + 1]
  BY DEF Visit, Aged
<1> HIDE DEF left, e
<1>4. nb \in Buckets
  BY <1>2, NewBucketIn
<1> HIDE DEF nb
<1>5. CASE ~CanDecay(d, i)
  BY <1>3, <1>5, ForgottenVisited DEF e
<1>6. CASE CanDecay(d, i) /\ left >= Round
  <2>1. left > 0
    BY <1>1, <1>2, <1>6
  <2> QED
    BY <1>2, <1>3, <1>6, <2>1, AgedVisited DEF e
<1>7. CASE CanDecay(d, i) /\ ~(left >= Round) /\ (left <= 0 \/ nb = b)
  BY <1>2, <1>3, <1>7, OverVisited DEF e
<1>8. CASE CanDecay(d, i) /\ ~(left >= Round) /\ ~(left <= 0 \/ nb = b)
  <2>1. left > 0 /\ nb # b
    BY <1>2, <1>8
  <2> QED
    BY <1>2, <1>3, <1>4, <1>8, <2>1, MovedVisited DEF e
<1> QED
  BY <1>5, <1>6, <1>7, <1>8

-----------------------------------------------------------------------------
(* The bucket, one place after the other.                                   *)
VisitAll(d, b, list) == FoldLeft(LAMBDA e, i : With(e, LAMBDA v : Visit(v, b, i)), d, list)
OnceVisit(d, b, i) == CHOOSE r \in {Visit(v, b, i) : v \in {d}} : TRUE
(* With, written out, is what it says.                                      *)
LEMMA OnceVisitIs ==
    ASSUME NEW d, NEW b, NEW i
    PROVE  OnceVisit(d, b, i) = Visit(d, b, i)
  BY Zenon DEF OnceVisit
BucketSolves(b, base, list, f) ==
    f = [s \in SUBSET (DOMAIN list) |->
            IF s = {} THEN base ELSE OnceVisit(f[s \ {Max(s)}], b, list[Max(s)])]

(* What the fold of checkDecay stands for.                                  *)
LEMMA VisitAllIs ==
    ASSUME NEW d, NEW b, NEW list
    PROVE  VisitAll(d, b, list) = (CHOOSE f : BucketSolves(b, d, list, f))[DOMAIN list]
  BY Zenon DEF With, OnceVisit, VisitAll, BucketSolves, FoldLeft, MapThenFoldSet

(* The places of i among those from n on.                                   *)
Ahead(list, n, i) == {k \in DOMAIN list : k > n /\ list[k] = i}

(* The n-th place is one less ahead.                                        *)
LEMMA AheadLess ==
    ASSUME NEW L \in Nat, NEW list, DOMAIN list = 1..L, NEW n \in 1..L, NEW i
    PROVE  /\ Cardinality(Ahead(list, n, i)) \in Nat
           /\ Cardinality(Ahead(list, n - 1, i)) = Cardinality(Ahead(list, n, i)) + (IF list[n] = i THEN 1 ELSE 0)
<1> DEFINE A == Ahead(list, n - 1, i)
           B == Ahead(list, n, i)
<1>1. IsFiniteSet(1..L) /\ A \subseteq 1..L /\ B \subseteq 1..L
  BY FS_Interval DEF Ahead
<1>2. IsFiniteSet(A) /\ IsFiniteSet(B) /\ Cardinality(A) \in Nat /\ Cardinality(B) \in Nat
  BY <1>1, FS_Subset, FS_CardinalityType
<1>3. CASE list[n] = i
  <2>1. n \in A /\ B = A \ {n}
    BY <1>3 DEF Ahead
  <2>2. Cardinality(B) = Cardinality(A) - 1
    BY <1>2, <2>1, FS_RemoveElement
  <2> QED
    BY <1>2, <1>3, <2>2
<1>4. CASE list[n] # i
  <2>1. B = A
    BY <1>4 DEF Ahead
  <2> QED
    BY <1>2, <1>4, <2>1
<1> QED
  BY <1>3, <1>4

(* A pass through a bucket leaves every item counted and settled.           *)
LEMMA VisitAllWhole ==
    ASSUME NEW d, Whole(d), \A j \in DecayIds : Settled(d, j), NEW b \in Buckets,
           NEW L \in Nat, NEW list \in [1..L -> DecayIds], L = Len(list),
           \A i \in DecayIds : Cardinality({k \in DOMAIN list : list[k] = i}) = d.bucket[b][i]
    PROVE  /\ Whole(VisitAll(d, b, list))
           /\ \A j \in DecayIds : Settled(VisitAll(d, b, list), j)
<1>1. DOMAIN list = 1..L
  OBVIOUS
<1>2. ASSUME NEW f PROVE LoopSolves("visit", b, d, list, f) <=> BucketSolves(b, d, list, f)
  <2>1. \A v, i : LoopStep("visit", b, v, i) = OnceVisit(v, b, i)
    BY OnceVisitIs, Zenon DEF LoopStep
  <2> QED
    BY <2>1, Zenon DEF LoopSolves, BucketSolves
<1>3. \E f : BucketSolves(b, d, list, f)
  BY <1>1, <1>2, LoopExists
<1>4. BucketSolves(b, d, list, CHOOSE f : BucketSolves(b, d, list, f))
  BY <1>3, Zenon
<1>5. PICK h : h = CHOOSE f : BucketSolves(b, d, list, f)
  OBVIOUS
<1>6. LoopSolves("visit", b, d, list, h)
  BY <1>2, <1>4, <1>5
<1>7. PICK u : LoopTrace("visit", b, d, list, u) /\ h[DOMAIN list] = u[L]
  BY <1>1, <1>6, LoopTraced
<1>8. VisitAll(d, b, list) = u[L]
  BY <1>5, <1>7, VisitAllIs
<1> DEFINE Good(n) == /\ Whole(u[n])
                      /\ \A j \in DecayIds : Settled(u[n], j)
                      /\ \A j \in DecayIds : Cardinality(Ahead(list, n, j)) <= u[n].bucket[b][j]
           S == {n \in 0..L : Good(n)}
<1>9. Good(0)
  <2>1. u[0] = d
    BY <1>7 DEF LoopTrace
  <2>2. ASSUME NEW j \in DecayIds PROVE Cardinality(Ahead(list, 0, j)) <= d.bucket[b][j]
    <3>1. Ahead(list, 0, j) = {k \in DOMAIN list : list[k] = j}
      BY <1>1 DEF Ahead
    <3>2. d.bucket[b][j] \in Nat
      BY DecayFields DEF Whole
    <3> QED
      BY <3>1, <3>2
  <2> QED
    BY <2>1, <2>2
<1>10. ASSUME NEW n \in 1..L, Good(n - 1) PROVE Good(n)
  <2> DEFINE v == u[n - 1]
             i == list[n]
             e == u[n]
  <2>1. Whole(v) /\ (\A j \in DecayIds : Settled(v, j)) /\ i \in DecayIds
    BY <1>10
  <2>2. \A j \in DecayIds : Cardinality(Ahead(list, n - 1, j)) <= v.bucket[b][j] /\ v.bucket[b][j] \in Nat
    <3>1. \A j \in DecayIds : v.bucket[b][j] \in Nat
      BY <2>1, DecayFields DEF Whole
    <3> QED
      BY <1>10, <3>1
  <2>3. e = Visit(v, b, i)
    BY <1>7 DEF LoopTrace, LoopStep
  <2> HIDE DEF v, i, e
  <2>4. \A j \in DecayIds : /\ Cardinality(Ahead(list, n, j)) \in Nat
                            /\ Cardinality(Ahead(list, n - 1, j)) = Cardinality(Ahead(list, n, j)) + (IF i = j THEN 1 ELSE 0)
    BY <1>1, AheadLess DEF i
  <2>5. v.bucket[b][i] > 0
    BY <2>1, <2>2, <2>4
  <2>6. Visited(v, e, b, i)
    BY <2>1, <2>3, <2>5, VisitVisited
  <2>7. \A j \in DecayIds : e.bucket[b][j] \in Nat
    BY <2>6, DecayFields DEF Whole, Visited
  <2>8. ASSUME NEW j \in DecayIds PROVE Cardinality(Ahead(list, n, j)) <= e.bucket[b][j]
    <3>1. e.bucket[b][j] >= v.bucket[b][j] - (IF j = i THEN 1 ELSE 0)
      BY <2>6 DEF Visited
    <3> QED
      BY <2>2, <2>4, <2>7, <3>1
  <2>9. Whole(e) /\ \A j \in DecayIds : Settled(e, j)
    BY <2>1, <2>6 DEF Visited
  <2> QED
    BY <2>8, <2>9 DEF e
<1> HIDE DEF Good
<1>11. ASSUME NEW n \in 1..L, n - 1 \in S PROVE n \in S
  <2>1. n \in 0..L /\ Good(n - 1)
    BY <1>11
  <2> QED
    BY <2>1, <1>10
<1>12. L \in S
  <2>1. 0 \in S
    BY <1>9
  <2> HIDE DEF S
  <2> QED
    BY <1>11, <2>1, CountUp
<1>13. Good(L)
  BY <1>12
<1> QED
  BY <1>8, <1>13 DEF Good

(* Where the newly listed go.                                               *)
LEMMA SlotIn ==
    ASSUME NEW d \in Decays, NEW i \in DecayIds
    PROVE  Slot(d, i) \in Buckets
<1>1. d.last \in 0..3 /\ d.item[i].duration \in Nat
  BY DecayFields, ItemFields DEF Buckets
<1>2. d.item[i].duration \div 8 \in Int
  BY <1>1
<1> QED
  BY <1>1, <1>2 DEF Slot, Buckets, Round

(* cleanup, field by field.                                                 *)
LEMMA CleanupLists ==
    ASSUME NEW d \in Decays
    PROVE  LET e == Cleanup(d)
           IN  /\ e.item = [i \in DecayIds |-> Released(d, i)]
               /\ e.toRelease = NoItems /\ e.toDecay = NoItems
               /\ e.bucket \in [Buckets -> [DecayIds -> Nat]] /\ e.last = d.last /\ e.full = d.full
               /\ e = [d EXCEPT !.item = e.item, !.toRelease = e.toRelease, !.bucket = e.bucket, !.toDecay = e.toDecay]
               /\ \A i \in DecayIds : Listed(e, i) = Listed(d, i)
<1> DEFINE e == Cleanup(d)
           new == [b \in Buckets |-> [i \in DecayIds |->
                             d.bucket[b][i] + IF Slot(d, i) = b THEN d.toDecay[i] ELSE 0]]
           items == [i \in DecayIds |-> Released(d, i)]
<1>1. e = [d EXCEPT !.item = items, !.toRelease = NoItems, !.bucket = new, !.toDecay = NoItems]
  BY DEF Cleanup
<1>2. \A b \in Buckets, i \in DecayIds :
         new[b][i] = d.bucket[b][i] + IF Slot(d, i) = b THEN d.toDecay[i] ELSE 0
  OBVIOUS
<1>3. ASSUME NEW b \in Buckets, NEW i \in DecayIds
      PROVE  d.bucket[b][i] \in Nat /\ d.toDecay[i] \in Nat /\ d.bucket[b][i] + (IF Slot(d, i) = b THEN d.toDecay[i] ELSE 0) \in Nat
  <2>1. d.bucket[b][i] \in Nat /\ d.toDecay[i] \in Nat
    BY DecayFields
  <2> QED
    BY <2>1
<1>4. new \in [Buckets -> [DecayIds -> Nat]]
  BY <1>3
<1> HIDE DEF new, items, e
<1>5. /\ e.item = items /\ e.toRelease = NoItems /\ e.toDecay = NoItems /\ e.bucket = new
      /\ e.last = d.last /\ e.full = d.full
  BY <1>1 DEF Decays
<1>6. ASSUME NEW i \in DecayIds PROVE Listed(e, i) = Listed(d, i)
  <2>1. 0 \in Buckets /\ 1 \in Buckets /\ 2 \in Buckets /\ 3 \in Buckets
    BY DEF Buckets
  <2>2. Slot(d, i) = 0 \/ Slot(d, i) = 1 \/ Slot(d, i) = 2 \/ Slot(d, i) = 3
    BY SlotIn DEF Buckets
  <2>3. /\ e.bucket[0][i] = d.bucket[0][i] + IF Slot(d, i) = 0 THEN d.toDecay[i] ELSE 0
        /\ e.bucket[1][i] = d.bucket[1][i] + IF Slot(d, i) = 1 THEN d.toDecay[i] ELSE 0
        /\ e.bucket[2][i] = d.bucket[2][i] + IF Slot(d, i) = 2 THEN d.toDecay[i] ELSE 0
        /\ e.bucket[3][i] = d.bucket[3][i] + IF Slot(d, i) = 3 THEN d.toDecay[i] ELSE 0
    BY <1>2, <1>5, <2>1
  <2>4. /\ d.bucket[0][i] \in Nat /\ d.bucket[1][i] \in Nat /\ d.bucket[2][i] \in Nat /\ d.bucket[3][i] \in Nat
        /\ d.toDecay[i] \in Nat
    BY <1>3, <2>1
  <2>5. e.toDecay[i] = 0
    BY <1>5 DEF NoItems
  <2> QED
    BY <2>2, <2>3, <2>4, <2>5 DEF Listed
<1>7. e = [d EXCEPT !.item = e.item, !.toRelease = e.toRelease, !.bucket = e.bucket, !.toDecay = e.toDecay]
  BY <1>1, <1>5
<1> QED
  BY <1>4, <1>5, <1>6, <1>7 DEF e, items

(* What cleanup leaves of an item: the references of the lists, and of      *)
(* where it still lies.                                                     *)
Spilt(d, i) == d.item[i].in \in Freed(d)
Remains(d, i) == (IF d.item[i].in = Nowhere \/ Spilt(d, i) THEN 0 ELSE 1) + Listed(d, i)

(* The item itself, after cleanup.                                          *)
LEMMA ReleasedIs ==
    ASSUME NEW d, Whole(d), NEW i \in DecayIds
    PROVE  /\ Remains(d, i) \in Nat
           /\ Remains(d, i) = 0 => Released(d, i) = Unborn
           /\ Remains(d, i) # 0 =>
                 /\ Released(d, i) = [d.item[i] EXCEPT !.refs = Remains(d, i),
                                                       !.in = IF Spilt(d, i) THEN Nowhere ELSE d.item[i].in]
                 /\ d.item[i].refs > 0
<1>1. d \in Decays /\ Counted(d, i)
  BY DEF Whole
<1>2. d.item[i] \in DecayItems
  BY <1>1, DecayFields
<1>3. Listed(d, i) \in Nat /\ d.toRelease[i] \in Nat /\ d.item[i].refs \in Nat
  BY <1>1, <1>2, ItemFields, ListedNat
<1>4. Spilt(d, i) => d.item[i].in # Nowhere
  BY DecayConstants DEF Spilt, Freed
<1>5. Remains(d, i) \in Nat /\ Remains(d, i) = d.item[i].refs - d.toRelease[i] - IF Spilt(d, i) THEN 1 ELSE 0
  BY <1>1, <1>3, <1>4 DEF Remains, Counted
<1>6. Released(d, i) = IF Remains(d, i) = 0 THEN Unborn
                       ELSE [d.item[i] EXCEPT !.refs = Remains(d, i),
                                              !.in = IF Spilt(d, i) THEN Nowhere ELSE d.item[i].in]
  BY <1>2, <1>5 DEF Released, Spilt, DecayItems
<1>7. Remains(d, i) # 0 => d.item[i].refs > 0
  BY <1>3, <1>5
<1> QED
  BY <1>5, <1>6, <1>7

(* cleanup frees whom no list and no place holds, with what lies in it, and *)
(* nobody else.                                                             *)
LEMMA CleanupWhole ==
    ASSUME NEW d, Whole(d), \A j \in DecayIds : Marked(d, j) \/ Doomed(d, j)
    PROVE  Whole(Cleanup(d)) /\ \A j \in DecayIds : Marked(Cleanup(d), j)
<1> DEFINE e == Cleanup(d)
<1>1. d \in Decays /\ \A j \in DecayIds : Counted(d, j) /\ Kinded(d, j) /\ Housed(d, j)
  BY DEF Whole
<1>2. /\ e.item = [i \in DecayIds |-> Released(d, i)]
      /\ e.toRelease = NoItems /\ e.toDecay = NoItems
      /\ e.bucket \in [Buckets -> [DecayIds -> Nat]] /\ e.last = d.last /\ e.full = d.full
      /\ e = [d EXCEPT !.item = e.item, !.toRelease = e.toRelease, !.bucket = e.bucket, !.toDecay = e.toDecay]
      /\ \A i \in DecayIds : Listed(e, i) = Listed(d, i)
  BY <1>1, CleanupLists
<1> HIDE DEF e
<1>3. ASSUME NEW i \in DecayIds
      PROVE  /\ e.item[i] \in DecayItems /\ e.item[i].refs = Remains(d, i) /\ Remains(d, i) \in Nat
             /\ Remains(d, i) = 0 => e.item[i] = Unborn
             /\ Remains(d, i) # 0 =>
                   /\ d.item[i].refs > 0
                   /\ e.item[i].kind = d.item[i].kind /\ e.item[i].duration = d.item[i].duration
                   /\ e.item[i].decaying = d.item[i].decaying
                   /\ e.item[i].in = IF Spilt(d, i) THEN Nowhere ELSE d.item[i].in
  <2>1. e.item[i] = Released(d, i)
    BY <1>2
  <2>2. d.item[i] \in DecayItems
    BY <1>1, DecayFields
  <2>3. Remains(d, i) \in Nat
    BY ReleasedIs
  <2>4. CASE Remains(d, i) = 0
    <3>1. e.item[i] = Unborn
      BY <2>1, <2>4, ReleasedIs
    <3>2. Unborn \in DecayItems /\ Unborn.refs = 0
      BY DEF Unborn, DecayItems
    <3> QED
      BY <2>3, <2>4, <3>1, <3>2
  <2>5. CASE Remains(d, i) # 0
    <3> DEFINE in == IF Spilt(d, i) THEN Nowhere ELSE d.item[i].in
    <3>1. e.item[i] = [d.item[i] EXCEPT !.refs = Remains(d, i), !.in = in] /\ d.item[i].refs > 0
      BY <2>1, <2>5, ReleasedIs
    <3>2. in \in DecayIds \cup {World, Nowhere}
      BY <2>2, ItemFields
    <3> HIDE DEF in
    <3>3. /\ e.item[i] \in DecayItems /\ e.item[i].refs = Remains(d, i) /\ e.item[i].in = in
          /\ e.item[i].kind = d.item[i].kind /\ e.item[i].duration = d.item[i].duration
          /\ e.item[i].decaying = d.item[i].decaying
      BY <2>2, <2>3, <3>1, <3>2 DEF DecayItems
    <3> QED
      BY <2>3, <2>5, <3>1, <3>3 DEF in
  <2> QED
    BY <2>4, <2>5
<1>4. ASSUME NEW i \in DecayIds PROVE e.toRelease[i] = 0 /\ Listed(e, i) = Listed(d, i) /\ Listed(d, i) \in Nat
  BY <1>1, <1>2, ListedNat DEF NoItems
<1>5. e \in Decays
  <2>1. e.item \in [DecayIds -> DecayItems]
    <3>1. e.item = [i \in DecayIds |-> e.item[i]]
      BY <1>2
    <3> QED
      BY <1>3, <3>1
  <2>2. NoItems \in [DecayIds -> Nat]
    BY DEF NoItems
  <2> QED
    BY <1>1, <1>2, <2>1, <2>2 DEF Decays
<1>6. World \notin DecayIds /\ Nowhere \notin DecayIds
  BY DecayConstants
<1>7. ASSUME NEW i \in DecayIds PROVE Counted(e, i)
  <2>1. CASE Remains(d, i) = 0
    <3>1. Listed(d, i) = 0
      BY <2>1, <1>4 DEF Remains
    <3>2. e.item[i].in = Nowhere /\ e.item[i].refs = 0
      BY <2>1, <1>3 DEF Unborn
    <3> QED
      BY <3>1, <3>2, <1>4 DEF Counted
  <2>2. CASE Remains(d, i) # 0
    <3>1. e.item[i].in = Nowhere <=> d.item[i].in = Nowhere \/ Spilt(d, i)
      BY <2>2, <1>3
    <3>2. e.item[i].refs = (IF e.item[i].in = Nowhere THEN 0 ELSE 1) + Listed(d, i)
      BY <3>1, <1>3 DEF Remains
    <3> QED
      BY <3>2, <1>4 DEF Counted
  <2> QED
    BY <2>1, <2>2
<1>8. ASSUME NEW i \in DecayIds PROVE Kinded(e, i)
  <2>1. CASE Remains(d, i) = 0
    BY <2>1, <1>3 DEF Kinded
  <2>2. CASE Remains(d, i) # 0
    BY <2>2, <1>1, <1>3 DEF Kinded
  <2> QED
    BY <2>1, <2>2
<1>9. ASSUME NEW i \in DecayIds PROVE Housed(e, i)
  <2> SUFFICES ASSUME e.item[i].in \in DecayIds
               PROVE  e.item[e.item[i].in].refs > 0 /\ e.item[e.item[i].in].in \notin DecayIds
    BY DEF Housed
  <2>1. Remains(d, i) # 0
    BY <1>3, <1>6 DEF Unborn
  <2>2. ~Spilt(d, i) /\ e.item[i].in = d.item[i].in
    BY <2>1, <1>3, <1>6
  <2> DEFINE j == d.item[i].in
  <2>3. j \in DecayIds /\ j \notin Freed(d) /\ d.item[j].refs > 0 /\ d.item[j].in \notin DecayIds
    BY <2>2, <1>1 DEF Spilt, Housed
  <2> HIDE DEF j
  <2>4. ~Spilt(d, j)
    BY <2>3 DEF Spilt, Freed
  <2>5. Remains(d, j) # 0
    <3>1. Remains(d, j) = d.item[j].refs - d.toRelease[j]
      <4>1. Listed(d, j) \in Nat /\ d.toRelease[j] \in Nat /\ Counted(d, j)
        BY <1>1, <2>3, ListedNat
      <4> QED
        BY <2>4, <4>1 DEF Remains, Counted
    <3>2. d.toRelease[j] \in Nat /\ d.item[j].refs \in Nat
      <4>1. d.item[j] \in DecayItems
        BY <1>1, <2>3, DecayFields
      <4> QED
        BY <1>1, <2>3, <4>1, ListedNat, ItemFields
    <3> QED
      BY <2>3, <3>1, <3>2 DEF Freed
  <2>6. e.item[j].refs > 0
    BY <1>3, <2>3, <2>5
  <2>7. e.item[j].in \notin DecayIds
    BY <1>3, <2>3, <2>4, <2>5
  <2> QED
    BY <2>2, <2>6, <2>7 DEF j
<1>10. ASSUME NEW i \in DecayIds PROVE Marked(e, i)
  <2> SUFFICES ASSUME e.item[i].decaying PROVE Listed(e, i) > 0 /\ (e.item[i].duration > 0 \/ e.item[i].in = Nowhere)
    BY DEF Marked
  <2>1. Remains(d, i) # 0
    BY <1>3 DEF Unborn
  <2>2. /\ d.item[i].decaying /\ e.item[i].duration = d.item[i].duration
        /\ d.item[i].in = Nowhere => e.item[i].in = Nowhere
    BY <2>1, <1>3
  <2>3. CASE Marked(d, i)
    BY <2>2, <2>3, <1>4 DEF Marked
  <2>4. CASE Doomed(d, i)
    <3>1. d.item[i].in = Nowhere
      BY <2>4 DEF Doomed
    <3>2. Listed(d, i) > 0
      BY <2>1, <3>1, <1>4 DEF Remains
    <3> QED
      BY <2>2, <3>1, <3>2, <1>4
  <2> QED
    BY <2>3, <2>4
<1>11. Whole(e)
  BY <1>5, <1>7, <1>8, <1>9 DEF Whole
<1> QED
  BY <1>10, <1>11 DEF e

(* What follows a sound state is sound.                                     *)
LEMMA FollowsInv ==
    ASSUME DecayInv, Follows(decay, decay')
    PROVE  DecayInv'
BY DEF DecayInv, Follows, Kept, Whole, Counted, Kinded, Housed, Marked

(* What lies on the ground at the start.                                    *)
LEMMA DecayInitInv == DecayInit => DecayInv
<1> SUFFICES ASSUME DecayInit PROVE DecayInv
  OBVIOUS
<1> DEFINE B == DOMAIN StartWith
           in(i) == IF i \in DOMAIN Contents THEN Contents[i] ELSE World
           items == [i \in DecayIds |-> IF i \in B THEN Born(StartWith[i], in(i)) ELSE Unborn]
           none == [b \in Buckets |-> NoItems]
           d == [item |-> items, toDecay |-> NoItems, toRelease |-> NoItems, bucket |-> none, last |-> 0, full |-> FALSE]
<1>1. decay = d
  BY DEF DecayInit
<1>2. NoItems \in [DecayIds -> Nat] /\ none \in [Buckets -> [DecayIds -> Nat]] /\ 0 \in Buckets
  BY DEF NoItems, Buckets
<1>3. /\ B \subseteq DecayIds /\ StartWith \in [B -> DecayKinds] /\ DOMAIN Contents \subseteq B
      /\ Contents \in [DOMAIN Contents -> B \ DOMAIN Contents]
  BY DecayAssumption DEF DecayAssumption, DecayIds
<1>4. World \notin DecayIds /\ Nowhere \notin DecayIds /\ World # Nowhere
  BY DecayConstants
<1>5. ASSUME NEW i \in B
      PROVE  /\ Born(StartWith[i], in(i)) \in DecayItems /\ Born(StartWith[i], in(i)).refs = 1
             /\ Born(StartWith[i], in(i)).in = in(i) /\ Born(StartWith[i], in(i)).kind \in DecayKinds
             /\ Born(StartWith[i], in(i)).decaying = FALSE
             /\ in(i) \in DecayIds \cup {World} /\ (in(i) \in DecayIds => in(i) \in B /\ in(in(i)) = World)
  <2>1. in(i) \in DecayIds \cup {World} /\ (in(i) \in DecayIds => in(i) \in B /\ in(in(i)) = World)
    BY <1>3, <1>4
  <2>2. StartWith[i] \in DecayKinds
    BY <1>3
  <2>3. DecayTime[StartWith[i]] \in Nat
    BY <2>2, DecayConstants
  <2> HIDE DEF in
  <2> QED
    BY <2>1, <2>2, <2>3 DEF Born, DecayItems
<1>6. Unborn \in DecayItems /\ Unborn.refs = 0 /\ Unborn.in = Nowhere /\ Unborn.decaying = FALSE
  BY DEF Unborn, DecayItems
<1> HIDE DEF in
<1>7. items \in [DecayIds -> DecayItems]
  BY <1>5, <1>6
<1>8. \A i \in DecayIds : items[i] = IF i \in B THEN Born(StartWith[i], in(i)) ELSE Unborn
  OBVIOUS
<1> HIDE DEF items, none, B
<1>9. d \in Decays
  BY <1>2, <1>7 DEF Decays
<1>10. d.item = items /\ d.toRelease = NoItems /\ d.toDecay = NoItems /\ d.bucket = none
  OBVIOUS
<1> HIDE DEF d
<1>11. ASSUME NEW i \in DecayIds PROVE d.toRelease[i] = 0 /\ Listed(d, i) = 0
  <2>1. NoItems[i] = 0 /\ none[0] = NoItems /\ none[1] = NoItems /\ none[2] = NoItems /\ none[3] = NoItems
    BY DEF NoItems, none, Buckets
  <2> QED
    BY <1>10, <2>1 DEF Listed
<1>12. ASSUME NEW i \in DecayIds PROVE Counted(d, i) /\ Kinded(d, i) /\ Housed(d, i) /\ Marked(d, i)
  <2>1. d.item[i] = IF i \in B THEN Born(StartWith[i], in(i)) ELSE Unborn
    BY <1>8, <1>10
  <2>2. CASE i \in B
    <3>1. d.item[i].refs = 1 /\ d.item[i].in = in(i) /\ d.item[i].kind \in DecayKinds /\ d.item[i].decaying = FALSE
          /\ in(i) # Nowhere
      BY <1>4, <1>5, <2>1, <2>2
    <3>2. Counted(d, i) /\ Kinded(d, i) /\ Marked(d, i)
      BY <1>11, <3>1 DEF Counted, Kinded, Marked
    <3>3. Housed(d, i)
      <4> SUFFICES ASSUME in(i) \in DecayIds PROVE d.item[in(i)].refs > 0 /\ d.item[in(i)].in \notin DecayIds
        BY <3>1 DEF Housed
      <4>1. in(i) \in B /\ in(in(i)) = World
        BY <1>5, <2>2
      <4>2. d.item[in(i)] = Born(StartWith[in(i)], in(in(i)))
        BY <1>8, <1>10, <4>1
      <4>3. Born(StartWith[in(i)], in(in(i))).refs = 1 /\ Born(StartWith[in(i)], in(in(i))).in = in(in(i))
        BY <1>5, <4>1
      <4> QED
        BY <1>4, <4>1, <4>2, <4>3
    <3> QED
      BY <3>2, <3>3
  <2>3. CASE i \notin B
    BY <1>4, <1>6, <1>11, <2>1, <2>3 DEF Counted, Kinded, Marked, Housed
  <2> QED
    BY <2>2, <2>3
<1>13. Whole(d) /\ \A i \in DecayIds : Marked(d, i)
  BY <1>9, <1>12 DEF Whole
<1> QED
  BY <1>1, <1>13 DEF DecayInv

(* A visit of the next bucket, and the cleanup that follows.                *)
LEMMA CheckDecayKeeps == ASSUME DecayInv, CheckDecay PROVE DecayInv'
<1> DEFINE b == InBucket(decay)
           counts == decay.bucket[b]
<1>1. Whole(decay) /\ decay \in Decays /\ \A j \in DecayIds : Settled(decay, j)
  BY DEF DecayInv, Whole, Settled
<1>2. b \in Buckets
  <2>1. decay.last \in 0..3
    BY <1>1, DecayFields DEF Buckets
  <2> QED
    BY <2>1 DEF InBucket, Buckets
<1> HIDE DEF b
<1>3. PICK list \in Orders(counts) : decay' = CheckDecayed(decay, list)
  BY DEF CheckDecay, b
<1> DEFINE L == Cardinality(Entries(counts))
           v == VisitAll(decay, b, list)
           w == [v EXCEPT !.last = b]
<1>4. L \in Nat
  <2>1. IsFiniteSet(DecayIds)
    BY DecayConstants, FS_Interval
  <2>2. \A i \in DecayIds : counts[i] \in Nat
    BY <1>1, <1>2, DecayFields
  <2>3. Entries(counts) = Units(counts, DecayIds)
    BY DEF Entries, Units
  <2> QED
    BY <2>1, <2>2, <2>3, UnitsFinite, FS_CardinalityType
<1> HIDE DEF L
<1>5. /\ list \in [1..L -> DecayIds] /\ DOMAIN list = 1..L
      /\ \A i \in DecayIds : Cardinality({k \in DOMAIN list : list[k] = i}) = decay.bucket[b][i]
  BY <1>3 DEF Orders, L
<1>6. L = Len(list)
  <2>1. list \in Seq(DecayIds)
    BY <1>4, <1>5
  <2> QED
    BY <1>4, <1>5, <2>1
<1>7. Whole(v) /\ \A j \in DecayIds : Settled(v, j)
  BY <1>1, <1>2, <1>4, <1>5, <1>6, VisitAllWhole
<1>8. decay' = Cleanup(w)
  BY <1>3, Zenon DEF CheckDecayed, With, VisitAll, b
<1> HIDE DEF v
<1>9. /\ w \in Decays /\ w.item = v.item /\ w.toRelease = v.toRelease /\ w.toDecay = v.toDecay
      /\ w.bucket = v.bucket /\ w.full = v.full
  BY <1>2, <1>7 DEF Whole, Decays
<1> HIDE DEF w
<1>10. \A j \in DecayIds : SameAt(v, w, j)
  BY <1>9 DEF SameAt, Listed
<1>11. Whole(w)
  BY <1>7, <1>9, <1>10 DEF Whole, Counted, Kinded, Housed, SameAt
<1>12. ~w.full
  <2>1. Cleanup(w).full = w.full
    BY <1>9, CleanupLists
  <2>2. ~decay'.full
    BY DEF CheckDecay
  <2> QED
    BY <1>8, <2>1, <2>2
<1>13. ASSUME NEW j \in DecayIds PROVE Marked(w, j) \/ Doomed(w, j)
  <2>1. Marked(v, j) \/ Doomed(v, j)
    BY <1>7, <1>9, <1>12 DEF Settled
  <2> QED
    BY <1>10, <2>1, SameAtKept
<1>14. Whole(Cleanup(w)) /\ \A j \in DecayIds : Marked(Cleanup(w), j)
  BY <1>11, <1>13, CleanupWhole
<1>15. Whole(decay') /\ \A j \in DecayIds : Marked(decay', j)
  BY <1>8, <1>14
<1> QED
  BY <1>15 DEF DecayInv, Whole, Counted, Kinded, Housed, Marked

(* A copy, listed twice when it has a duration.                             *)
LEMMA CloneKeeps == ASSUME DecayInv, NEW i \in DecayIds, ItemClone(i) PROVE DecayInv'
<1> DEFINE it == [decay.item[i] EXCEPT !.in = World, !.refs = 1]
           n == CHOOSE n \in Fresh(decay) : TRUE
           copy == [decay EXCEPT !.item[n] = it]
<1>1. Whole(decay) /\ decay \in Decays /\ \A j \in DecayIds : Marked(decay, j)
  BY DEF DecayInv, Whole
<1>2. InWorld(decay, i) /\ Spare /\ decay' = IF decay.item[i].duration > 0 THEN List(List(copy, n), n) ELSE copy
  BY DEF ItemClone, Script
<1>3. Fresh(decay) # {}
  <2>1. IsFiniteSet(DecayIds)
    BY DecayConstants, FS_Interval
  <2>2. {j \in DecayIds : Exists(decay, j)} \subseteq DecayIds /\ Fresh(decay) \subseteq DecayIds
    BY DEF Fresh
  <2>3. /\ Cardinality({j \in DecayIds : Exists(decay, j)}) \in Nat /\ Cardinality(Fresh(decay)) \in Nat
        /\ IsFiniteSet(Fresh(decay))
    BY <2>1, <2>2, FS_Subset, FS_CardinalityType
  <2>4. Cardinality(Fresh(decay)) # 0
    BY <1>2, <2>3 DEF Spare
  <2> QED
    BY <2>3, <2>4, FS_EmptySet
<1>4. n \in DecayIds /\ decay.item[n] = Unborn
  <2>1. n \in Fresh(decay)
    BY <1>3
  <2> HIDE DEF n
  <2> QED
    BY <2>1 DEF Fresh
<1> HIDE DEF n
<1>5. decay.item[i].kind \in DecayKinds /\ decay.item[i].in # Nowhere
  BY <1>1, <1>2, InWorldThere
<1>6. decay.item[i] \in DecayItems
  BY <1>1, DecayFields
<1>7. /\ it \in DecayItems /\ it.refs = 1 /\ it.in = World /\ it.kind = decay.item[i].kind
      /\ it.duration = decay.item[i].duration /\ it.decaying = decay.item[i].decaying
  BY <1>6 DEF DecayItems
<1> HIDE DEF it
<1>8. World \in DecayIds \cup {World} /\ World \notin DecayIds
  BY DecayConstants
<1>9. /\ Whole(copy) /\ copy.item[n] = it
      /\ \A j \in DecayIds : j # n => SameAt(decay, copy, j)
  <2> DEFINE in == World
             kind == decay.item[i].kind
  <2>1. /\ in \in DecayIds \cup {World} /\ it.in = in /\ kind \in DecayKinds /\ it.kind = kind
        /\ in \in DecayIds => decay.item[in].refs > 0 /\ decay.item[in].in \notin DecayIds
    BY <1>5, <1>7, <1>8
  <2>2. it \in DecayItems /\ it.refs = 1
    BY <1>7
  <2> HIDE DEF in, kind
  <2> QED
    BY <1>1, <1>4, <2>1, <2>2, BornFollows
<1> HIDE DEF copy
<1>10. \A j \in DecayIds : j # n => Marked(copy, j)
  BY <1>1, <1>9, SameAtKept
<1>11. Whole(decay') /\ \A j \in DecayIds : Marked(decay', j)
  <2>1. CASE decay.item[i].duration > 0
    <3> DEFINE e == List(copy, n)
               f == List(e, n)
    <3>1. copy.item[n].refs > 0 /\ copy.item[n].duration > 0
      BY <1>7, <1>9, <2>1
    <3>2. Follows(copy, e) /\ Marked(e, n)
      BY <1>4, <1>9, <3>1, ListFollows
    <3>3. e.item[n].refs > 0 /\ e.item[n].duration > 0
      <4>1. e.item[n] = [copy.item[n] EXCEPT !.refs = @ + 1, !.decaying = TRUE]
        BY <1>4, <1>9, ListFields DEF Whole
      <4> QED
        BY <1>7, <1>9, <3>1, <4>1 DEF DecayItems
    <3> HIDE DEF e
    <3>4. Follows(e, f)
      BY <1>4, <3>2, <3>3, ListFollows DEF Follows
    <3> HIDE DEF f
    <3>5. \A j \in DecayIds : Marked(e, j)
      BY <1>10, <3>2 DEF Follows, Kept
    <3>6. Whole(f) /\ \A j \in DecayIds : Marked(f, j)
      BY <3>4, <3>5 DEF Follows, Kept
    <3> QED
      BY <1>2, <2>1, <3>6 DEF f, e
  <2>2. CASE ~(decay.item[i].duration > 0)
    <3>1. ~decay.item[i].decaying
      BY <1>1, <1>5, <2>2 DEF Marked
    <3>2. Marked(copy, n)
      BY <1>7, <1>9, <3>1 DEF Marked
    <3> QED
      BY <1>2, <1>9, <1>10, <2>2, <3>2
  <2> QED
    BY <2>1, <2>2
<1> QED
  BY <1>11 DEF DecayInv, Whole, Counted, Kinded, Housed, Marked

(* Every step keeps the invariant.                                          *)
LEMMA DecayStep == DecayInv /\ [DecayNext]_decayVars => DecayInv'
<1> SUFFICES ASSUME DecayInv, [DecayNext]_decayVars PROVE DecayInv'
  OBVIOUS
<1>1. Whole(decay) /\ decay \in Decays /\ \A j \in DecayIds : Marked(decay, j)
  BY DEF DecayInv, Whole
<1>2. ASSUME CleanupAlone PROVE DecayInv'
  <2>1. decay' = Cleanup(decay)
    BY <1>2 DEF CleanupAlone
  <2>2. Whole(Cleanup(decay)) /\ \A j \in DecayIds : Marked(Cleanup(decay), j)
    BY <1>1, CleanupWhole
  <2>3. Whole(decay') /\ \A j \in DecayIds : Marked(decay', j)
    BY <2>1, <2>2
  <2> QED
    BY <2>3 DEF DecayInv, Whole, Counted, Kinded, Housed, Marked
<1>3. ASSUME NEW i \in DecayIds, ItemDecay(i) PROVE DecayInv'
  BY <1>1, <1>3, StartDecayFollows, FollowsInv DEF ItemDecay
<1>4. ASSUME NEW i \in DecayIds, ItemRemove(i) PROVE DecayInv'
  BY <1>1, <1>4, RemoveFollows, FollowsInv DEF ItemRemove
<1>5. ASSUME NEW i \in DecayIds, ItemMoved(i) PROVE DecayInv'
  <2>1. decay.item[i].refs > 0
    BY <1>1, <1>5, InWorldThere DEF ItemMoved, Script
  <2> QED
    BY <1>1, <1>5, <2>1, ListFollows, FollowsInv DEF ItemMoved
<1>6. ASSUME NEW i \in DecayIds, NEW kind \in DecayKinds, ItemTransform(i, kind) PROVE DecayInv'
  <2>1. InWorld(decay, i) /\ decay' = TransformDecayed(decay, i, kind).d
    BY <1>6 DEF ItemTransform, Script
  <2>2. Transformed(decay, TransformDecayed(decay, i, kind))
    BY <1>1, <2>1, TransformFollows
  <2> QED
    BY <2>1, <2>2, FollowsInv DEF Transformed
<1>7. ASSUME UNCHANGED decayVars PROVE DecayInv'
  BY <1>7 DEF decayVars, DecayInv, Whole, Counted, Kinded, Housed, Marked, Listed, Decays
<1> QED
  BY <1>2, <1>3, <1>4, <1>5, <1>6, <1>7, CheckDecayKeeps, CloneKeeps DEF DecayNext

(* DecaySound, for any number of objects, any item types with any chains of *)
(* decay, and any scripts that transform, clone, move and remove them while *)
(* they are listed: the references of an item are those of its place, of    *)
(* the releases to come and of the lists, none that a list names is freed   *)
(* and none that nothing holds stays, and what counts as decaying is in a   *)
(* list (Game::startDecay, checkDecay, cleanup; game.cpp:4408-4484,         *)
(* 4543-4575).                                                              *)
THEOREM DecaySoundAlways == DecaySpec => []DecaySound
<1>1. DecayInv => DecaySound
  BY DEF DecayInv, Whole, Counted, Kinded, Marked, DecaySound
<1> QED
  BY <1>1, DecayInitInv, DecayStep, PTL DEF DecaySpec
=============================================================================
