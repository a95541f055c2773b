------------------------------- MODULE Decay --------------------------------
(***************************************************************************)
(* Decaying items (game.cpp, item.cpp): startDecay lists an item with a    *)
(* reference of its own, cleanup puts it into one of four buckets, and     *)
(* checkDecay goes through one bucket a time, while scripts transform,     *)
(* clone, move and remove the same items.  Durations are in eighths of the *)
(* time between two visits of a bucket (EVENT_DECAYINTERVAL *              *)
(* EVENT_DECAY_BUCKETS, a second).                                         *)
(***************************************************************************)
EXTENDS Integers, FiniteSets, SequencesExt, FiniteSetsExt, Once

CONSTANTS
    MaxObjects,    \* bound: how many objects there can be at a time
    DecayKinds,    \* item types
    DecayTo,       \* what each turns into: a type, "gone", or "never"
    DecayTime,     \* its duration, 0 when it has none
    StopTime,      \* the types that keep the duration of the one before
    Group,         \* types of one group are changed in place
    Scripted,      \* <<from, to>>: transformations scripts ask for
    StartWith,     \* what lies on the ground: objects with their types
    Contents,      \* which object lies in which other one
    MaxScripts     \* bound: calls of scripts

(* What decays in place of what it was either starts anew or is done with   *)
(* decaying, see SetID; a container lies in the world.                      *)
ASSUME DecayAssumption ==
    /\ MaxObjects \in Nat /\ IsFiniteSet(DecayKinds)
    /\ DecayTo \in [DecayKinds -> DecayKinds \cup {"gone", "never"}]
    /\ DecayTime \in [DecayKinds -> Nat]
    /\ Scripted \subseteq DecayKinds \X DecayKinds
    /\ DOMAIN StartWith \subseteq 1..MaxObjects
    /\ StartWith \in [DOMAIN StartWith -> DecayKinds]
    /\ DOMAIN Contents \subseteq DOMAIN StartWith
    /\ Contents \in [DOMAIN Contents -> DOMAIN StartWith \ DOMAIN Contents]
    /\ \A from \in DecayKinds :
          LET to == DecayTo[from]
          IN  DecayTime[from] > 0 /\ to \in DecayKinds \ {"gone", "never"} /\ Group[from] = Group[to] =>
                 /\ to # from
                 /\ \/ DecayTime[to] > 0 /\ from \notin StopTime
                    \/ DecayTime[to] = 0 /\ to \notin StopTime /\ DecayTo[to] = "never"

VARIABLES
    decay,     \* items, decayItems, toDecayItems, ToReleaseItems, lastBucket; whether an object was missing
    scripts    \* the calls of scripts so far

decayVars == <<decay, scripts>>

DecayIds == 1..MaxObjects
World == 0
Nowhere == -1

Round == 8
Buckets == 0..3
NoItems == [i \in DecayIds |-> 0]
Unborn == [kind |-> "none", duration |-> 0, timed |-> FALSE, decaying |-> FALSE, in |-> Nowhere, refs |-> 0]
Born(kind, in) ==
    [kind |-> kind, duration |-> DecayTime[kind], timed |-> DecayTime[kind] > 0,
     decaying |-> FALSE, in |-> in, refs |-> 1]

Listed(d, i) == d.toDecay[i] + d.bucket[0][i] + d.bucket[1][i] + d.bucket[2][i] + d.bucket[3][i]
Exists(d, i) == d.item[i].refs > 0

(* Item::isRemoved: not in the world, with whatever it lies in.             *)
InWorld(d, i) ==
    \/ d.item[i].in = World
    \/ d.item[i].in > World /\ d.item[d.item[i].in].in = World

CanDecay(d, i) == InWorld(d, i) /\ DecayTo[d.item[i].kind] # "never" /\ DecayTime[d.item[i].kind] > 0

-----------------------------------------------------------------------------
List(d, i) ==
    [d EXCEPT !.item[i].refs = @ + 1, !.item[i].decaying = TRUE, !.toDecay[i] = @ + 1]

ReleaseItem(d, i) == [d EXCEPT !.toRelease[i] = @ + 1]

(* Item::setID.                                                             *)
SetID(it, kind) ==
    LET forgets == DecayTime[kind] = 0 /\ kind \notin StopTime /\ DecayTo[kind] = "never"
        a == IF forgets THEN [it EXCEPT !.decaying = FALSE, !.timed = FALSE, !.duration = 0] ELSE it
        resets == DecayTime[kind] > 0 /\ (it.kind \notin StopTime \/ ~a.timed)
        b == IF resets
             THEN [a EXCEPT !.decaying = FALSE, !.timed = TRUE, !.duration = DecayTime[kind]] ELSE a
    IN  [b EXCEPT !.kind = kind]

Taken(d, i) == ReleaseItem([d EXCEPT !.item[i].in = Nowhere], i)
RemoveDecayed(d, i) == IF ~InWorld(d, i) THEN d ELSE Taken(d, i)

(* Game::transformItem: in place within a group, otherwise a new object.    *)
(* Bound: when there is none left, no step comes of it.                     *)
Fresh(d) == {i \in DecayIds : d.item[i] = Unborn}
Replaced(d, i, kind) ==
    LET n == CHOOSE n \in Fresh(d) : TRUE
        replaced == Taken([d EXCEPT !.item[n] = Born(kind, d.item[i].in)], i)
    IN  [d |-> IF DecayTime[kind] > 0 THEN List(replaced, n) ELSE replaced, new |-> n]
TransformDecayed(d, i, kind) ==
    IF d.item[i].kind = kind THEN [d |-> d, new |-> i]
    ELSE IF Group[d.item[i].kind] = Group[kind]
    THEN [d |-> [d EXCEPT !.item[i] = SetID(@, kind)], new |-> i]
    ELSE IF Fresh(d) = {} THEN [d |-> [d EXCEPT !.full = TRUE], new |-> i]
    ELSE Replaced(d, i, kind)

(* internalDecayItem, and the startDecay that follows; each calls the other *)
(* until the item is listed or gone, through each type at most once.        *)
Decayed(d, i) ==
    LET to == DecayTo[d.item[i].kind]
    IN  IF to = "gone" THEN [d |-> RemoveDecayed(d, i), new |-> i] ELSE TransformDecayed(d, i, to)
Further(t) ==
    IF ~CanDecay(t.d, t.new) \/ t.d.item[t.new].decaying THEN t
    ELSE IF t.d.item[t.new].duration > 0 THEN [d |-> List(t.d, t.new), new |-> t.new]
    ELSE Decayed(t.d, t.new)
DecayChain == [k \in 1..Cardinality(DecayKinds) |-> k]
ToTheEnd(t) == FoldLeft(LAMBDA u, k : With(u, LAMBDA v : Further(v)), t, DecayChain).d

StartDecay(d, i) == ToTheEnd([d |-> d, new |-> i])
InternalDecayItem(d, i) == With(Decayed(d, i), LAMBDA t : ToTheEnd(t))

(* One place of the bucket in checkDecay (nothing reads ToReleaseItems      *)
(* before cleanup).                                                         *)
Unlist(d, b, i) == [d EXCEPT !.bucket[b][i] = @ - 1]
Dropped(d, b, i) == ReleaseItem(Unlist(d, b, i), i)
NewBucket(b, left) == (b + (left + 1) \div Round) % 4

BadForgotten(d, b, i) == Dropped(d, b, i)
Forgotten(d, b, i) == Dropped([d EXCEPT !.item[i].decaying = FALSE], b, i)

Visit(d, b, i) ==
    LET left == d.item[i].duration - Min({Round, d.item[i].duration})
        spent == [d EXCEPT !.item[i].duration = left]
        over == InternalDecayItem(Dropped(spent, b, i), i)
    IN  IF ~CanDecay(d, i)
        THEN Forgotten(d, b, i)
        ELSE IF left >= Round THEN spent
        ELSE IF left <= 0 \/ NewBucket(b, left) = b THEN over
        ELSE [Unlist(spent, b, i) EXCEPT !.bucket[NewBucket(b, left)][i] = @ + 1]

(* Game::cleanup: every place in ToReleaseItems gives up its reference, and *)
(* who has none left is freed, a container with what lies in it.            *)
Freed(d) == {i \in DecayIds : d.toRelease[i] > 0 /\ d.item[i].refs = d.toRelease[i]}
Released(d, i) ==
    LET it == d.item[i]
        spilt == it.in \in Freed(d)
        left == it.refs - d.toRelease[i] - IF spilt THEN 1 ELSE 0
    IN  IF left = 0 THEN Unborn ELSE [it EXCEPT !.refs = left, !.in = IF spilt THEN Nowhere ELSE @]

Slot(d, i) == IF d.item[i].duration >= Round THEN d.last
              ELSE (d.last + 1 + d.item[i].duration \div Round) % 4

Cleanup(d) ==
    [d EXCEPT !.item = [i \in DecayIds |-> Released(d, i)],
              !.toRelease = NoItems,
              !.bucket = [b \in Buckets |-> [i \in DecayIds |->
                             d.bucket[b][i] + IF Slot(d, i) = b THEN d.toDecay[i] ELSE 0]],
              !.toDecay = NoItems]

(* checkDecay goes through the bucket; the places stand in any order.       *)
InBucket(d) == (d.last + 1) % 4
Entries(counts) == UNION {{i} \X (1..counts[i]) : i \in DecayIds}
Orders(counts) ==
    {list \in [1..Cardinality(Entries(counts)) -> {i \in DecayIds : counts[i] > 0}] :
        \A i \in DecayIds : Cardinality({k \in DOMAIN list : list[k] = i}) = counts[i]}
CheckDecayed(d, list) ==
    With([FoldLeft(LAMBDA e, i : With(e, LAMBDA v : Visit(v, InBucket(d), i)), d, list) EXCEPT !.last = InBucket(d)],
         LAMBDA v : Cleanup(v))

-----------------------------------------------------------------------------
DecayInit ==
    /\ decay = [item |-> [i \in DecayIds |->
                            IF i \in DOMAIN StartWith
                            THEN Born(StartWith[i], IF i \in DOMAIN Contents THEN Contents[i] ELSE World)
                            ELSE Unborn],
                toDecay |-> NoItems, toRelease |-> NoItems,
                bucket |-> [b \in Buckets |-> NoItems], last |-> 0, full |-> FALSE]
    /\ scripts = 0

CheckDecay ==
    /\ \E list \in Orders(decay.bucket[InBucket(decay)]) : decay' = CheckDecayed(decay, list)
    /\ ~decay'.full
    /\ UNCHANGED scripts

(* checkCreatures cleans up too.                                            *)
CleanupAlone == decay' = Cleanup(decay) /\ UNCHANGED scripts

Script(i) == scripts < MaxScripts /\ scripts' = scripts + 1 /\ Exists(decay, i) /\ InWorld(decay, i)

(* Bound: an object left for whatever each one turns into.                  *)
Spare == Cardinality(Fresh(decay)) > Cardinality({i \in DecayIds : Exists(decay, i)}) + 1

ItemDecay(i) == Script(i) /\ decay' = StartDecay(decay, i) /\ ~decay'.full

ItemTransform(i, kind) ==
    /\ Script(i)
    /\ <<decay.item[i].kind, kind>> \in Scripted
    /\ Group[decay.item[i].kind] = Group[kind] \/ Spare
    /\ decay' = TransformDecayed(decay, i, kind).d
    /\ ~decay'.full

ItemRemove(i) == Script(i) /\ decay' = RemoveDecayed(decay, i)

(* Item::clone takes the attributes along and lists the copy, and           *)
(* internalAddItem lists it again.                                          *)
ItemClone(i) ==
    /\ Script(i)
    /\ Spare
    /\ LET n == CHOOSE n \in Fresh(decay) : TRUE
           copy == [decay EXCEPT !.item[n] = [decay.item[i] EXCEPT !.in = World, !.refs = 1]]
       IN  decay' = IF decay.item[i].duration > 0 THEN List(List(copy, n), n) ELSE copy

(* The end of internalMoveItem.                                             *)
ItemMoved(i) ==
    /\ Script(i)
    /\ decay.item[i].duration > 0 /\ ~decay.item[i].decaying
    /\ decay' = List(decay, i)

DecayNext ==
    \/ CheckDecay
    \/ CleanupAlone
    \/ \E i \in DecayIds : \/ ItemDecay(i) \/ ItemRemove(i) \/ ItemClone(i) \/ ItemMoved(i)
                           \/ \E kind \in DecayKinds : ItemTransform(i, kind)

(* checkDecay schedules itself again before anything else.                  *)
DecayFairness == WF_decayVars(CheckDecay)
DecaySpec == DecayInit /\ [][DecayNext]_decayVars /\ DecayFairness

-----------------------------------------------------------------------------
(* However often scripts list, transform, clone and remove it meanwhile, an *)
(* item has one reference for where it lies or its release to come and one  *)
(* for each place in the lists, so none is freed while a list still names   *)
(* it and none stays behind (Game::startDecay, checkDecay, cleanup); and    *)
(* one that counts as decaying is in a list, for startDecay will not list   *)
(* it again.                                                                *)
DecaySound ==
    \A i \in DecayIds :
        LET it == decay.item[i]
        IN  /\ it.refs = (IF it.in = Nowhere THEN 0 ELSE 1) + decay.toRelease[i] + Listed(decay, i)
            /\ it.refs = 0 => it = Unborn
            /\ it.decaying => Listed(decay, i) > 0

(* Once scripts leave an item alone that was made to decay, it decays to    *)
(* the end (Game::checkDecay): in the end none in the world is decaying.    *)
DecayEnds == <>[](\A i \in DecayIds : InWorld(decay, i) => ~decay.item[i].decaying)
=============================================================================
