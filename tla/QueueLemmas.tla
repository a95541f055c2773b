---------------------------- MODULE QueueLemmas ----------------------------
(***************************************************************************)
(* What appending to a list and popping its head do to the set of its      *)
(* elements: std::list::emplace_back / pop_front and the vectors of tasks  *)
(* the program keeps; how a finite set of numbers is counted through in    *)
(* order; what a part of a finite set weighs; and that folding a list ends *)
(* (FoldSolved).  Cited by the proofs about every queue of the             *)
(* project, about weights, and about loops.                                *)
(***************************************************************************)
EXTENDS SequencesExt, FiniteSetTheorems, WellFoundedInduction, TLAPS

(* emplace_back / push_back: the new element, and nothing else, is added.   *)
LEMMA PushElems ==
    ASSUME NEW S, NEW s \in Seq(S), NEW e \in S
    PROVE  /\ Append(s, e) \in Seq(S)
           /\ ToSet(Append(s, e)) = ToSet(s) \cup {e}
<1>1. Append(s, e) \in Seq(S)
  OBVIOUS
<1>2. /\ DOMAIN Append(s, e) = DOMAIN s \cup {Len(s) + 1}
      /\ \A i \in DOMAIN s : Append(s, e)[i] = s[i]
      /\ Append(s, e)[Len(s) + 1] = e
  OBVIOUS
<1>3. ToSet(Append(s, e)) = ToSet(s) \cup {e}
  BY <1>2, Zenon DEF ToSet
<1> QED
  BY <1>1, <1>3

(* A list without repetition stays so when the element added is new to it.  *)
LEMMA PushInjective ==
    ASSUME NEW S, NEW s \in Seq(S), NEW e \in S, IsInjective(s), e \notin ToSet(s)
    PROVE  IsInjective(Append(s, e))
<1>1. /\ DOMAIN s = 1..Len(s) /\ Len(s) \in Nat
      /\ DOMAIN Append(s, e) = 1..(Len(s) + 1)
      /\ \A i \in 1..Len(s) : Append(s, e)[i] = s[i]
      /\ Append(s, e)[Len(s) + 1] = e
  OBVIOUS
<1>2. /\ \A i, j \in 1..Len(s) : s[i] = s[j] => i = j
      /\ \A i \in 1..Len(s) : s[i] # e
  BY <1>1 DEF IsInjective, ToSet
<1>3. ASSUME NEW i \in DOMAIN Append(s, e), NEW j \in DOMAIN Append(s, e), Append(s, e)[i] = Append(s, e)[j]
      PROVE i = j
  <2>1. CASE i \in 1..Len(s) /\ j \in 1..Len(s)
    BY <2>1, <1>1, <1>2, <1>3
  <2>2. CASE i = Len(s) + 1 \/ j = Len(s) + 1
    BY <2>2, <1>1, <1>2, <1>3
  <2>3. QED
    BY <1>1, <2>1, <2>2
<1>4. QED
  BY <1>3 DEF IsInjective

(* pop_front: the elements are the head and those that remain.              *)
LEMMA PopElems ==
    ASSUME NEW S, NEW s \in Seq(S), s # <<>>
    PROVE  /\ Head(s) \in S
           /\ Tail(s) \in Seq(S)
           /\ ToSet(s) = ToSet(Tail(s)) \cup {Head(s)}
<1>1. /\ Len(s) \in Nat \ {0}
      /\ Tail(s) \in Seq(S)
      /\ Head(s) = s[1]
      /\ Len(Tail(s)) = Len(s) - 1
      /\ \A i \in 1..(Len(s) - 1) : Tail(s)[i] = s[i + 1]
  OBVIOUS
<1>2. DOMAIN s = 1..Len(s) /\ DOMAIN Tail(s) = 1..(Len(s) - 1)
  BY <1>1
<1>3. ASSUME NEW x \in ToSet(s) PROVE x \in ToSet(Tail(s)) \cup {Head(s)}
  <2>1. PICK i \in 1..Len(s) : x = s[i]
    BY <1>2, <1>3 DEF ToSet
  <2>2. CASE i = 1
    BY <2>1, <2>2, <1>1
  <2>3. CASE i # 1
    <3>1. i - 1 \in DOMAIN Tail(s) /\ Tail(s)[i - 1] = x
      BY <2>1, <2>3, <1>1, <1>2
    <3> QED
      BY <3>1 DEF ToSet
  <2> QED
    BY <2>2, <2>3
<1>4. ASSUME NEW x \in ToSet(Tail(s)) PROVE x \in ToSet(s)
  <2>1. PICK i \in 1..(Len(s) - 1) : x = Tail(s)[i]
    BY <1>2, <1>4 DEF ToSet
  <2>2. i + 1 \in DOMAIN s /\ s[i + 1] = x
    BY <2>1, <1>1, <1>2
  <2> QED
    BY <2>2 DEF ToSet
<1>5. Head(s) \in ToSet(s) /\ Head(s) \in S
  BY <1>1, <1>2 DEF ToSet
<1> QED
  BY <1>1, <1>3, <1>4, <1>5

(* A list without repetition: what is popped is not in what remains.        *)
LEMMA PopInjective ==
    ASSUME NEW S, NEW s \in Seq(S), s # <<>>, IsInjective(s)
    PROVE  /\ IsInjective(Tail(s))
           /\ Head(s) \notin ToSet(Tail(s))
<1>1. /\ Len(s) \in Nat \ {0}
      /\ DOMAIN s = 1..Len(s)
      /\ DOMAIN Tail(s) = 1..(Len(s) - 1)
      /\ Head(s) = s[1]
      /\ \A i \in 1..(Len(s) - 1) : Tail(s)[i] = s[i + 1]
  OBVIOUS
<1>2. \A i, j \in 1..Len(s) : s[i] = s[j] => i = j
  BY <1>1 DEF IsInjective
<1>3. IsInjective(Tail(s))
  BY <1>1, <1>2 DEF IsInjective
<1>4. ASSUME NEW i \in 1..(Len(s) - 1), Tail(s)[i] = Head(s) PROVE FALSE
  <2>1. i + 1 \in 1..Len(s) /\ 1 \in 1..Len(s) /\ s[i + 1] = s[1]
    BY <1>1, <1>4
  <2>2. i + 1 = 1
    BY <2>1, <1>2
  <2> QED
    BY <2>2
<1>5. Head(s) \notin ToSet(Tail(s))
  BY <1>1, <1>4 DEF ToSet
<1> QED
  BY <1>3, <1>5

(* Equal lengths and equal elements: the same list.                         *)
LEMMA SameSeq ==
    ASSUME NEW S, NEW s \in Seq(S), NEW t \in Seq(S), Len(s) = Len(t),
           \A i \in 1..Len(s) : s[i] = t[i]
    PROVE  s = t
  OBVIOUS

(* Three stretches of one queue: how they are bracketed does not matter.    *)
LEMMA ConcatStretches ==
    ASSUME NEW S, NEW r \in Seq(S), NEW s \in Seq(S), NEW t \in Seq(S)
    PROVE  (r \o s) \o t = r \o (s \o t)
<1> DEFINE a == (r \o s) \o t  b == r \o (s \o t)
<1>1. a \in Seq(S) /\ b \in Seq(S) /\ Len(a) = Len(b)
  OBVIOUS
<1>2. ASSUME NEW i \in 1..Len(a) PROVE a[i] = b[i]
  OBVIOUS
<1> QED
  BY <1>1, <1>2, SameSeq

(* Appending to the last stretch of a queue appends to the queue.           *)
LEMMA ConcatPush ==
    ASSUME NEW S, NEW s \in Seq(S), NEW t \in Seq(S), NEW e \in S
    PROVE  s \o Append(t, e) = Append(s \o t, e)
<1> DEFINE a == s \o Append(t, e)  b == Append(s \o t, e)
<1>1. a \in Seq(S) /\ b \in Seq(S) /\ Len(a) = Len(b)
  OBVIOUS
<1>2. ASSUME NEW i \in 1..Len(a) PROVE a[i] = b[i]
  OBVIOUS
<1> QED
  BY <1>1, <1>2, SameSeq

(* What is popped, followed by what remains, is the list.                   *)
LEMMA PopConcat ==
    ASSUME NEW S, NEW s \in Seq(S), s # <<>>
    PROVE  s = <<Head(s)>> \o Tail(s)
<1> DEFINE a == <<Head(s)>> \o Tail(s)
<1>1. Head(s) \in S /\ a \in Seq(S) /\ Len(a) = Len(s)
  OBVIOUS
<1>2. ASSUME NEW i \in 1..Len(s) PROVE s[i] = a[i]
  OBVIOUS
<1> QED
  BY <1>1, <1>2, SameSeq

(* The head of one list moves to the back of another: read one after the    *)
(* other, the two lists are unchanged.                                      *)
LEMMA MoveHead ==
    ASSUME NEW S, NEW s \in Seq(S), NEW t \in Seq(S), t # <<>>
    PROVE  Append(s, Head(t)) \o Tail(t) = s \o t
<1> DEFINE a == Append(s, Head(t)) \o Tail(t)  b == s \o t
<1>1. a \in Seq(S) /\ b \in Seq(S) /\ Len(a) = Len(b)
  OBVIOUS
<1>2. ASSUME NEW i \in 1..Len(a) PROVE a[i] = b[i]
  OBVIOUS
<1> QED
  BY <1>1, <1>2, SameSeq

(* The empty list adds nothing.                                             *)
LEMMA ConcatNothing ==
    ASSUME NEW S, NEW s \in Seq(S)
    PROVE  s \o <<>> = s /\ <<>> \o s = s
<1>1. Len(s \o <<>>) = Len(s) /\ Len(<<>> \o s) = Len(s)
  OBVIOUS
<1> QED
  BY <1>1, SameSeq

(* push_back and pop_front commute on a list that is not empty.             *)
LEMMA TailPush ==
    ASSUME NEW S, NEW s \in Seq(S), NEW e \in S, s # <<>>
    PROVE  Tail(Append(s, e)) = Append(Tail(s), e)
<1> DEFINE a == Tail(Append(s, e))  b == Append(Tail(s), e)
<1>1. a \in Seq(S) /\ b \in Seq(S) /\ Len(a) = Len(s) /\ Len(b) = Len(s)
    OBVIOUS
<1>2. ASSUME NEW i \in 1..Len(s) PROVE a[i] = b[i]
  <2>1. a[i] = Append(s, e)[i + 1]
    OBVIOUS
  <2>2. CASE i = Len(s)
    BY <2>1, <2>2
  <2>3. CASE i # Len(s)
    BY <2>1, <2>3
  <2>4. QED
    BY <2>2, <2>3
<1>3. QED
    BY <1>1, <1>2, SameSeq

(* A list and what follows it: the list is a prefix.                        *)
LEMMA PrefixOfConcat ==
    ASSUME NEW S, NEW s \in Seq(S), NEW t \in Seq(S)
    PROVE  IsPrefix(s, s \o t)
<1>1. Len(s) <= Len(s \o t)
    OBVIOUS
<1>2. SubSeq(s, 1, Len(s)) \in Seq(S) /\ SubSeq(s \o t, 1, Len(s)) \in Seq(S)
    OBVIOUS
<1>3. SubSeq(s, 1, Len(s)) = SubSeq(s \o t, 1, Len(s))
    OBVIOUS
<1>4. QED
    BY <1>1, <1>3 DEF IsPrefix

(* A prefix stays one when the longer list grows.                           *)
LEMMA PrefixPush ==
    ASSUME NEW S, NEW s \in Seq(S), NEW t \in Seq(S), NEW e \in S, IsPrefix(s, t)
    PROVE  IsPrefix(s, Append(t, e))
<1>1. Len(s) <= Len(t) /\ SubSeq(s, 1, Len(s)) = SubSeq(t, 1, Len(s))
    BY DEF IsPrefix
<1>2. Len(s) <= Len(Append(t, e))
    BY <1>1
<1>3. SubSeq(Append(t, e), 1, Len(s)) = SubSeq(t, 1, Len(s))
    BY <1>1
<1>4. QED
    BY <1>1, <1>2, <1>3 DEF IsPrefix

(* insert at begin(): an element that is new stays the only one of its kind.*)
LEMMA FrontElems ==
    ASSUME NEW S, NEW s \in Seq(S), NEW e \in S, IsInjective(s), e \notin ToSet(s)
    PROVE  /\ <<e>> \o s \in Seq(S)
           /\ IsInjective(<<e>> \o s)
           /\ ToSet(<<e>> \o s) = ToSet(s) \cup {e}
<1> DEFINE t == <<e>> \o s
<1>1. /\ t \in Seq(S) /\ Len(s) \in Nat /\ DOMAIN t = 1..(Len(s) + 1) /\ DOMAIN s = 1..Len(s)
      /\ t[1] = e
      /\ \A i \in 1..Len(s) : t[i + 1] = s[i]
  OBVIOUS
<1> HIDE DEF t
<1>2. \A i \in 2..(Len(s) + 1) : i - 1 \in 1..Len(s) /\ t[i] = s[i - 1]
  BY <1>1
<1>3. IsInjective(t)
  <2>1. \A i \in 1..Len(s) : s[i] # e
    BY <1>1 DEF ToSet
  <2>2. ASSUME NEW i \in 1..(Len(s) + 1), NEW j \in 1..(Len(s) + 1), t[i] = t[j] PROVE i = j
    <3>1. CASE i = 1 \/ j = 1
      BY <1>1, <1>2, <2>1, <2>2, <3>1
    <3>2. CASE i # 1 /\ j # 1
      <4>1. i \in 2..(Len(s) + 1) /\ j \in 2..(Len(s) + 1)
        BY <1>1, <3>2
      <4>2. i - 1 \in DOMAIN s /\ j - 1 \in DOMAIN s /\ t[i] = s[i - 1] /\ t[j] = s[j - 1]
        BY <1>1, <1>2, <4>1
      <4>3. i - 1 = j - 1
        BY <2>2, <4>2 DEF IsInjective
      <4> QED
        BY <4>1, <4>3
    <3>3. QED
      BY <3>1, <3>2
  <2>3. QED
    BY <1>1, <2>2 DEF IsInjective
<1>4. ToSet(t) = ToSet(s) \cup {e}
  <2>1. ASSUME NEW x \in ToSet(t) PROVE x \in ToSet(s) \cup {e}
    BY <1>1, <1>2, <2>1 DEF ToSet
  <2>2. ASSUME NEW x \in ToSet(s) \cup {e} PROVE x \in ToSet(t)
    <3>1. PICK i \in 1..(Len(s) + 1) : t[i] = x
      <4>1. CASE x = e
        BY <1>1, <4>1
      <4>2. CASE x \in ToSet(s)
        <5>1. PICK j \in 1..Len(s) : s[j] = x
          BY <1>1, <4>2 DEF ToSet
        <5>2. QED
          BY <1>1, <5>1
      <4>3. QED
        BY <2>2, <4>1, <4>2
    <3>2. QED
      BY <1>1, <3>1 DEF ToSet
  <2>3. QED
    BY <2>1, <2>2
<1>5. QED
  BY <1>1, <1>3, <1>4 DEF t

(* Those of a set of numbers that come before x.                            *)
Before(S, x) == {w \in S : w < x}

(* No two of a finite set of numbers have the same rank in it.              *)
LEMMA RankInjective ==
    ASSUME NEW S, IsFiniteSet(S), S \subseteq Nat, NEW x \in S, NEW y \in S,
           Cardinality(Before(S, x)) = Cardinality(Before(S, y))
    PROVE  x = y
<1>1. ASSUME NEW a \in S, NEW b \in S, a < b
      PROVE  Cardinality(Before(S, a)) # Cardinality(Before(S, b))
    <2>1. /\ IsFiniteSet(Before(S, b)) /\ Before(S, a) \subseteq Before(S, b)
          /\ a \in Before(S, b) /\ a \notin Before(S, a)
        <3>1. Before(S, b) \subseteq S
            BY DEF Before
        <3>2. IsFiniteSet(Before(S, b))
            BY <3>1, FS_Subset
        <3>3. Before(S, a) \subseteq Before(S, b)
            <4> SUFFICES ASSUME NEW w \in S, w < a PROVE w < b
                BY DEF Before
            <4>1. w \in Nat /\ a \in Nat /\ b \in Nat
                OBVIOUS
            <4>2. QED
                BY <1>1, <4>1
        <3>4. a \in Before(S, b) /\ a \notin Before(S, a)
            BY <1>1 DEF Before
        <3>5. QED
            BY <3>2, <3>3, <3>4
    <2>2. Before(S, b) # Before(S, a)
        BY <2>1
    <2>3. Cardinality(Before(S, a)) # Cardinality(Before(S, b))
        BY <2>1, <2>2, FS_Subset
    <2>4. QED
        BY <2>3
<1>2. x < y \/ y < x \/ x = y
    OBVIOUS
<1>3. QED
    BY <1>1, <1>2

(* And every rank up to their number is that of one of them.                *)
LEMMA RankOnto ==
    ASSUME NEW S, IsFiniteSet(S), S \subseteq Nat, NEW n \in 1..Cardinality(S)
    PROVE  \E x \in S : Cardinality(Before(S, x)) = n - 1
<1> DEFINE rank(x) == Cardinality(Before(S, x))
           f == [x \in S |-> rank(x) + 1]
           T == 1..Cardinality(S)
<1>1. Cardinality(S) \in Nat
    BY FS_CardinalityType
<1>2. ASSUME NEW x \in S PROVE rank(x) \in Nat /\ rank(x) + 1 \in T
    <2>1. Before(S, x) \in SUBSET S /\ Before(S, x) # S
        <3>1. x \notin Before(S, x)
            BY DEF Before
        <3>2. QED
            BY <3>1 DEF Before
    <2>2. rank(x) \in Nat /\ rank(x) <= Cardinality(S) /\ rank(x) # Cardinality(S)
        BY <2>1, FS_Subset, FS_CardinalityType
    <2>3. QED
        BY <2>2, <1>1
<1>3. ASSUME NEW x \in S, NEW y \in S, rank(x) = rank(y) PROVE x = y
    BY <1>3, RankInjective
<1> HIDE DEF rank
<1>4. f \in [S -> T]
    BY <1>2
<1>5. ASSUME NEW x \in S, NEW y \in S, f[x] = f[y] PROVE x = y
    BY <1>2, <1>3, <1>5
<1>6. f \in Injection(S, T)
    <2> HIDE DEF f, T
    <2>1. DOMAIN f = S
        BY <1>4
    <2>2. QED
        BY <1>4, <1>5, <2>1, Zenon DEF Injection, IsInjective
<1>7. IsFiniteSet(T) /\ Cardinality(T) = Cardinality(S)
    BY <1>1, FS_Interval
<1>8. f \in Surjection(S, T)
    <2> HIDE DEF f, T
    <2>1. QED
        BY <1>6, <1>7, FS_Injection
<1>9. PICK x \in S : f[x] = n
    <2>1. n \in T
        OBVIOUS
    <2> HIDE DEF f, T
    <2>2. QED
        BY <1>8, <2>1, Zenon DEF Surjection
<1>10. rank(x) = n - 1
    BY <1>9, <1>2
<1>11. QED
    BY <1>10 DEF rank


-----------------------------------------------------------------------------
(* What the elements of a set weigh together: the sum of the community      *)
(* modules, which takes them away one by one in an order nobody knows.      *)
SumOf(w, S) == MapThenSumSet(LAMBDA x : w[x], S)

(* The equations of that recursion, over the subsets of S.                  *)
Solves(w, S, f) ==
    f = [s \in SUBSET S |-> IF s = {} THEN 0
                            ELSE w[CHOOSE x \in s : TRUE] + f[s \ {CHOOSE x \in s : TRUE}]]

(* The sum is the solution the recursion chooses.                           *)
LEMMA SumIs ==
    ASSUME NEW w, NEW S
    PROVE  SumOf(w, S) = (CHOOSE f : Solves(w, S, f))[S]
  BY Zenon DEF SumOf, Solves, MapThenSumSet, MapThenFoldSet

(* One element for each unit of weight: how many there are is the sum, said *)
(* without a recursion.                                                     *)
Units(w, S) == UNION {{x} \X (1..w[x]) : x \in S}

(* A finite set has finitely many of them.                                  *)
LEMMA UnitsFinite ==
    ASSUME NEW S, IsFiniteSet(S), NEW w, \A e \in S : w[e] \in Nat
    PROVE  IsFiniteSet(Units(w, S))
<1> DEFINE f == [x \in S |-> {x} \X (1..w[x])]
           T == {{x} \X (1..w[x]) : x \in S}
<1>1. f \in Surjection(S, T)
  BY DEF Surjection
<1>2. IsFiniteSet(T)
  BY <1>1, FS_Surjection
<1>3. ASSUME NEW x \in S PROVE IsFiniteSet({x} \X (1..w[x]))
  <2>1. IsFiniteSet({x})
    BY FS_Singleton
  <2>2. 1 \in Int /\ w[x] \in Int
    OBVIOUS
  <2>3. IsFiniteSet(1..w[x])
    BY <2>2, FS_Interval
  <2> QED
    BY <2>1, <2>3, FS_Product
<1>4. IsFiniteSet(UNION T)
  BY <1>2, <1>3, FS_UNION
<1> QED
  BY <1>4 DEF Units

(* Each element has its own.                                                *)
LEMMA UnitsAdd ==
    ASSUME NEW S, IsFiniteSet(S), NEW w, \A e \in S : w[e] \in Nat, NEW x \in S
    PROVE  /\ Cardinality(Units(w, S)) = w[x] + Cardinality(Units(w, S \ {x}))
           /\ Cardinality(Units(w, S)) \in Nat
<1> DEFINE A == {x} \X (1..w[x])
           B == Units(w, S \ {x})
<1>1. Units(w, S) = A \cup B /\ A \cap B = {}
  BY DEF Units
<1>2. IsFiniteSet(Units(w, S)) /\ B \subseteq Units(w, S)
  BY UnitsFinite DEF Units
<1>3. IsFiniteSet(B)
  BY <1>2, FS_Subset
<1>4. IsFiniteSet(A) /\ Cardinality(A) = w[x]
  <2>1. IsFiniteSet(1..w[x]) /\ Cardinality(1..w[x]) = w[x]
    BY FS_Interval
  <2>2. IsFiniteSet({x}) /\ Cardinality({x}) = 1
    BY FS_Singleton
  <2>3. IsFiniteSet(A) /\ Cardinality(A) = 1 * w[x]
    BY ZenonT(60), <2>1, <2>2, FS_Product
  <2> QED
    BY <2>3
<1> HIDE DEF A, B
<1>5. Cardinality(A \cup B) = Cardinality(A) + Cardinality(B) - Cardinality({})
  BY <1>1, <1>3, <1>4, FS_Union
<1>6. Cardinality(B) \in Nat /\ Cardinality(Units(w, S)) \in Nat
  BY <1>2, <1>3, FS_CardinalityType
<1> QED
  BY <1>1, <1>4, <1>5, <1>6, FS_EmptySet DEF B

(* The number of units solves the equations, and nothing else does: a least *)
(* subset where another solution differs would have a lesser one.           *)
LEMMA SumIsUnits ==
    ASSUME NEW S, IsFiniteSet(S), NEW w, \A e \in S : w[e] \in Nat
    PROVE  SumOf(w, S) = Cardinality(Units(w, S))
<1> DEFINE g == [s \in SUBSET S |-> Cardinality(Units(w, s))]
           pick(s) == CHOOSE x \in s : TRUE
<1>1. ASSUME NEW s \in SUBSET S
      PROVE  /\ s = {} => Cardinality(Units(w, s)) = 0
             /\ s # {} => /\ pick(s) \in s
                          /\ Cardinality(Units(w, s)) = w[pick(s)] + Cardinality(Units(w, s \ {pick(s)}))
  <2>1. Units(w, {}) = {}
    BY DEF Units
  <2>2. IsFiniteSet(s)
    BY FS_Subset
  <2>3. ASSUME s # {} PROVE pick(s) \in s
    BY <2>3
  <2> HIDE DEF pick
  <2>4. ASSUME s # {}
        PROVE  Cardinality(Units(w, s)) = w[pick(s)] + Cardinality(Units(w, s \ {pick(s)}))
    BY <2>2, <2>3, <2>4, UnitsAdd
  <2> QED
    BY <2>1, <2>3, <2>4, FS_EmptySet
<1>2. Solves(w, S, g)
  <2>1. ASSUME NEW s \in SUBSET S
        PROVE  g[s] = IF s = {} THEN 0 ELSE w[pick(s)] + g[s \ {pick(s)}]
    BY <1>1
  <2> HIDE DEF g
  <2>2. g = [s \in SUBSET S |-> g[s]]
    BY DEF g
  <2>3. g = [s \in SUBSET S |-> IF s = {} THEN 0 ELSE w[pick(s)] + g[s \ {pick(s)}]]
    BY <2>1, <2>2, Zenon
  <2> QED
    BY <2>3, Zenon DEF Solves
<1> DEFINE f == CHOOSE h : Solves(w, S, h)
<1>3. Solves(w, S, f)
  BY <1>2
<1> HIDE DEF f
<1> DEFINE Wrong == {s \in SUBSET S : f[s] # Cardinality(Units(w, s))}
<1>4. ASSUME Wrong # {} PROVE FALSE
  <2>1. FiniteSubsetsOf(S) = SUBSET S
    BY FS_FiniteSubsetsOfFinite
  <2> HIDE DEF Wrong
  <2>2. Wrong \subseteq SUBSET S
    BY DEF Wrong
  <2>3. IsWellFoundedOn(StrictSubsetOrdering(S), SUBSET S)
    BY <2>1, FS_StrictSubsetOrderingWellFounded
  <2>4. PICK s \in Wrong : \A t \in Wrong : <<t, s>> \notin StrictSubsetOrdering(S)
    BY <1>4, <2>2, <2>3, WFMin
  <2> USE DEF Wrong
  <2>5. s \in SUBSET S /\ f[s] # Cardinality(Units(w, s))
    OBVIOUS
  <2>6. f[s] = IF s = {} THEN 0 ELSE w[pick(s)] + f[s \ {pick(s)}]
    BY <1>3, <2>5 DEF Solves
  <2>7. s # {} /\ pick(s) \in s
    BY <1>1, <2>5, <2>6
  <2>8. s \ {pick(s)} \in SUBSET S /\ s \ {pick(s)} # s
    BY <2>5, <2>7
  <2> HIDE DEF pick
  <2>9. <<s \ {pick(s)}, s>> \in StrictSubsetOrdering(S)
    BY <2>5, <2>8 DEF StrictSubsetOrdering
  <2>10. f[s \ {pick(s)}] = Cardinality(Units(w, s \ {pick(s)}))
    BY <2>4, <2>8, <2>9
  <2> QED
    BY <1>1, <2>5, <2>6, <2>7, <2>10
<1>5. f[S] = Cardinality(Units(w, S))
  BY <1>4
<1> QED
  BY <1>5, SumIs DEF f

(* A part of a finite set is not heavier than the whole of it.              *)
LEMMA SumMonotone ==
    ASSUME NEW S, IsFiniteSet(S), NEW w, \A e \in S : w[e] \in Nat, NEW T \in SUBSET S
    PROVE  SumOf(w, S) \in Nat /\ SumOf(w, T) \in Nat /\ SumOf(w, T) <= SumOf(w, S)
<1>1. IsFiniteSet(T)
  BY FS_Subset
<1>2. SumOf(w, S) = Cardinality(Units(w, S)) /\ IsFiniteSet(Units(w, S))
  BY SumIsUnits, UnitsFinite
<1>3. Units(w, T) \subseteq Units(w, S)
  BY DEF Units
<1>4. SumOf(w, T) = Cardinality(Units(w, T))
  BY <1>1, SumIsUnits
<1> QED
  BY <1>2, <1>3, <1>4, FS_Subset, FS_CardinalityType

-----------------------------------------------------------------------------
(* Loops over a list: FoldLeft chooses a function that solves equations over *)
(* the sets of places (MapThenFoldSet); that there is one, and how to count  *)
(* through it.                                                               *)

(* A set of numbers that is not empty has a least one.                      *)
LEMMA LeastNumber ==
    ASSUME NEW T, T \subseteq Nat, T # {}
    PROVE  \E k \in T : \A m \in T : ~(m < k)
<1>1. PICK k \in T : \A m \in T : <<m, k>> \notin OpToRel(<, Nat)
    BY NatLessThanWellFounded, WFMin
<1>2. ASSUME NEW m \in T, m < k PROVE FALSE
    <2>1. m \in Nat /\ k \in Nat
        OBVIOUS
    <2>2. <<m, k>> \in OpToRel(<, Nat)
        BY <1>2, <2>1 DEF OpToRel
    <2>3. QED
        BY <1>1, <2>2
<1>3. QED
  BY <1>1, <1>2

(* The greatest of a set that ends with n.                                  *)
LEMMA MaxIs ==
    ASSUME NEW n \in Nat, NEW s \in SUBSET (1..n), n \in s
    PROVE  Max(s) = n
<1>1. \A y \in s : n >= y
  OBVIOUS
<1>2. \A x \in s : (\A y \in s : x >= y) => x = n
  OBVIOUS
<1> QED
  BY <1>1, <1>2, Zenon DEF Max

(* The equations of FoldLeft, over the sets of places of a list.            *)
FoldSolves(g, base, seq, f) ==
    \A s \in DOMAIN f : f[s] = IF s = {} THEN base ELSE g[<<f[s \ {Max(s)}], seq[Max(s)]>>]

(* Folding a list step by step comes to an end, whatever a step does: a     *)
(* solution for n places is one for n + 1, with the last step added.        *)
LEMMA FoldSolved ==
    ASSUME NEW C, NEW D, NEW g \in [D \X C -> D], NEW base \in D, NEW seq \in Seq(C)
    PROVE  \E f \in [SUBSET (DOMAIN seq) -> D] : FoldSolves(g, base, seq, f)
<1> DEFINE Solved(n) == \E f \in [SUBSET (1..n) -> D] : FoldSolves(g, base, seq, f)
           T == {n \in 0..Len(seq) : ~Solved(n)}
<1>1. Len(seq) \in Nat /\ DOMAIN seq = 1..Len(seq)
  OBVIOUS
<1>2. Solved(0)
  <2> DEFINE f == [s \in SUBSET (1..0) |-> base]
  <2>1. f \in [SUBSET (1..0) -> D] /\ DOMAIN f = SUBSET (1..0)
    OBVIOUS
  <2>2. \A s \in SUBSET (1..0) : s = {}
    OBVIOUS
  <2>3. FoldSolves(g, base, seq, f)
    BY <2>1, <2>2 DEF FoldSolves
  <2> QED
    BY <2>1, <2>3
<1>3. ASSUME NEW n \in Nat, n + 1 \in 1..Len(seq), Solved(n) PROVE Solved(n + 1)
  <2>2. n \in Nat /\ seq[n + 1] \in C
    BY <1>3
  <2>1. PICK f \in [SUBSET (1..n) -> D] : FoldSolves(g, base, seq, f)
    BY <1>3
  <2> DEFINE h == [s \in SUBSET (1..(n + 1)) |->
                     IF n + 1 \in s THEN g[<<f[s \ {n + 1}], seq[n + 1]>>] ELSE f[s]]
  <2>3. ASSUME NEW s \in SUBSET (1..(n + 1)), n + 1 \in s
        PROVE  /\ s \ {n + 1} \in SUBSET (1..n) /\ Max(s) = n + 1
               /\ g[<<f[s \ {n + 1}], seq[n + 1]>>] \in D
    <3>1. s \ {n + 1} \in SUBSET (1..n)
      BY <2>2
    <3>2. n + 1 \in Nat
      BY <2>2
    <3>3. Max(s) = n + 1
      BY <2>3, <3>2, MaxIs
    <3>4. f[s \ {n + 1}] \in D
      BY <3>1
    <3>5. <<f[s \ {n + 1}], seq[n + 1]>> \in D \X C
      BY <3>4, <2>2
    <3> QED
      BY <3>1, <3>3, <3>5
  <2>4. ASSUME NEW s \in SUBSET (1..(n + 1)), n + 1 \notin s
        PROVE  s \in SUBSET (1..n) /\ \A x : s \ {x} \in SUBSET (1..n) /\ s \ {x} \in SUBSET (1..(n + 1)) /\ n + 1 \notin s \ {x}
    <3>1. ASSUME NEW i \in s PROVE i \in 1..n
      BY <2>2, <2>4
    <3> QED
      BY <3>1, <2>4
  <2>5. h \in [SUBSET (1..(n + 1)) -> D] /\ DOMAIN h = SUBSET (1..(n + 1))
    <3>1. ASSUME NEW s \in SUBSET (1..(n + 1)) PROVE (IF n + 1 \in s THEN g[<<f[s \ {n + 1}], seq[n + 1]>>] ELSE f[s]) \in D
      BY <2>3, <2>4
    <3> QED
      BY <3>1
  <2>6. ASSUME NEW s \in SUBSET (1..(n + 1))
        PROVE  h[s] = IF s = {} THEN base ELSE g[<<h[s \ {Max(s)}], seq[Max(s)]>>]
    <3>1. CASE n + 1 \in s
      <4>1. s \ {n + 1} \in SUBSET (1..(n + 1)) /\ n + 1 \notin s \ {n + 1}
        OBVIOUS
      <4>2. h[s \ {n + 1}] = f[s \ {n + 1}] /\ h[s] = g[<<f[s \ {n + 1}], seq[n + 1]>>]
        BY <3>1, <4>1
      <4> QED
        BY <3>1, <2>3, <4>2
    <3>2. CASE n + 1 \notin s
      <4>1. s \in SUBSET (1..n) /\ h[s] = f[s]
        BY <3>2, <2>4
      <4>2. h[s \ {Max(s)}] = f[s \ {Max(s)}]
        BY <3>2, <2>4
      <4>3. f[s] = IF s = {} THEN base ELSE g[<<f[s \ {Max(s)}], seq[Max(s)]>>]
        BY <2>1, <4>1 DEF FoldSolves
      <4> QED
        BY <4>1, <4>2, <4>3
    <3> QED
      BY <3>1, <3>2
  <2> HIDE DEF h
  <2>7. FoldSolves(g, base, seq, h)
    BY <2>5, <2>6 DEF FoldSolves
  <2> QED
    BY <2>5, <2>7
<1> HIDE DEF Solved
<1>4. ASSUME T # {} PROVE FALSE
  <2>1. T \subseteq Nat
    OBVIOUS
  <2>2. PICK k \in T : \A m \in T : ~(m < k)
    BY <1>4, <2>1, LeastNumber
  <2>3. k # 0 /\ k \in Nat /\ k <= Len(seq)
    BY <1>2, <1>1
  <2>4. k - 1 \in Nat /\ k - 1 \in 0..Len(seq) /\ k \in 1..Len(seq) /\ k - 1 < k /\ (k - 1) + 1 = k
    BY <2>3, <1>1
  <2>5. Solved(k - 1)
    BY <2>2, <2>4
  <2> QED
    BY <2>4, <2>5, <1>3
<1>5. Solved(Len(seq))
  BY <1>4, <1>1
<1> QED
  BY <1>5, <1>1 DEF Solved

(* Two counts from nothing that rise alike.                                 *)
LEMMA SameCount ==
    ASSUME NEW n \in Nat, NEW f, NEW g, \A i \in 0..n : f[i] \in Int /\ g[i] \in Int,
           \A i \in 0..n : i # 0 => f[i] - f[i - 1] = g[i] - g[i - 1],
           f[0] = 0, g[0] = 0
    PROVE  f[n] = g[n]
<1> DEFINE T == {i \in 0..n : f[i] # g[i]}
<1>1. ASSUME T # {} PROVE FALSE
  <2>1. T \subseteq Nat
    OBVIOUS
  <2>2. PICK k \in T : \A m \in T : ~(m < k)
    BY <1>1, <2>1, LeastNumber
  <2>3. k \in 0..n /\ f[k] # g[k]
    OBVIOUS
  <2>4. k # 0 /\ k - 1 \in 0..n /\ k - 1 < k
    BY <2>3
  <2>5. f[k - 1] = g[k - 1]
    BY <2>2, <2>4
  <2>6. f[k] - f[k - 1] = g[k] - g[k - 1]
    BY <2>3, <2>4
  <2>7. f[k] \in Int /\ f[k-1] \in Int /\ g[k] \in Int /\ g[k-1] \in Int
    BY <2>3, <2>4
  <2> QED
    BY <2>3, <2>5, <2>6, <2>7
<1> QED
  BY <1>1

(* The greatest of a set of places is one of them.                          *)
LEMMA MaxIn ==
    ASSUME NEW n \in Nat, NEW s \in SUBSET (1..n), s # {}
    PROVE  Max(s) \in s
<1> DEFINE T == {n - i : i \in s}
<1>1. T \subseteq Nat /\ T # {}
  <2>1. \A i \in s : n - i \in Nat
    OBVIOUS
  <2> QED
    BY <2>1
<1>2. PICK k \in T : \A m \in T : ~(m < k)
  BY <1>1, LeastNumber
<1>3. PICK x \in s : k = n - x
  OBVIOUS
<1>4. ASSUME NEW y \in s PROVE x >= y
  <2>1. n - y \in T
    OBVIOUS
  <2>2. ~(n - y < n - x)
    BY <2>1, <1>2, <1>3
  <2> QED
    BY <2>2
<1>5. \E z \in s : \A y \in s : z >= y
  BY <1>4
<1> QED
  BY <1>5, Zenon DEF Max

(* The stretches of a list that a fold goes through.                        *)
LEMMA Stretches ==
    ASSUME NEW L \in Nat, NEW n \in 1..L
    PROVE  /\ 1..n \in SUBSET (1..L) /\ 1..n # {} /\ 1..(n - 1) \in SUBSET (1..L)
           /\ Max(1..n) = n /\ (1..n) \ {n} = 1..(n - 1)
<1>1. n \in Nat /\ 1..n \in SUBSET (1..n) /\ n \in 1..n
  OBVIOUS
<1>2. Max(1..n) = n
  BY <1>1, MaxIs
<1> QED
  BY <1>2

(* erase of one place.                                                      *)
LEMMA RemoveAtIs ==
    ASSUME NEW S, NEW s \in Seq(S), NEW k \in 1..Len(s)
    PROVE  /\ RemoveAt(s, k) \in Seq(S) /\ Len(RemoveAt(s, k)) = Len(s) - 1 /\ Len(s) \in Nat
           /\ \A i \in 1..(Len(s) - 1) : RemoveAt(s, k)[i] = IF i < k THEN s[i] ELSE s[i + 1]
<1> DEFINE a == SubSeq(s, 1, k - 1)
           b == SubSeq(s, k + 1, Len(s))
<1>1. /\ a \in Seq(S) /\ Len(a) = k - 1 /\ \A i \in 1..(k - 1) : a[i] = s[i]
      /\ b \in Seq(S) /\ Len(b) = Len(s) - k /\ \A i \in 1..(Len(s) - k) : b[i] = s[k + i]
  OBVIOUS
<1> HIDE DEF a, b
<1>2. Len(s) \in Nat /\ k \in Nat /\ 1 <= k /\ k <= Len(s)
  OBVIOUS
<1> DEFINE r == a \o b
<1>3. /\ r \in Seq(S) /\ Len(r) = Len(s) - 1
      /\ \A i \in 1..Len(r) : r[i] = IF i <= Len(a) THEN a[i] ELSE b[i - Len(a)]
  <2>1. a \in Seq(S) /\ b \in Seq(S) /\ Len(a) \in Nat /\ Len(b) \in Nat
    BY <1>1
  <2>2. r \in Seq(S) /\ Len(r) = Len(a) + Len(b)
    BY <2>1
  <2>3. ASSUME NEW i \in 1..(Len(a) + Len(b)) PROVE r[i] = IF i <= Len(a) THEN a[i] ELSE b[i - Len(a)]
    BY <2>1
  <2> HIDE DEF r
  <2> QED
    BY <2>2, <2>3, <1>1, <1>2
<1> HIDE DEF r
<1>4. ASSUME NEW i \in 1..(Len(s) - 1) PROVE r[i] = IF i < k THEN s[i] ELSE s[i + 1]
  <2>1. CASE i < k
    BY <2>1, <1>1, <1>2, <1>3
  <2>2. CASE i >= k
    <3>1. i - Len(a) \in 1..(Len(s) - k) /\ ~(i <= Len(a)) /\ k + (i - Len(a)) = i + 1
      BY <2>2, <1>1, <1>2
    <3> QED
      BY <3>1, <2>2, <1>1, <1>2, <1>3
  <2> QED
    BY <2>1, <2>2, <1>2
<1>5. RemoveAt(s, k) = r
  BY Zenon DEF RemoveAt, a, b, r
<1> QED
  BY <1>2, <1>3, <1>4, <1>5

(* What holds at the start and is passed on holds to the end.               *)
LEMMA CountUp ==
    ASSUME NEW L \in Nat, NEW S, 0 \in S, \A n \in 1..L : n - 1 \in S => n \in S
    PROVE  L \in S
<1> DEFINE T == {n \in 0..L : n \notin S}
<1>1. ASSUME T # {} PROVE FALSE
  <2>1. T \subseteq Nat
    OBVIOUS
  <2>2. PICK k \in T : \A m \in T : ~(m < k)
    BY <1>1, <2>1, LeastNumber
  <2>3. k \in 1..L /\ k - 1 \in 0..L /\ k - 1 < k
    OBVIOUS
  <2>4. k - 1 \in S
    BY <2>2, <2>3
  <2> QED
    BY <2>3, <2>4
<1> QED
  BY <1>1
=============================================================================
