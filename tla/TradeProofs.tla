---------------------------- MODULE TradeProofs ----------------------------
(* Proofs about Trade, for any players, items and places: the two sides of  *)
(* a trade agree with each other, the table of offers with both, the offers *)
(* stand until the trade is over, and both change hands or neither does.    *)
(* And about Shops, for any players, NPCs and references.                   *)
EXTENDS Trade, Shops, QueueLemmas, TLAPS

(* The inductive invariant: that both sides agree is what makes the close   *)
(* of one of them free exactly the offers of the two.                       *)
IInv == TypeOK /\ PartnersAgree /\ TableExact

TradeTypeOK ==
    /\ tradeState \in [Players -> {"none", "initiated", "accept", "acknowledge"}]
    /\ tradePartner \in [Players -> Players \cup {None}]
    /\ tradeItem \in [Players -> Items \cup {None}]
    /\ tradeItems \in [Items -> Players \cup {None}]
    /\ held \in [Items -> Nat]

PlaceTypeOK ==
    /\ place \in [Items -> Players \cup {Ground, Gone} \cup Containers]
    /\ square \in [Players -> Squares]

LEMMA TypeParts == TypeOK <=> TradeTypeOK /\ PlaceTypeOK
  BY DEF TypeOK, TradeTypeOK, PlaceTypeOK

-----------------------------------------------------------------------------
(* Who is closed together with the players ps.                              *)
Both(ps) == (ps \cup {tradePartner[p] : p \in ps}) \cap Players

(* Partners are closed together or not at all.                              *)
LEMMA BothOrNone ==
    ASSUME IInv, NEW ps \in SUBSET Players,
           NEW p \in Players, p \notin Both(ps), tradePartner[p] # None
    PROVE  tradePartner[p] \in Players /\ tradePartner[p] \notin Both(ps)
<1> DEFINE r == tradePartner[p]
<1>1. r \in Players /\ tradePartner[r] = p
  BY TypeParts DEF IInv, TradeTypeOK, PartnersAgree
<1>2. ASSUME r \in ps PROVE FALSE
  BY <1>1, <1>2 DEF Both
<1>3. ASSUME NEW s \in ps, r = tradePartner[s] PROVE FALSE
  <2>1. r # None
    OBVIOUS
  <2>2. tradePartner[r] = s
    BY <1>3, <2>1 DEF IInv, PartnersAgree
  <2> QED
    BY <1>1, <1>3, <2>2 DEF Both
<1> QED
  BY <1>1, <1>2, <1>3 DEF Both

(* internalCloseTrade keeps the types of the trade.                         *)
LEMMA CloseTypes ==
    ASSUME IInv, NEW ps \in SUBSET Players, CloseAll(ps)
    PROVE  TradeTypeOK'
<1>1. \A x \in Items : tradeItems[x] # None => held[x] = 1
  BY DEF IInv, TableExact
<1> QED
  BY <1>1, TypeParts DEF IInv, TradeTypeOK, CloseAll

(* It frees both sides of every trade it closes and no other.               *)
LEMMA CloseAgrees ==
    ASSUME IInv, NEW ps \in SUBSET Players, CloseAll(ps)
    PROVE  PartnersAgree'
<1> USE DEF Both
<1>1. /\ tradeState' = [q \in Players |-> IF q \in Both(ps) THEN "none" ELSE tradeState[q]]
      /\ tradePartner' = [q \in Players |-> IF q \in Both(ps) THEN None ELSE tradePartner[q]]
      /\ tradeItem' = [q \in Players |-> IF q \in Both(ps) THEN None ELSE tradeItem[q]]
  BY DEF CloseAll
<1> HIDE DEF Both
<1> SUFFICES ASSUME NEW p \in Players
             PROVE  /\ tradeState'[p] = "none" <=> tradePartner'[p] = None
                    /\ tradePartner'[p] # None =>
                          /\ tradePartner'[tradePartner'[p]] = p
                          /\ tradeItem'[p] # None \/ tradeItem'[tradePartner'[p]] # None
                    /\ tradeState'[p] = "initiated" => tradeItem'[p] # None
                    /\ tradeState'[p] \in {"none", "acknowledge"} => tradeItem'[p] = None
  BY DEF PartnersAgree
<1>2. CASE p \in Both(ps)
  BY <1>1, <1>2
<1>3. CASE p \notin Both(ps)
  <2>1. /\ tradeState'[p] = tradeState[p]
        /\ tradePartner'[p] = tradePartner[p]
        /\ tradeItem'[p] = tradeItem[p]
    BY <1>1, <1>3
  <2>2. CASE tradePartner[p] = None
    BY <2>1, <2>2 DEF IInv, PartnersAgree
  <2>3. CASE tradePartner[p] # None
    <3>1. tradePartner[p] \in Players /\ tradePartner[p] \notin Both(ps)
      BY <1>3, <2>3, BothOrNone
    <3>2. /\ tradePartner'[tradePartner[p]] = tradePartner[tradePartner[p]]
          /\ tradeItem'[tradePartner[p]] = tradeItem[tradePartner[p]]
      BY <1>1, <3>1
    <3> QED
      BY <2>1, <2>3, <3>1, <3>2 DEF IInv, PartnersAgree
  <2> QED
    BY <2>2, <2>3
<1> QED
  BY <1>2, <1>3

(* It takes exactly their offers from the table.                            *)
LEMMA CloseTable ==
    ASSUME IInv, NEW ps \in SUBSET Players, CloseAll(ps)
    PROVE  TableExact'
<1> DEFINE offered == {tradeItem[q] : q \in Both(ps)} \cap Items
<1>1. /\ tradeItem' = [q \in Players |-> IF q \in Both(ps) THEN None ELSE tradeItem[q]]
      /\ tradeItems' = [x \in Items |-> IF x \in offered THEN None ELSE tradeItems[x]]
      /\ held' = [x \in Items |->
                     IF x \in offered /\ tradeItems[x] # None THEN held[x] - 1 ELSE held[x]]
  BY DEF CloseAll, Both
<1> SUFFICES ASSUME NEW x \in Items
             PROVE  /\ \A p \in Players : tradeItems'[x] = p <=> tradeItem'[p] = x
                    /\ held'[x] = IF tradeItems'[x] = None THEN 0 ELSE 1
  BY DEF TableExact
<1>2. /\ \A p \in Players : tradeItems[x] = p <=> tradeItem[p] = x
      /\ held[x] = IF tradeItems[x] = None THEN 0 ELSE 1
  BY DEF IInv, TableExact
<1>3. x \in offered <=> \E q \in Both(ps) : tradeItem[q] = x
  OBVIOUS
<1>4. Both(ps) \subseteq Players
  BY DEF Both
<1> HIDE DEF offered
<1>5. ASSUME NEW p \in Players PROVE tradeItems'[x] = p <=> tradeItem'[p] = x
  BY <1>1, <1>2, <1>3, <1>4, TradeAssumption
<1>6. held'[x] = IF tradeItems'[x] = None THEN 0 ELSE 1
  BY <1>1, <1>2, <1>3, <1>4, TradeAssumption
<1> QED
  BY <1>5, <1>6
-----------------------------------------------------------------------------
(* So any step that closes trades and leaves the rest to CloseAll is safe   *)
(* for the trade.                                                           *)
LEMMA ClosePreserves ==
    ASSUME IInv, NEW ps \in SUBSET Players, CloseAll(ps), PlaceTypeOK'
    PROVE  IInv'
  BY CloseTypes, CloseAgrees, CloseTable, TypeParts DEF IInv, TypeOK, TradeTypeOK, PlaceTypeOK

LEMMA RequestPreserves ==
    ASSUME IInv, NEW p \in Players, NEW q \in Players, NEW x \in Items, Request(p, q, x)
    PROVE  IInv'
<1>1. /\ p # q
      /\ tradeItems[x] = None
  BY DEF Request, MayOffer, OnTheTable
<1>2. held[x] = 0 /\ \A r \in Players : tradeItem[r] # x
  BY <1>1, TradeAssumption DEF IInv, TableExact
<1>3. \/ tradeState[p] = "none" /\ tradeState[q] = "none"
      \/ tradeState[p] = "acknowledge" /\ tradePartner[p] = q /\ tradePartner[q] = p
                                       /\ tradeState[q] # "none"
  BY TradeAssumption DEF Request, Free, IInv, PartnersAgree
<1>4. tradeItem[p] = None
  BY <1>3 DEF IInv, PartnersAgree
<1>5. TypeOK'
  BY TradeAssumption DEF Request, IInv, TypeOK
<1>6. PartnersAgree'
  <2> SUFFICES ASSUME NEW r \in Players
               PROVE  /\ tradeState'[r] = "none" <=> tradePartner'[r] = None
                      /\ tradePartner'[r] # None =>
                            /\ tradePartner'[tradePartner'[r]] = r
                            /\ tradeItem'[r] # None \/ tradeItem'[tradePartner'[r]] # None
                      /\ tradeState'[r] = "initiated" => tradeItem'[r] # None
                      /\ tradeState'[r] \in {"none", "acknowledge"} => tradeItem'[r] = None
    BY DEF PartnersAgree
  <2>1. /\ tradeItem' = [tradeItem EXCEPT ![p] = x]
        /\ tradePartner' = [tradePartner EXCEPT ![p] = q, ![q] = p]
        /\ tradeState'[p] = "initiated"
        /\ tradeState'[q] = IF tradeState[q] = "none" THEN "acknowledge" ELSE tradeState[q]
        /\ \A s \in Players \ {p, q} : tradeState'[s] = tradeState[s]
    BY <1>1, <1>3 DEF Request, IInv, TypeOK
  <2>2. /\ tradeItem'[p] = x /\ tradePartner'[p] = q /\ tradePartner'[q] = p
        /\ tradeItem'[q] = tradeItem[q]
    BY <1>1, <2>1 DEF IInv, TypeOK
  <2>3. x # None
    BY TradeAssumption
  <2>4. CASE r = p
    BY <2>1, <2>2, <2>3, <2>4, TradeAssumption
  <2>5. CASE r = q
    BY <1>1, <1>3, <2>1, <2>2, <2>3, <2>5, TradeAssumption DEF IInv, PartnersAgree
  <2>6. CASE r \notin {p, q}
    <3>1. /\ tradeState'[r] = tradeState[r]
          /\ tradePartner'[r] = tradePartner[r]
          /\ tradeItem'[r] = tradeItem[r]
      BY <2>1, <2>6 DEF IInv, TypeOK
    <3>2. CASE tradePartner[r] # None
      <4>1. tradePartner[r] \in Players /\ tradePartner[tradePartner[r]] = r
        BY <3>2 DEF IInv, TypeOK, PartnersAgree
      <4>2. tradePartner[r] \notin {p, q}
        BY <1>3, <2>6, <3>2, <4>1, TradeAssumption DEF IInv, PartnersAgree
      <4>3. /\ tradePartner'[tradePartner[r]] = r
            /\ tradeItem'[tradePartner[r]] = tradeItem[tradePartner[r]]
        BY <2>1, <4>1, <4>2 DEF IInv, TypeOK
      <4> QED
        BY <3>1, <3>2, <4>3 DEF IInv, PartnersAgree
    <3>3. CASE tradePartner[r] = None
      BY <3>1, <3>3 DEF IInv, PartnersAgree
    <3> QED
      BY <3>2, <3>3
  <2> QED
    BY <2>4, <2>5, <2>6
<1>7. TableExact'
  <2>1. /\ tradeItem' = [tradeItem EXCEPT ![p] = x]
        /\ tradeItems' = [tradeItems EXCEPT ![x] = p]
        /\ held' = [held EXCEPT ![x] = @ + 1]
    BY DEF Request
  <2>2. \A y \in Items : /\ \A r \in Players : tradeItems[y] = r <=> tradeItem[r] = y
                         /\ held[y] = IF tradeItems[y] = None THEN 0 ELSE 1
    BY DEF IInv, TableExact
  <2>3. /\ tradeItem \in [Players -> Items \cup {None}]
        /\ tradeItems \in [Items -> Players \cup {None}]
        /\ held \in [Items -> Nat]
    BY DEF IInv, TypeOK
  <2> SUFFICES ASSUME NEW y \in Items
               PROVE  /\ \A r \in Players : tradeItems'[y] = r <=> tradeItem'[r] = y
                      /\ held'[y] = IF tradeItems'[y] = None THEN 0 ELSE 1
    BY DEF TableExact
  <2>4. CASE y = x
    BY <1>2, <2>1, <2>3, <2>4, TradeAssumption
  <2>5. CASE y # x
    BY <1>4, <2>1, <2>2, <2>3, <2>5, TradeAssumption
  <2> QED
    BY <2>4, <2>5
<1> QED
  BY <1>5, <1>6, <1>7 DEF IInv

LEMMA AcceptFirstPreserves ==
    ASSUME IInv, NEW p \in Players, AcceptFirst(p)
    PROVE  IInv'
<1>1. TypeOK' /\ TableExact'
  BY DEF AcceptFirst, IInv, TypeOK, TableExact
<1>2. PartnersAgree'
  BY DEF AcceptFirst, IInv, TypeOK, PartnersAgree
<1> QED
  BY <1>1, <1>2 DEF IInv

(* What is given away goes to a player or a container.                      *)
LEMMA TransferTypes ==
    ASSUME TypeOK, NEW p \in Players, NEW q \in Players, Transfer(p, q)
    PROVE  place' \in [Items -> Players \cup {Ground, Gone} \cup Containers]
<1> DEFINE x == tradeItem[p]
           y == tradeItem[q]
<1>1. PICK to \in Destinations(q, {x, y}), back \in Destinations(p, {x, y}) :
          LET moved == [place EXCEPT ![x] = to]
          IN  place' = moved \/ place' = [moved EXCEPT ![y] = back]
  BY DEF Transfer
<1>2. to \in Players \cup Containers /\ back \in Players \cup Containers
  BY DEF Destinations
<1> QED
  BY <1>1, <1>2 DEF TypeOK

-----------------------------------------------------------------------------
LEMMA InitInv == Init => IInv
  BY TradeAssumption DEF Init, IInv, TypeOK, PartnersAgree, TableExact

LEMMA NextInv == IInv /\ [Next]_vars => IInv'
<1> SUFFICES ASSUME IInv, [Next]_vars PROVE IInv'
  OBVIOUS
<1>1. ASSUME NEW p \in Players, NEW q \in Players, NEW x \in Items, Request(p, q, x)
      PROVE  IInv'
  BY <1>1, RequestPreserves
<1>2. ASSUME NEW p \in Players, AcceptFirst(p) PROVE IInv'
  BY <1>2, AcceptFirstPreserves
<1>3. ASSUME NEW p \in Players, AcceptSecond(p) PROVE IInv'
  <2>1. tradePartner[p] \in Players
    BY <1>3 DEF AcceptSecond, IInv, TypeOK, PartnersAgree
  <2>2. place' \in [Items -> Players \cup {Ground, Gone} \cup Containers]
    BY <1>3, <2>1, TransferTypes DEF AcceptSecond, IInv, TypeOK
  <2>3. PlaceTypeOK'
    BY <1>3, <2>2 DEF AcceptSecond, PlaceTypeOK, IInv, TypeOK
  <2> QED
    BY <1>3, <2>3, ClosePreserves DEF AcceptSecond, Close
<1>4. ASSUME NEW p \in Players, CloseTrade(p) PROVE IInv'
  BY <1>4, ClosePreserves DEF CloseTrade, Close, PlaceTypeOK, IInv, TypeOK
<1>5. ASSUME NEW p \in Players, NEW x \in Items, NEW to \in {p, Ground} \cup Containers,
             MoveItem(p, x, to)
      PROVE  IInv'
  BY <1>5, ClosePreserves DEF MoveItem, PlaceTypeOK, IInv, TypeOK
<1>6. ASSUME NEW x \in Items, RemoveItem(x) PROVE IInv'
  BY <1>6, ClosePreserves DEF RemoveItem, PlaceTypeOK, IInv, TypeOK
<1>7. ASSUME NEW p \in Players, NEW s \in Squares, Move(p, s) PROVE IInv'
  BY <1>7, ClosePreserves DEF Move, PlaceTypeOK, IInv, TypeOK
<1>8. CASE UNCHANGED vars
  BY <1>8 DEF vars, tradeVars, IInv, TypeOK, PartnersAgree, TableExact
<1> QED
  BY <1>1, <1>2, <1>3, <1>4, <1>5, <1>6, <1>7, <1>8 DEF Next

LEMMA Inductive == Spec => []IInv
<1>1. Init => IInv
  BY InitInv
<1>2. IInv /\ [Next]_vars => IInv'
  BY NextInv
<1> QED
  BY <1>1, <1>2, PTL DEF Spec

(* Type correctness of the trade: no count of references runs below zero.   *)
THEOREM TradeTypes == Spec => []TypeOK
<1>1. IInv => TypeOK
  BY DEF IInv
<1> QED
  BY <1>1, Inductive, PTL

(* Whoever requests, accepts, closes, walks or moves items in whatever      *)
(* order (Game::internalStartTrade, playerAcceptTrade, internalCloseTrade): *)
(* two players trade with each other or not at all.                         *)
THEOREM TradePartnersAgree == Spec => []PartnersAgree
<1>1. IInv => PartnersAgree
  BY DEF IInv
<1> QED
  BY <1>1, Inductive, PTL

(* Game::tradeItems lists exactly what the players' tradeItem pointers      *)
(* name, each held by one reference.                                        *)
THEOREM TradeTableExact == Spec => []TableExact
<1>1. IInv => TableExact
  BY DEF IInv
<1> QED
  BY <1>1, Inductive, PTL

-----------------------------------------------------------------------------
(* Items in items, for any places.  HoldersIn is the least set of           *)
(* containers that has the parent of an item and the parents of its own:    *)
(* what holds of the parent, and of the parent of whatever it holds of,     *)
(* holds of all of them.                                                    *)
PlaceSet == Players \cup {Ground, Gone} \cup Containers
Parents == [Items -> PlaceSet]

LEMMA Different ==
    /\ Containers \subseteq Items
    /\ \A y \in Items : y \in PlaceSet => y \in Containers
    /\ Ground \in PlaceSet \ Containers /\ Gone \in PlaceSet \ Containers
    /\ \A p \in Players : p \in PlaceSet \ Containers
  BY TradeAssumption DEF PlaceSet

LEMMA HoldersLeast ==
    ASSUME NEW pl, NEW x, NEW S \in SUBSET Containers,
           pl[x] \in Containers => pl[x] \in S,
           \A d \in S : pl[d] \in Containers => pl[d] \in S
    PROVE  HoldersIn(pl, x) \subseteq S
<1>1. ({pl[x]} \cup {pl[d] : d \in S}) \cap Containers \subseteq S
  OBVIOUS
<1> QED
  BY <1>1 DEF HoldersIn

LEMMA HoldersClosed ==
    ASSUME NEW pl, NEW x
    PROVE  /\ HoldersIn(pl, x) \subseteq Containers
           /\ pl[x] \in Containers => pl[x] \in HoldersIn(pl, x)
           /\ \A d \in HoldersIn(pl, x) : pl[d] \in Containers => pl[d] \in HoldersIn(pl, x)
  BY DEF HoldersIn

(* The containers among the things around an item are those that hold it.   *)
LEMMA HoldersAround ==
    ASSUME NEW pl, NEW x
    PROVE  /\ AroundIn(pl, x) \cap Containers = HoldersIn(pl, x)
           /\ pl[x] \in AroundIn(pl, x)
           /\ \A d \in HoldersIn(pl, x) : pl[d] \in AroundIn(pl, x)
<1> DEFINE S == HoldersIn(pl, x) \cap AroundIn(pl, x)
<1>1. pl[x] \in AroundIn(pl, x) /\ \A d \in HoldersIn(pl, x) : pl[d] \in AroundIn(pl, x)
  BY DEF AroundIn
<1>2. S \in SUBSET Containers /\ (pl[x] \in Containers => pl[x] \in S)
  BY <1>1, HoldersClosed
<1>3. \A d \in S : pl[d] \in Containers => pl[d] \in S
  BY <1>1, HoldersClosed
<1>4. HoldersIn(pl, x) \subseteq S
  BY <1>2, <1>3, HoldersLeast
<1>5. \A c \in AroundIn(pl, x) \cap Containers : c \in HoldersIn(pl, x)
  BY HoldersClosed DEF AroundIn
<1> QED
  BY <1>1, <1>4, <1>5, HoldersClosed

(* What is around a container is around all it holds.                       *)
LEMMA AroundUp ==
    ASSUME NEW pl, NEW x, NEW c \in HoldersIn(pl, x)
    PROVE  AroundIn(pl, c) \subseteq AroundIn(pl, x) /\ HoldersIn(pl, c) \subseteq HoldersIn(pl, x)
<1>1. HoldersIn(pl, c) \subseteq HoldersIn(pl, x)
  BY HoldersLeast, HoldersClosed
<1> QED
  BY <1>1, HoldersAround DEF AroundIn

(* The parent, and what is around the parent.                               *)
LEMMA AroundParent ==
    ASSUME NEW pl, NEW x
    PROVE  /\ pl[x] \in Containers => AroundIn(pl, x) = {pl[x]} \cup AroundIn(pl, pl[x])
           /\ pl[x] \notin Containers => AroundIn(pl, x) = {pl[x]}
<1>1. ASSUME pl[x] \in Containers PROVE AroundIn(pl, x) = {pl[x]} \cup AroundIn(pl, pl[x])
  <2> DEFINE S == {pl[x]} \cup HoldersIn(pl, pl[x])
  <2>1. S \in SUBSET Containers
    BY <1>1, HoldersClosed
  <2>2. \A d \in S : pl[d] \in Containers => pl[d] \in S
    BY HoldersClosed
  <2>3. HoldersIn(pl, x) \subseteq S
    BY ZenonT(60), <2>1, <2>2, HoldersLeast
  <2>4. AroundIn(pl, x) \subseteq {pl[x]} \cup AroundIn(pl, pl[x])
    BY <2>3, HoldersAround DEF AroundIn
  <2>5. pl[x] \in HoldersIn(pl, x)
    BY <1>1, HoldersClosed
  <2> QED
    BY <2>4, <2>5, AroundUp, HoldersAround
<1>2. ASSUME pl[x] \notin Containers PROVE AroundIn(pl, x) = {pl[x]}
  <2> DEFINE S == {}
  <2>1. S \in SUBSET Containers /\ \A d \in S : pl[d] \in Containers => pl[d] \in S
    OBVIOUS
  <2> HIDE DEF S
  <2>2. HoldersIn(pl, x) \subseteq S
    BY <1>2, <2>1, HoldersLeast
  <2> QED
    BY <2>2 DEF AroundIn, S
<1> QED
  BY <1>1, <1>2

(* One container in another, or the other in the one: they hold one thing.  *)
LEMMA Comparable ==
    ASSUME NEW pl, NEW z, NEW x \in HoldersIn(pl, z), NEW y \in HoldersIn(pl, z)
    PROVE  x = y \/ x \in AroundIn(pl, y) \/ y \in AroundIn(pl, x)
<1> DEFINE S == {c \in HoldersIn(pl, z) : x \in AroundIn(pl, c) \/ c = x \/ c \in AroundIn(pl, x)}
<1>1. x \in AroundIn(pl, z) /\ x \in Containers
  BY HoldersAround
<1>2. S \in SUBSET Containers
  BY HoldersClosed
<1>3. pl[z] \in Containers => pl[z] \in S
  BY <1>1, AroundParent, HoldersClosed
<1>4. ASSUME NEW d \in S, pl[d] \in Containers PROVE pl[d] \in S
  <2>1. pl[d] \in HoldersIn(pl, z)
    BY <1>4, HoldersClosed
  <2>2. CASE x \in AroundIn(pl, d)
    BY <1>4, <2>1, <2>2, AroundParent
  <2>3. CASE d = x
    BY <2>1, <2>3, HoldersAround
  <2>4. CASE d \in AroundIn(pl, x)
    <3>1. d \in HoldersIn(pl, x)
      BY <1>2, <2>4, HoldersAround
    <3> QED
      BY <2>1, <3>1, HoldersAround
  <2> QED
    BY <2>2, <2>3, <2>4
<1>5. HoldersIn(pl, z) \subseteq S
  BY <1>2, <1>3, <1>4, HoldersLeast
<1> QED
  BY <1>5

(* Only one thing around an item is in no other.                            *)
LEMMA OneRoot ==
    ASSUME NEW pl, NEW x, NEW r \in AroundIn(pl, x), NEW s \in AroundIn(pl, x),
           r \notin Containers, s \notin Containers
    PROVE  r = s
<1> DEFINE S == {c \in HoldersIn(pl, x) : r \in AroundIn(pl, c)}
<1>1. S \in SUBSET Containers
  BY HoldersClosed
<1>2. pl[x] \in Containers => pl[x] \in S
  BY AroundParent, HoldersClosed
<1>3. ASSUME NEW d \in S, pl[d] \in Containers PROVE pl[d] \in S
  BY <1>3, AroundParent, HoldersClosed
<1>4. HoldersIn(pl, x) \subseteq S
  BY <1>1, <1>2, <1>3, HoldersLeast
<1>5. s = pl[x] \/ \E c \in HoldersIn(pl, x) : s = pl[c]
  BY DEF AroundIn
<1>6. CASE s = pl[x]
  BY <1>6, AroundParent
<1>7. ASSUME NEW c \in HoldersIn(pl, x), s = pl[c] PROVE r = s
  BY <1>4, <1>7, AroundParent
<1> QED
  BY <1>5, <1>6, <1>7

(* Every item lies somewhere in the end, so that none is in itself.         *)
RootedIn(pl) == \A x \in Items : ~(AroundIn(pl, x) \subseteq Containers)

LEMMA RootIs ==
    ASSUME NEW pl, NEW x, ~(AroundIn(pl, x) \subseteq Containers)
    PROVE  /\ RootIn(pl, x) \in AroundIn(pl, x) /\ RootIn(pl, x) \notin Containers
           /\ \A r \in AroundIn(pl, x) : r \notin Containers => r = RootIn(pl, x)
<1>1. \E r \in AroundIn(pl, x) : r \notin Containers
  OBVIOUS
<1>2. RootIn(pl, x) \in AroundIn(pl, x) /\ RootIn(pl, x) \notin Containers
  BY <1>1 DEF RootIn
<1> QED
  BY <1>2, OneRoot

LEMMA InPlaceSet ==
    ASSUME NEW pl \in Parents, NEW x \in Items
    PROVE  AroundIn(pl, x) \subseteq PlaceSet
<1>1. \A d \in HoldersIn(pl, x) : d \in Items
  BY HoldersClosed, Different
<1> QED
  BY <1>1 DEF AroundIn, Parents

LEMMA NoLoop ==
    ASSUME NEW pl \in Parents, RootedIn(pl), NEW x \in Items
    PROVE  x \notin AroundIn(pl, x)
<1> SUFFICES ASSUME x \in AroundIn(pl, x) PROVE FALSE
  OBVIOUS
<1>1. x \in Containers
  BY InPlaceSet, Different
<1> DEFINE S == {c \in HoldersIn(pl, x) : x \in AroundIn(pl, c)}
<1>2. S \in SUBSET Containers
  BY HoldersClosed
<1>3. pl[x] \in Containers => pl[x] \in S
  BY AroundParent, HoldersClosed
<1>4. ASSUME NEW d \in S, pl[d] \in Containers PROVE pl[d] \in S
  BY <1>4, AroundParent, HoldersClosed
<1>5. HoldersIn(pl, x) \subseteq S
  BY <1>2, <1>3, <1>4, HoldersLeast
<1> DEFINE r == RootIn(pl, x)
<1>6. r \in AroundIn(pl, x) /\ r \notin Containers
  BY RootIs DEF RootedIn
<1> HIDE DEF r
<1>7. r = pl[x] \/ \E c \in HoldersIn(pl, x) : r = pl[c]
  BY <1>6 DEF AroundIn
<1>8. CASE r = pl[x]
  BY <1>1, <1>6, <1>8, AroundParent
<1>9. ASSUME NEW c \in HoldersIn(pl, x), r = pl[c] PROVE FALSE
  BY <1>1, <1>5, <1>6, <1>9, AroundParent
<1> QED
  BY <1>7, <1>8, <1>9

-----------------------------------------------------------------------------
(* One item goes to another place.  What is around that place.              *)
BeyondIn(pl, to) == {to} \cup (IF to \in Containers THEN AroundIn(pl, to) ELSE {})
Put(pl, x, to) == [pl EXCEPT ![x] = to]

LEMMA PutIs ==
    ASSUME NEW pl \in Parents, NEW x \in Items, NEW to \in PlaceSet
    PROVE  /\ Put(pl, x, to) \in Parents
           /\ Put(pl, x, to)[x] = to
           /\ \A z \in Items : z # x => Put(pl, x, to)[z] = pl[z]
  BY DEF Parents, Put

LEMMA BeyondClosed ==
    ASSUME NEW pl, NEW to, NEW d \in BeyondIn(pl, to) \cap Containers
    PROVE  pl[d] \in BeyondIn(pl, to)
  BY HoldersAround DEF BeyondIn

(* An item that neither is that one nor in it has the same things around it.*)
LEMMA PutElsewhere ==
    ASSUME NEW pl \in Parents, NEW x \in Items, NEW to \in PlaceSet,
           NEW z \in Items, z # x, x \notin AroundIn(pl, z)
    PROVE  AroundIn(Put(pl, x, to), z) = AroundIn(pl, z)
<1> DEFINE new == Put(pl, x, to)
           S == HoldersIn(pl, z)
           T == HoldersIn(pl, z) \cap HoldersIn(new, z)
<1>1. new[z] = pl[z] /\ \A d \in S : new[d] = pl[d]
  BY PutIs, HoldersAround, HoldersClosed, Different
<1> HIDE DEF new
<1>2. S \in SUBSET Containers /\ T \in SUBSET Containers
  BY HoldersClosed
<1>3. /\ new[z] \in Containers => new[z] \in S
      /\ \A d \in S : new[d] \in Containers => new[d] \in S
  BY <1>1, HoldersClosed
<1>4. HoldersIn(new, z) \subseteq S
  BY <1>2, <1>3, HoldersLeast
<1>5. /\ pl[z] \in Containers => pl[z] \in T
      /\ \A d \in T : pl[d] \in Containers => pl[d] \in T
  BY <1>1, HoldersClosed
<1>6. HoldersIn(pl, z) \subseteq T
  BY <1>2, <1>5, HoldersLeast
<1>7. HoldersIn(new, z) = HoldersIn(pl, z)
  BY <1>4, <1>6
<1>8. AroundIn(new, z) = AroundIn(pl, z)
  BY <1>1, <1>7 DEF AroundIn
<1> QED
  BY <1>8 DEF new

(* What is around it neither before nor after has the same things in it.    *)
LEMMA PutAround ==
    ASSUME NEW pl \in Parents, NEW x \in Items, NEW to \in PlaceSet, NEW y,
           y \notin AroundIn(pl, x), y \notin BeyondIn(pl, to), NEW z \in Items
    PROVE  y \in AroundIn(Put(pl, x, to), z) <=> y \in AroundIn(pl, z)
<1> DEFINE new == Put(pl, x, to)
           S == HoldersIn(pl, z) \cup (BeyondIn(pl, to) \cap Containers)
           T == HoldersIn(new, z) \cup HoldersIn(pl, x)
<1>1. new[x] = to /\ \A d \in Items : d # x => new[d] = pl[d]
  BY PutIs
<1> HIDE DEF new
<1>2. to \in BeyondIn(pl, to) /\ Containers \subseteq Items
  BY Different DEF BeyondIn
<1>3. S \in SUBSET Containers /\ T \in SUBSET Containers
  BY HoldersClosed
<1>4. new[z] \in Containers => new[z] \in S
  BY <1>1, <1>2, HoldersClosed
<1>5. ASSUME NEW d \in S, new[d] \in Containers PROVE new[d] \in S
  BY <1>1, <1>2, <1>3, <1>5, HoldersClosed, BeyondClosed
<1>6. HoldersIn(new, z) \subseteq S
  BY ZenonT(60), <1>3, <1>4, <1>5, HoldersLeast
<1>7. ASSUME y \in AroundIn(new, z) PROVE y \in AroundIn(pl, z)
  <2>1. y = new[z] \/ \E d \in S : y = new[d]
    BY <1>6, <1>7 DEF AroundIn
  <2>2. y # to
    BY <1>2
  <2>3. y = pl[z] \/ \E d \in S : y = pl[d]
    BY <1>1, <1>2, <1>3, <2>1, <2>2
  <2> QED
    BY <2>3, BeyondClosed DEF AroundIn
<1>8. pl[z] \in Containers => pl[z] \in T
  BY <1>1, HoldersClosed
<1>9. ASSUME NEW d \in T, pl[d] \in Containers PROVE pl[d] \in T
  BY <1>1, <1>2, <1>3, <1>9, HoldersClosed
<1>10. HoldersIn(pl, z) \subseteq T
  BY <1>3, <1>8, <1>9, HoldersLeast
<1>11. ASSUME y \in AroundIn(pl, z) PROVE y \in AroundIn(new, z)
  <2>1. y = pl[z] \/ \E d \in T : y = pl[d]
    BY <1>10, <1>11 DEF AroundIn
  <2>2. y # pl[x] /\ \A d \in HoldersIn(pl, x) : y # pl[d]
    BY HoldersAround
  <2>3. y = new[z] \/ \E d \in HoldersIn(new, z) : y = new[d]
    BY <1>1, <1>2, <1>3, <2>1, <2>2
  <2> QED
    BY <2>3 DEF AroundIn
<1>12. y \in AroundIn(new, z) <=> y \in AroundIn(pl, z)
  BY <1>7, <1>11
<1> QED
  BY <1>12 DEF new

(* An item that is not put into itself still lies somewhere in the end, and *)
(* so does all that it holds.                                               *)
LEMMA PutRooted ==
    ASSUME NEW pl \in Parents, RootedIn(pl), NEW x \in Items, NEW to \in PlaceSet,
           x \notin BeyondIn(pl, to)
    PROVE  RootedIn(Put(pl, x, to))
<1> DEFINE new == Put(pl, x, to)
<1>1. new \in Parents /\ new[x] = to
  BY PutIs
<1>2. ~(AroundIn(new, x) \subseteq Containers)
  <2>1. CASE to \in Containers
    <3>1. to \in Items /\ to # x /\ x \notin AroundIn(pl, to)
      BY <2>1, Different DEF BeyondIn
    <3>2. AroundIn(new, to) = AroundIn(pl, to)
      BY <3>1, PutElsewhere
    <3>3. AroundIn(new, to) \subseteq AroundIn(new, x)
      BY <1>1, <2>1, AroundParent
    <3> QED
      BY <3>1, <3>2, <3>3 DEF RootedIn
  <2>2. CASE to \notin Containers
    BY <1>1, <2>2, HoldersAround
  <2> QED
    BY <2>1, <2>2
<1>3. ASSUME NEW z \in Items PROVE ~(AroundIn(new, z) \subseteq Containers)
  <2>1. CASE z = x
    BY <1>2, <2>1
  <2>2. CASE z # x /\ x \notin AroundIn(pl, z)
    BY <2>2, PutElsewhere DEF RootedIn
  <2>3. CASE x \in AroundIn(pl, z)
    <3>1. x \in AroundIn(new, z)
      BY <2>3, NoLoop, PutAround
    <3>2. x \in Containers
      BY <2>3, InPlaceSet, Different
    <3>3. AroundIn(new, x) \subseteq AroundIn(new, z)
      BY <3>1, <3>2, HoldersAround, AroundUp
    <3> QED
      BY <1>2, <3>3
  <2> QED
    BY <2>1, <2>2, <2>3
<1> QED
  BY <1>3 DEF RootedIn

-----------------------------------------------------------------------------
(* The invariant: besides what is promised, every item lies somewhere, and  *)
(* what is offered lies on the ground or is its owner's own.                *)
OwnOffers == \A p \in Players : tradeItem[p] # None => Root(tradeItem[p]) \in {p, Ground}

StandInv ==
    /\ IInv
    /\ RootedIn(place)
    /\ OwnOffers
    /\ DOMAIN shown = Players
    /\ OffersStand

(* Two things none of which is in the other: they hold nothing in common.   *)
Apart(a, b) == a # b /\ a \notin Around(b) /\ b \notin Around(a)

LEMMA ApartWhole ==
    ASSUME NEW a \in Items, NEW b \in Items, PlaceTypeOK
    PROVE  Whole(a) \cap Whole(b) = {} <=> Apart(a, b)
<1>1. ASSUME Whole(a) \cap Whole(b) = {} PROVE Apart(a, b)
  BY <1>1 DEF Apart, Whole, Contents
<1>2. ASSUME Apart(a, b), NEW z \in Items, a \in Around(z), b \in Around(z) PROVE FALSE
  <2>1. Around(z) \subseteq PlaceSet
    BY InPlaceSet DEF PlaceTypeOK, Parents, PlaceSet, Around
  <2>2. a \in HoldersIn(place, z) /\ b \in HoldersIn(place, z)
    BY <1>2, <2>1, Different, HoldersAround DEF Around
  <2> QED
    BY <1>2, <2>2, Comparable DEF Apart, Around
<1>3. ASSUME Apart(a, b) PROVE Whole(a) \cap Whole(b) = {}
  BY <1>2, <1>3 DEF Apart, Whole, Contents
<1> QED
  BY <1>1, <1>3

(* What the offer of item y is made of, in given places.                    *)
WholeIn(pl, y) == {y} \cup {z \in Items : y \in AroundIn(pl, z)}
OfferIn(pl, y) == {<<z, pl[z]>> : z \in WholeIn(pl, y)}

(* An item y that the one moved is not, is not in and does not hold, and    *)
(* that is not around where it goes, stays as it is with all it holds.      *)
Clear(pl, x, to, y) ==
    y # x /\ y \notin AroundIn(pl, x) /\ x \notin AroundIn(pl, y) /\ y \notin BeyondIn(pl, to)

LEMMA PutClear ==
    ASSUME NEW pl \in Parents, NEW x \in Items, NEW to \in PlaceSet,
           NEW y \in Items, Clear(pl, x, to, y)
    PROVE  /\ AroundIn(Put(pl, x, to), y) = AroundIn(pl, y)
           /\ WholeIn(Put(pl, x, to), y) = WholeIn(pl, y)
           /\ OfferIn(Put(pl, x, to), y) = OfferIn(pl, y)
           /\ RootIn(Put(pl, x, to), y) = RootIn(pl, y)
<1> DEFINE new == Put(pl, x, to)
<1>1. AroundIn(new, y) = AroundIn(pl, y)
  BY PutElsewhere DEF Clear
<1>2. \A z \in Items : y \in AroundIn(new, z) <=> y \in AroundIn(pl, z)
  BY PutAround DEF Clear
<1>3. WholeIn(new, y) = WholeIn(pl, y)
  BY <1>2 DEF WholeIn
<1>4. \A z \in WholeIn(pl, y) : new[z] = pl[z]
  BY PutIs DEF WholeIn, Clear
<1> HIDE DEF new
<1>5. OfferIn(new, y) = OfferIn(pl, y)
  BY <1>3, <1>4 DEF OfferIn
<1>6. RootIn(new, y) = RootIn(pl, y)
  BY <1>1 DEF RootIn
<1> QED
  BY <1>1, <1>3, <1>5, <1>6 DEF new

LEMMA StandParts ==
    /\ OwnOffers <=> \A p \in Players :
           tradeItem[p] # None => RootIn(place, tradeItem[p]) \in {p, Ground}
    /\ NothingTwice <=> \A p, q \in Players :
           p # q /\ tradeItem[p] # None /\ tradeItem[q] # None
               => WholeIn(place, tradeItem[p]) \cap WholeIn(place, tradeItem[q]) = {}
    /\ OfferUnchanged <=> \A p \in Players :
           tradeItem[p] # None => OfferIn(place, tradeItem[p]) = shown[p]
<1>1. \A y : Whole(y) = WholeIn(place, y)
  BY DEF Whole, Contents, Around, WholeIn
<1>2. \A y : Offer(y) = OfferIn(place, y)
  BY <1>1 DEF Offer, OfferIn
<1> QED
  BY <1>1, <1>2 DEF OwnOffers, Root, NothingTwice, OfferUnchanged

LEMMA StandPartsNext ==
    /\ OwnOffers' <=> \A p \in Players :
           tradeItem'[p] # None => RootIn(place', tradeItem'[p]) \in {p, Ground}
    /\ NothingTwice' <=> \A p, q \in Players :
           p # q /\ tradeItem'[p] # None /\ tradeItem'[q] # None
               => WholeIn(place', tradeItem'[p]) \cap WholeIn(place', tradeItem'[q]) = {}
    /\ OfferUnchanged' <=> \A p \in Players :
           tradeItem'[p] # None => OfferIn(place', tradeItem'[p]) = shown'[p]
<1>1. \A y : Whole(y)' = WholeIn(place', y)
  BY DEF Whole, Contents, Around, WholeIn
<1>2. \A y : Offer(y)' = OfferIn(place', y)
  BY <1>1 DEF Offer, OfferIn
<1> QED
  BY <1>1, <1>2 DEF OwnOffers, Root, NothingTwice, OfferUnchanged

(* Trades are closed, and what is on the table still is left as it is.      *)
Stays(y) ==
    /\ RootIn(place', y) = RootIn(place, y)
    /\ WholeIn(place', y) = WholeIn(place, y)
    /\ OfferIn(place', y) = OfferIn(place, y)

LEMMA CloseKeeps ==
    ASSUME NEW ps \in SUBSET Players, CloseAll(ps), NEW p \in Players
    PROVE  /\ p \in Both(ps) => tradeItem'[p] = None /\ tradePartner'[p] = None
           /\ p \notin Both(ps) => /\ tradeItem'[p] = tradeItem[p]
                                   /\ tradePartner'[p] = tradePartner[p]
                                   /\ shown'[p] = shown[p]
  BY DEF CloseAll, Both

LEMMA CloseStands ==
    ASSUME StandInv, NEW ps \in SUBSET Players, CloseAll(ps), PlaceTypeOK', RootedIn(place'),
           \A p \in Players \ Both(ps) : tradeItem[p] # None => Stays(tradeItem[p])
    PROVE  /\ IInv' /\ RootedIn(place)' /\ OwnOffers' /\ DOMAIN shown' = Players
           /\ NothingTwice' /\ OfferUnchanged'
<1>1. IInv' /\ RootedIn(place)'
  BY ClosePreserves DEF StandInv, RootedIn
<1>2. ASSUME NEW p \in Players, tradeItem'[p] # None
      PROVE  /\ tradeItem'[p] = tradeItem[p] /\ shown'[p] = shown[p] /\ tradeItem[p] # None
             /\ Stays(tradeItem[p])
  BY <1>2, CloseKeeps
<1>3. OwnOffers'
  BY <1>2, StandParts, StandPartsNext DEF StandInv, Stays
<1>4. NothingTwice'
  BY <1>2, StandParts, StandPartsNext DEF StandInv, OffersStand, Stays
<1>5. OfferUnchanged'
  BY <1>2, StandParts, StandPartsNext DEF StandInv, OffersStand, Stays
<1>6. DOMAIN shown' = Players
  BY DEF CloseAll
<1> QED
  BY <1>1, <1>3, <1>4, <1>5, <1>6

(* Nobody whose trade goes on has moved.                                    *)
LEMMA CloseReach ==
    ASSUME StandInv, NEW ps \in SUBSET Players, CloseAll(ps), UNCHANGED square,
           \A p \in Players \ Both(ps) : tradeItem[p] # None => Stays(tradeItem[p])
    PROVE  InReach'
<1>1. ASSUME NEW p \in Players, tradePartner'[p] # None
      PROVE  Distance(square'[p], square'[tradePartner'[p]]) <= 2
  <2>1. tradePartner'[p] = tradePartner[p] /\ tradePartner[p] # None
    BY <1>1, CloseKeeps
  <2> QED
    BY <2>1 DEF StandInv, OffersStand, InReach
<1>2. ASSUME NEW p \in Players, tradeItem'[p] # None
      PROVE  Distance(square'[p], SquareOf(tradeItem[p])') <= 1
  <2>1. tradeItem'[p] = tradeItem[p] /\ tradeItem[p] # None /\ Stays(tradeItem[p])
    BY <1>2, CloseKeeps
  <2>2. SquareOf(tradeItem[p])' = SquareOf(tradeItem[p])
    BY <2>1 DEF Stays, SquareOf, Root
  <2> QED
    BY <2>1, <2>2 DEF StandInv, OffersStand, InReach
<1> QED
  BY <1>1, <1>2 DEF InReach

(* One item goes elsewhere and none of the offers left is about it.         *)
LEMMA PutStands ==
    ASSUME StandInv, NEW x \in Items, NEW to \in PlaceSet, x \notin BeyondIn(place, to),
           place' = Put(place, x, to), UNCHANGED square,
           NEW ps \in SUBSET Players, CloseAll(ps),
           \A p \in Players \ Both(ps) : tradeItem[p] # None => Clear(place, x, to, tradeItem[p])
    PROVE  StandInv'
<1>1. place \in Parents
  BY DEF StandInv, IInv, TypeOK, Parents, PlaceSet
<1>2. PlaceTypeOK'
  BY <1>1, PutIs, TypeParts DEF StandInv, IInv, PlaceTypeOK, Parents, PlaceSet
<1>3. RootedIn(place')
  BY <1>1, PutRooted DEF StandInv
<1>4. ASSUME NEW p \in Players \ Both(ps), tradeItem[p] # None PROVE Stays(tradeItem[p])
  <2>1. tradeItem[p] \in Items /\ Clear(place, x, to, tradeItem[p])
    BY <1>4 DEF StandInv, IInv, TypeOK
  <2> QED
    BY <1>1, <2>1, PutClear DEF Stays
<1> QED
  BY <1>2, <1>3, <1>4, CloseStands, CloseReach DEF StandInv, OffersStand, RootedIn

LEMMA NotDisturbed ==
    ASSUME StandInv, NEW x \in Items, NEW to \in PlaceSet,
           NEW p \in Players, tradeItem[p] # None, ~Disturbed(p, x, to)
    PROVE  Clear(place, x, to, tradeItem[p])
<1>1. tradeItem[p] \in Items
  BY DEF StandInv, IInv, TypeOK
<1>2. /\ tradeItem[p] # x /\ tradeItem[p] \notin AroundIn(place, x)
      /\ x \notin AroundIn(place, tradeItem[p])
  BY <1>1 DEF Disturbed, Touches, Contents, Around
<1>3. tradeItem[p] \notin BeyondIn(place, to)
  BY <1>1, Different DEF Disturbed, Touches, Around, BeyondIn
<1> QED
  BY <1>2, <1>3 DEF Clear

LEMMA MoveItemStands ==
    ASSUME StandInv, NEW p \in Players, NEW x \in Items, NEW to \in {p, Ground} \cup Containers,
           MoveItem(p, x, to)
    PROVE  StandInv'
<1> DEFINE ps == {q \in Players : Disturbed(q, x, to)}
<1>1. to \in PlaceSet /\ place' = Put(place, x, to) /\ CloseAll(ps) /\ UNCHANGED square
  BY DEF MoveItem, Put, PlaceSet
<1>2. x \notin BeyondIn(place, to)
  BY Different DEF MoveItem, Whole, Contents, Around, BeyondIn
<1>3. \A q \in Players \ Both(ps) : ~Disturbed(q, x, to)
  BY DEF Both
<1> HIDE DEF ps
<1>4. \A q \in Players \ Both(ps) : tradeItem[q] # None => Clear(place, x, to, tradeItem[q])
  BY <1>1, <1>3, NotDisturbed
<1>5. ps \in SUBSET Players
  BY DEF ps
<1> QED
  BY <1>1, <1>2, <1>4, <1>5, PutStands

LEMMA RemoveItemStands ==
    ASSUME StandInv, NEW x \in Items, RemoveItem(x)
    PROVE  StandInv'
<1> DEFINE ps == {q \in Players : Disturbed(q, x, Gone)}
<1>1. Gone \in PlaceSet /\ place' = Put(place, x, Gone) /\ CloseAll(ps) /\ UNCHANGED square
  BY DEF RemoveItem, Put, PlaceSet
<1>2. x \notin BeyondIn(place, Gone)
  BY Different, TradeAssumption DEF BeyondIn
<1>3. \A q \in Players \ Both(ps) : ~Disturbed(q, x, Gone)
  BY DEF Both
<1> HIDE DEF ps
<1>4. \A q \in Players \ Both(ps) : tradeItem[q] # None => Clear(place, x, Gone, tradeItem[q])
  BY <1>1, <1>3, NotDisturbed
<1>5. ps \in SUBSET Players
  BY DEF ps
<1> QED
  BY <1>1, <1>2, <1>4, <1>5, PutStands

-----------------------------------------------------------------------------
(* The items change hands.  What the two have offered goes to a player or   *)
(* into what that one carries, so no other offer is about it.               *)
LEMMA OffersApart ==
    ASSUME StandInv, NEW p \in Players, NEW q \in Players, p # q,
           tradeItem[p] # None, tradeItem[q] # None
    PROVE  /\ tradeItem[p] \in Items /\ tradeItem[q] \in Items
           /\ Apart(tradeItem[p], tradeItem[q])
<1>1. tradeItem[p] \in Items /\ tradeItem[q] \in Items
  BY DEF StandInv, IInv, TypeOK
<1>2. PlaceTypeOK
  BY TypeParts DEF StandInv, IInv
<1> QED
  BY <1>1, <1>2, ApartWhole DEF StandInv, OffersStand, NothingTwice

(* A place with player q, outside of the offers of the two, holds no offer  *)
(* of anybody else.                                                         *)
LEMMA NotAround ==
    ASSUME StandInv, NEW p \in Players, NEW q \in Players, p # q, NEW r \in Players \ {q},
           NEW to, to \in Destinations(q, {tradeItem[p], tradeItem[q]}),
           tradeItem[p] # None, tradeItem[q] # None, tradeItem[r] # None
    PROVE  tradeItem[r] \notin BeyondIn(place, to)
<1>1. tradeItem[r] \in Items
  BY DEF StandInv, IInv, TypeOK
<1>2. CASE to = q
  BY <1>1, <1>2, Different, TradeAssumption DEF BeyondIn
<1>3. CASE to \in Containers /\ Root(to) = q
  <2> DEFINE y == tradeItem[r]
  <2> SUFFICES ASSUME y = to \/ y \in AroundIn(place, to) PROVE FALSE
    BY <1>3 DEF BeyondIn
  <2>1. Root(y) \in {r, Ground} /\ y \in Items /\ to \in Items
    BY <1>1, <1>3, Different DEF StandInv, OwnOffers
  <2>2. y # to
    BY <1>3, <2>1, TradeAssumption
  <2>3. place \in Parents /\ RootedIn(place)
    BY DEF StandInv, IInv, TypeOK, Parents, PlaceSet
  <2>4. y \in HoldersIn(place, to)
    BY <2>1, <2>2, <2>3, InPlaceSet, Different, HoldersAround
  <2>5. AroundIn(place, y) \subseteq AroundIn(place, to)
    BY <2>4, AroundUp
  <2> HIDE DEF y
  <2>6. RootIn(place, y) \in AroundIn(place, to) /\ RootIn(place, y) \notin Containers
    BY <2>1, <2>3, <2>5, RootIs DEF RootedIn
  <2>7. RootIn(place, y) = RootIn(place, to)
    BY <2>1, <2>3, <2>6, RootIs DEF RootedIn
  <2> QED
    BY <1>3, <2>1, <2>7, TradeAssumption DEF Root
<1> QED
  BY <1>2, <1>3 DEF Destinations

(* One item after another: the second goes where the first is not around,   *)
(* so the first move has changed nothing of what the second one is about.   *)
LEMMA PutTwice ==
    ASSUME NEW pl \in Parents, RootedIn(pl), NEW x \in Items, NEW y \in Items,
           NEW to \in PlaceSet, NEW back \in PlaceSet,
           x \notin BeyondIn(pl, to), x \notin BeyondIn(pl, back),
           Clear(pl, x, to, y), y \notin BeyondIn(pl, back)
    PROVE  /\ Put(pl, x, to) \in Parents /\ RootedIn(Put(pl, x, to))
           /\ y \notin BeyondIn(Put(pl, x, to), back)
           /\ \A z \in Items : Clear(pl, x, to, z) /\ Clear(pl, y, back, z)
                               => Clear(Put(pl, x, to), y, back, z)
<1>1. Put(pl, x, to) \in Parents /\ RootedIn(Put(pl, x, to))
  BY PutIs, PutRooted
<1>2. BeyondIn(Put(pl, x, to), back) = BeyondIn(pl, back)
  <2>1. CASE back \in Containers
    <3>1. back \in Items /\ back # x /\ x \notin AroundIn(pl, back)
      BY <2>1, Different DEF BeyondIn
    <3>2. AroundIn(Put(pl, x, to), back) = AroundIn(pl, back)
      BY <3>1, PutElsewhere
    <3> QED
      BY <3>2 DEF BeyondIn
  <2>2. CASE back \notin Containers
    BY <2>2 DEF BeyondIn
  <2> QED
    BY <2>1, <2>2
<1>3. ASSUME NEW z \in Items, Clear(pl, x, to, z), Clear(pl, y, back, z)
      PROVE  Clear(Put(pl, x, to), y, back, z)
  <2>1. /\ AroundIn(Put(pl, x, to), z) = AroundIn(pl, z)
        /\ AroundIn(Put(pl, x, to), y) = AroundIn(pl, y)
    BY <1>3, PutClear
  <2> QED
    BY <1>2, <1>3, <2>1 DEF Clear
<1> QED
  BY <1>1, <1>2, <1>3

LEMMA TransferStays ==
    ASSUME StandInv, NEW p \in Players, NEW q \in Players, p # q,
           tradeItem[p] # None, tradeItem[q] # None, Transfer(p, q)
    PROVE  /\ RootedIn(place')
           /\ \A r \in Players \ {p, q} : tradeItem[r] # None => Stays(tradeItem[r])
<1> DEFINE x == tradeItem[p]
           y == tradeItem[q]
<1>1. PICK to \in Destinations(q, {x, y}), back \in Destinations(p, {x, y}) :
          place' \in {Put(place, x, to), Put(Put(place, x, to), y, back)}
  BY DEF Transfer, Put
<1>2. x \in Items /\ y \in Items /\ Apart(x, y)
  BY OffersApart
<1>3. place \in Parents /\ RootedIn(place)
  BY DEF StandInv, IInv, TypeOK, Parents, PlaceSet
<1>4. to \in PlaceSet /\ back \in PlaceSet
  BY DEF Destinations, PlaceSet
<1>5. ASSUME NEW c \in {to, back} PROVE x \notin BeyondIn(place, c) /\ y \notin BeyondIn(place, c)
  <2>1. CASE c \in Containers
    <3>1. c \notin Whole(x) /\ c \notin Whole(y)
      BY <1>1, <2>1, Different DEF Destinations
    <3> QED
      BY <2>1, <3>1, Different DEF Whole, Contents, Around, BeyondIn
  <2>2. CASE c \notin Containers
    BY <1>2, <1>4, <2>2, Different DEF BeyondIn
  <2> QED
    BY <2>1, <2>2
<1>6. Clear(place, x, to, y)
  BY <1>2, <1>5 DEF Clear, Apart, Around
<1>7. /\ Put(place, x, to) \in Parents /\ RootedIn(Put(place, x, to))
      /\ y \notin BeyondIn(Put(place, x, to), back)
      /\ \A z \in Items : Clear(place, x, to, z) /\ Clear(place, y, back, z)
                          => Clear(Put(place, x, to), y, back, z)
  BY <1>2, <1>3, <1>4, <1>5, <1>6, PutTwice
<1>8. RootedIn(place')
  BY <1>1, <1>2, <1>4, <1>7, PutRooted
<1>9. ASSUME NEW r \in Players \ {p, q}, tradeItem[r] # None PROVE Stays(tradeItem[r])
  <2> DEFINE z == tradeItem[r]
  <2>1. z \in Items /\ Apart(x, z) /\ Apart(y, z)
    BY <1>9, OffersApart
  <2>2. z \notin BeyondIn(place, to) /\ z \notin BeyondIn(place, back)
    BY <1>1, <1>9, NotAround
  <2>3. Clear(place, x, to, z) /\ Clear(place, y, back, z)
    BY <2>1, <2>2 DEF Clear, Apart, Around
  <2>4. Clear(Put(place, x, to), y, back, z)
    BY <1>7, <2>1, <2>3
  <2> HIDE DEF x, y, z
  <2>5. /\ RootIn(Put(place, x, to), z) = RootIn(place, z)
        /\ WholeIn(Put(place, x, to), z) = WholeIn(place, z)
        /\ OfferIn(Put(place, x, to), z) = OfferIn(place, z)
    BY <1>2, <1>3, <1>4, <2>1, <2>3, PutClear
  <2>6. /\ RootIn(Put(Put(place, x, to), y, back), z) = RootIn(place, z)
        /\ WholeIn(Put(Put(place, x, to), y, back), z) = WholeIn(place, z)
        /\ OfferIn(Put(Put(place, x, to), y, back), z) = OfferIn(place, z)
    BY <1>2, <1>4, <1>7, <2>1, <2>4, <2>5, PutClear
  <2>7. Stays(z)
    BY <1>1, <2>5, <2>6 DEF Stays
  <2> QED
    BY <2>7 DEF z
<1> QED
  BY <1>8, <1>9

-----------------------------------------------------------------------------
LEMMA NobodyMoves ==
    ASSUME StandInv, UNCHANGED <<place, square>>, NEW ps \in SUBSET Players, CloseAll(ps)
    PROVE  StandInv'
<1>1. PlaceTypeOK' /\ RootedIn(place')
  BY TypeParts DEF StandInv, IInv, PlaceTypeOK
<1>2. \A p \in Players \ Both(ps) : tradeItem[p] # None => Stays(tradeItem[p])
  BY DEF Stays
<1> QED
  BY <1>1, <1>2, CloseStands, CloseReach DEF StandInv, OffersStand, RootedIn

LEMMA AcceptSecondStands ==
    ASSUME StandInv, NEW p \in Players, AcceptSecond(p)
    PROVE  StandInv'
<1> DEFINE q == tradePartner[p]
<1>1. q \in Players /\ p # q
  BY DEF AcceptSecond, StandInv, IInv, TypeOK, PartnersAgree
<1>2. CASE UNCHANGED place
  BY <1>2, NobodyMoves DEF AcceptSecond, Close
<1>3. CASE BothFit(p, q) /\ Transfer(p, q)
  <2>1. tradeItem[p] # None /\ tradeItem[q] # None
    BY <1>3 DEF BothFit
  <2>2. /\ RootedIn(place')
        /\ \A r \in Players \ {p, q} : tradeItem[r] # None => Stays(tradeItem[r])
    BY <1>1, <1>3, <2>1, TransferStays
  <2>3. Both({p}) = {p, q}
    BY <1>1 DEF Both
  <2>4. CloseAll({p}) /\ UNCHANGED square
    BY DEF AcceptSecond, Close
  <2>5. PlaceTypeOK'
    BY <1>1, <1>3, <2>4, TransferTypes DEF StandInv, IInv, TypeOK, PlaceTypeOK
  <2> QED
    BY <2>2, <2>3, <2>4, <2>5, CloseStands, CloseReach DEF StandInv, OffersStand, RootedIn
<1> QED
  BY <1>2, <1>3 DEF AcceptSecond

LEMMA Symmetric ==
    ASSUME NEW a \in Squares, NEW b \in Squares
    PROVE  Distance(a, b) = Distance(b, a)
<1>1. a \in Int /\ b \in Int
  BY TradeAssumption
<1> QED
  BY <1>1 DEF Distance

(* What is offered is in no offer, around none, and in reach.               *)
LEMMA RequestStands ==
    ASSUME StandInv, NEW p \in Players, NEW q \in Players, NEW x \in Items, Request(p, q, x)
    PROVE  StandInv'
<1>1. IInv' /\ RootedIn(place)'
  BY RequestPreserves DEF StandInv, Request, RootedIn
<1>2. /\ tradeItem' = [tradeItem EXCEPT ![p] = x] /\ UNCHANGED <<place, square>>
      /\ shown' = [shown EXCEPT ![p] = Offer(x)]
  BY DEF Request
<1>3. tradeItem \in [Players -> Items \cup {None}] /\ DOMAIN shown = Players
  BY DEF StandInv, IInv, TypeOK
<1>4. tradeItem'[p] = x /\ \A r \in Players \ {p} : tradeItem'[r] = tradeItem[r]
  BY <1>2, <1>3
<1>5. OwnOffers'
  BY <1>2, <1>4, TradeAssumption DEF StandInv, OwnOffers, Request, MayOffer, Root, Around
<1>6. NothingTwice'
  <2>1. ASSUME NEW r \in Players \ {p}, tradeItem[r] # None
        PROVE  Whole(tradeItem[r]) \cap Whole(x) = {}
    <3>1. tradeItem[r] \in Items /\ tradeItems[tradeItem[r]] # None
      BY <1>3, <2>1, TradeAssumption DEF StandInv, IInv, TableExact
    <3>2. Apart(tradeItem[r], x)
      BY <3>1 DEF Request, MayOffer, OnTheTable, Contents, Apart
    <3> QED
      BY <3>1, <3>2, ApartWhole, TypeParts DEF StandInv, IInv
  <2>2. \A y : WholeIn(place, y) = Whole(y)
    BY DEF Whole, Contents, Around, WholeIn
  <2>3. \A y : WholeIn(place', y) = Whole(y)
    BY <1>2, <2>2
  <2>4. ASSUME NEW r \in Players, NEW s \in Players, r # s,
               tradeItem'[r] # None, tradeItem'[s] # None
        PROVE  Whole(tradeItem'[r]) \cap Whole(tradeItem'[s]) = {}
    BY <1>4, <2>1, <2>4 DEF StandInv, OffersStand, NothingTwice
  <2> QED
    BY <2>3, <2>4, StandPartsNext
<1>7. OfferUnchanged' /\ DOMAIN shown' = Players
  <2>1. \A y : OfferIn(place', y) = Offer(y)
    BY <1>2 DEF Offer, Whole, Contents, Around, OfferIn, WholeIn
  <2>2. shown'[p] = Offer(x) /\ \A r \in Players \ {p} : shown'[r] = shown[r]
    BY <1>2, <1>3
  <2>3. ASSUME NEW r \in Players, tradeItem'[r] # None PROVE Offer(tradeItem'[r]) = shown'[r]
    BY <1>4, <2>2, <2>3 DEF StandInv, OffersStand, OfferUnchanged
  <2> QED
    BY <1>2, <1>3, <2>1, <2>3, StandPartsNext
<1>8. InReach'
  <2>1. ASSUME NEW r \in Players, tradeItem'[r] # None
        PROVE  Distance(square[r], SquareOf(tradeItem'[r])) <= 1
    BY <1>4, <2>1 DEF StandInv, OffersStand, InReach, Request, MayOffer
  <2>2. ASSUME NEW r \in Players, tradePartner'[r] # None
        PROVE  Distance(square[r], square[tradePartner'[r]]) <= 2
    <3>1. Distance(square[p], square[q]) <= 2 /\ square[p] \in Squares /\ square[q] \in Squares
      BY DEF StandInv, IInv, TypeOK, Request, MayOffer
    <3>2. Distance(square[q], square[p]) <= 2
      BY <3>1, Symmetric
    <3>3. tradePartner \in [Players -> Players \cup {None}] /\ p # q
      BY DEF StandInv, IInv, TypeOK, Request, MayOffer
    <3>4. \/ r = p /\ tradePartner'[r] = q
          \/ r = q /\ tradePartner'[r] = p
          \/ tradePartner'[r] = tradePartner[r]
      BY <3>3 DEF Request
    <3> QED
      BY <2>2, <3>1, <3>2, <3>4 DEF StandInv, OffersStand, InReach
  <2>3. \A y : SquareOf(y)' = SquareOf(y)
    BY <1>2 DEF SquareOf, Root
  <2> QED
    BY <1>2, <2>1, <2>2, <2>3 DEF InReach, SquareOf, Root
<1> QED
  BY <1>1, <1>5, <1>6, <1>7, <1>8 DEF StandInv, OffersStand

(* Somebody walks, and his trade goes on only while all is still in reach.  *)
LEMMA MoveStands ==
    ASSUME StandInv, NEW p \in Players, NEW s \in Squares, Move(p, s)
    PROVE  StandInv'
<1> DEFINE ps == {q \in {p} : OutOfReach(q, s)}
<1>1. CloseAll(ps) /\ UNCHANGED place /\ square' = [square EXCEPT ![p] = s]
  BY DEF Move
<1>2. ps \subseteq Both(ps) /\ ps \in SUBSET Players
  BY DEF Both
<1>3. p \notin Both(ps) => ~OutOfReach(p, s)
  BY <1>2
<1> HIDE DEF ps
<1>4. square \in [Players -> Squares]
  BY DEF StandInv, IInv, TypeOK
<1>5. square'[p] = s /\ \A r \in Players \ {p} : square'[r] = square[r]
  BY <1>1, <1>4
<1>6. PlaceTypeOK' /\ RootedIn(place')
  BY <1>1, <1>4, TypeParts DEF StandInv, IInv, PlaceTypeOK
<1>7. \A r \in Players \ Both(ps) : tradeItem[r] # None => Stays(tradeItem[r])
  BY <1>1 DEF Stays
<1>8. ASSUME NEW r \in Players, tradePartner'[r] # None
      PROVE  Distance(square'[r], square'[tradePartner'[r]]) <= 2
  <2> DEFINE t == tradePartner[r]
  <2>1. r \notin Both(ps) /\ tradePartner'[r] = t /\ t # None
    BY <1>1, <1>2, <1>8, CloseKeeps
  <2>2. t \in Players /\ t \notin Both(ps) /\ tradePartner[t] = r
    BY <1>2, <2>1, BothOrNone DEF StandInv, IInv, PartnersAgree
  <2>3. CASE p \notin {r, t}
    BY <1>5, <2>1, <2>2, <2>3 DEF StandInv, OffersStand, InReach
  <2>4. CASE p \in {r, t} /\ r # t
    <3>1. ASSUME NEW u \in Players, tradePartner[p] = u, u # p, p \notin Both(ps)
          PROVE  /\ Distance(s, square[u]) <= 2 /\ Distance(square[u], s) <= 2
      <4>1. u # None /\ s \in Int /\ square[u] \in Squares
        BY <1>4, TradeAssumption
      <4>2. Distance(s, square[u]) <= 2
        <5>1. ~(Distance(s, square[u]) > 2)
          BY <1>3, <3>1, <4>1 DEF OutOfReach
        <5>2. square[u] \in Int
          BY <4>1, TradeAssumption
        <5> QED
          BY <4>1, <5>1, <5>2 DEF Distance
      <4> QED
        BY <4>1, <4>2, Symmetric
    <3> QED
      BY <1>5, <2>1, <2>2, <2>4, <3>1
  <2>5. CASE r = t
    <3>1. square'[r] \in Int
      BY <1>4, <1>5, TradeAssumption
    <3> QED
      BY <2>1, <2>5, <3>1 DEF Distance
  <2> QED
    BY <2>3, <2>4, <2>5
<1>9. ASSUME NEW r \in Players, tradeItem'[r] # None
      PROVE  Distance(square'[r], SquareOf(tradeItem[r])') <= 1
  <2> DEFINE y == tradeItem[r]
  <2>1. r \notin Both(ps) /\ tradeItem'[r] = y /\ y # None
    BY <1>1, <1>2, <1>9, CloseKeeps
  <2>2. Root(y) \in {r, Ground} /\ Ground \notin Players
    BY <2>1, TradeAssumption DEF StandInv, OwnOffers
  <2>3. SquareOf(tradeItem[r])' = IF Root(y) = r THEN square'[r] ELSE GroundSquare
    BY <1>1, <2>1, <2>2 DEF SquareOf, Root, Around
  <2>4. CASE Root(y) = r
    <3>1. square'[r] \in Int
      BY <1>4, <1>5, TradeAssumption
    <3> QED
      BY <2>3, <2>4, <3>1 DEF Distance
  <2>5. CASE Root(y) # r /\ r = p
    <3>1. s \in Int /\ GroundSquare \in Int
      BY TradeAssumption
    <3>2. Distance(s, GroundSquare) <= 1
      BY <1>3, <2>1, <2>5, <3>1 DEF OutOfReach, Distance
    <3> QED
      BY <1>5, <2>3, <2>5, <3>2
  <2>6. CASE Root(y) # r /\ r # p
    <3>1. SquareOf(y) = GroundSquare
      BY <2>2, <2>6 DEF SquareOf
    <3> QED
      BY <1>5, <2>1, <2>3, <2>6, <3>1 DEF StandInv, OffersStand, InReach
  <2> QED
    BY <2>4, <2>5, <2>6
<1>10. InReach'
  BY <1>8, <1>9 DEF InReach
<1> QED
  BY <1>1, <1>2, <1>6, <1>7, <1>10, CloseStands DEF StandInv, OffersStand, RootedIn

LEMMA StandInductive == Spec => []StandInv
<1>1. Init => StandInv
  <2> SUFFICES ASSUME Init PROVE StandInv
    OBVIOUS
  <2>1. IInv /\ RootedIn(place)
    BY InitInv, TradeAssumption DEF Init, RootedIn
  <2>2. OwnOffers /\ OffersStand /\ DOMAIN shown = Players
    BY DEF Init, OwnOffers, OffersStand, NothingTwice, OfferUnchanged, InReach
  <2> QED
    BY <2>1, <2>2 DEF StandInv
<1>2. StandInv /\ [Next]_vars => StandInv'
  <2> SUFFICES ASSUME StandInv, [Next]_vars PROVE StandInv'
    OBVIOUS
  <2>1. ASSUME NEW p \in Players, AcceptFirst(p) PROVE StandInv'
    <3>1. IInv'
      BY <2>1, AcceptFirstPreserves DEF StandInv
    <3> QED
      BY <2>1, <3>1 DEF AcceptFirst, StandInv, RootedIn, OwnOffers, OffersStand, NothingTwice,
                        OfferUnchanged, InReach, SquareOf, Root, Offer, Whole, Contents, Around
  <2>2. ASSUME NEW p \in Players, CloseTrade(p) PROVE StandInv'
    BY <2>2, NobodyMoves DEF CloseTrade, Close
  <2>3. CASE UNCHANGED vars
    <3>1. IInv'
      BY <2>3, NextInv DEF StandInv
    <3> QED
      BY <2>3, <3>1 DEF vars, tradeVars, StandInv, RootedIn, OwnOffers, OffersStand, NothingTwice,
                        OfferUnchanged, InReach, SquareOf, Root, Offer, Whole, Contents, Around
  <2> QED
    BY <2>1, <2>2, <2>3, RequestStands, AcceptSecondStands, MoveItemStands, RemoveItemStands,
       MoveStands DEF Next
<1> QED
  BY <1>1, <1>2, PTL DEF Spec

(* However items are moved about, and whoever walks or trades with whom     *)
(* meanwhile (Player::checkTradeState, onCreatureMove, onRemoveTileItem,    *)
(* Game::playerRequestTrade): nothing is on the table twice, what is there  *)
(* is what was shown, and it is in reach.                                   *)
THEOREM TradeOffersStand == Spec => []OffersStand
<1>1. StandInv => OffersStand
  BY DEF StandInv
<1> QED
  BY <1>1, StandInductive, PTL

-----------------------------------------------------------------------------
(* Less is not heavier.                                                     *)
LEMMA LessWeight ==
    ASSUME NEW S \in SUBSET Items, NEW T \in SUBSET S
    PROVE  WeightOf(T) \in Nat /\ WeightOf(S) \in Nat /\ WeightOf(T) <= WeightOf(S)
<1>1. IsFiniteSet(S)
  BY TradeAssumption, FS_Subset
<1>2. \A x \in S : Weight[x] \in Nat
  BY TradeAssumption
<1>3. SumOf(Weight, T) \in Nat /\ SumOf(Weight, S) \in Nat /\ SumOf(Weight, T) <= SumOf(Weight, S)
  BY <1>1, <1>2, SumMonotone
<1>4. WeightOf(T) = SumOf(Weight, T) /\ WeightOf(S) = SumOf(Weight, S)
  BY DEF WeightOf, SumOf
<1> QED
  BY <1>3, <1>4

(* Who has what lies at a place, and where an item goes all in it goes.     *)
EndIn(pl, to) == IF to \in Containers THEN RootIn(pl, to) ELSE to

LEMMA PutRoot ==
    ASSUME NEW pl \in Parents, RootedIn(pl), NEW x \in Items, NEW to \in PlaceSet,
           x \notin BeyondIn(pl, to), NEW z \in Items
    PROVE  /\ z \in WholeIn(pl, x) => /\ RootIn(Put(pl, x, to), z) = EndIn(pl, to)
                                      /\ RootIn(pl, z) = RootIn(pl, x)
           /\ z \notin WholeIn(pl, x) => RootIn(Put(pl, x, to), z) = RootIn(pl, z)
<1> DEFINE new == Put(pl, x, to)
<1>1. new \in Parents /\ new[x] = to /\ RootedIn(new)
  BY PutIs, PutRooted
<1>2. RootIn(new, x) = EndIn(pl, to)
  <2>1. CASE to \in Containers
    <3>1. to \in Items /\ to # x /\ x \notin AroundIn(pl, to)
      BY <2>1, Different DEF BeyondIn
    <3>2. AroundIn(new, to) = AroundIn(pl, to)
      BY <3>1, PutElsewhere
    <3>3. AroundIn(new, to) \subseteq AroundIn(new, x)
      BY <1>1, <2>1, AroundParent
    <3>4. RootIn(pl, to) \in AroundIn(pl, to) /\ RootIn(pl, to) \notin Containers
      BY <3>1, RootIs DEF RootedIn
    <3>5. RootIn(pl, to) = RootIn(new, x)
      BY <1>1, <3>2, <3>3, <3>4, RootIs DEF RootedIn
    <3> QED
      BY <2>1, <3>5 DEF EndIn
  <2>2. CASE to \notin Containers
    <3>1. to \in AroundIn(new, x)
      BY <1>1, HoldersAround
    <3>2. to = RootIn(new, x)
      BY <1>1, <2>2, <3>1, RootIs DEF RootedIn
    <3> QED
      BY <2>2, <3>2 DEF EndIn
  <2> QED
    BY <2>1, <2>2
<1>3. CASE z = x
  BY <1>2, <1>3 DEF WholeIn
<1>4. CASE x \in AroundIn(pl, z)
  <2>1. x \in Containers
    BY <1>4, InPlaceSet, Different
  <2>2. x \in AroundIn(new, z)
    BY <1>4, NoLoop, PutAround
  <2>3. AroundIn(new, x) \subseteq AroundIn(new, z) /\ AroundIn(pl, x) \subseteq AroundIn(pl, z)
    BY <1>4, <2>1, <2>2, HoldersAround, AroundUp
  <2>4. /\ RootIn(new, x) \in AroundIn(new, x) /\ RootIn(new, x) \notin Containers
        /\ RootIn(pl, x) \in AroundIn(pl, x) /\ RootIn(pl, x) \notin Containers
    BY <1>1, RootIs DEF RootedIn
  <2>5. RootIn(new, x) = RootIn(new, z) /\ RootIn(pl, x) = RootIn(pl, z)
    BY <1>1, <2>3, <2>4, RootIs DEF RootedIn
  <2> QED
    BY <1>2, <1>4, <2>5 DEF WholeIn
<1>5. CASE z # x /\ x \notin AroundIn(pl, z)
  <2>1. AroundIn(new, z) = AroundIn(pl, z)
    BY <1>5, PutElsewhere
  <2> HIDE DEF new
  <2>2. RootIn(new, z) = RootIn(pl, z)
    BY <2>1 DEF RootIn
  <2> QED
    BY <1>5, <2>2 DEF WholeIn, new
<1> QED
  BY <1>3, <1>4, <1>5

(* What a step must not do to an item: give it from one player to another,  *)
(* but for that one's offer.                                                *)
Paid(p, q, z) ==
    (p # q /\ Root(z) = p /\ RootIn(place', z) = q) =>
        /\ tradePartner[p] = q /\ tradeItem[q] # None
        /\ RootIn(place', tradeItem[q]) = p \/ RoomInDoubt(p, q)

LEMMA MoveItemPaid ==
    ASSUME StandInv, NEW r \in Players, NEW x \in Items, NEW to \in {r, Ground} \cup Containers,
           MoveItem(r, x, to), NEW p \in Players, NEW q \in Players, NEW z \in Items
    PROVE  Paid(p, q, z)
<1>1. place \in Parents /\ RootedIn(place)
  BY DEF StandInv, IInv, TypeOK, Parents, PlaceSet
<1>2. to \in PlaceSet /\ place' = Put(place, x, to)
  BY DEF MoveItem, Put, PlaceSet
<1>3. x \notin BeyondIn(place, to)
  BY Different DEF MoveItem, Whole, Contents, Around, BeyondIn
<1>4. RootIn(place, x) \in {r, Ground} /\ EndIn(place, to) \in {r, Ground}
  BY Different DEF MoveItem, EndIn, Root
<1>5. ASSUME p # q, RootIn(place, z) = p, RootIn(place', z) = q PROVE FALSE
  BY <1>1, <1>2, <1>3, <1>4, <1>5, PutRoot, TradeAssumption
<1> QED
  BY <1>5 DEF Paid, Root

LEMMA RemoveItemPaid ==
    ASSUME StandInv, NEW x \in Items, RemoveItem(x),
           NEW p \in Players, NEW q \in Players, NEW z \in Items
    PROVE  Paid(p, q, z)
<1>1. place \in Parents /\ RootedIn(place)
  BY DEF StandInv, IInv, TypeOK, Parents, PlaceSet
<1>2. Gone \in PlaceSet /\ place' = Put(place, x, Gone)
  BY DEF RemoveItem, Put, PlaceSet
<1>3. x \notin BeyondIn(place, Gone) /\ EndIn(place, Gone) = Gone
  BY Different, TradeAssumption DEF BeyondIn, EndIn
<1>4. ASSUME p # q, RootIn(place, z) = p, RootIn(place', z) = q PROVE FALSE
  BY <1>1, <1>2, <1>3, <1>4, PutRoot, TradeAssumption
<1> QED
  BY <1>4 DEF Paid, Root

(* Both items change hands, or p's alone when there was doubt: what the     *)
(* first move has taken from p makes the second, which was light enough     *)
(* before, no heavier.                                                      *)
LEMMA BothChangeHands ==
    ASSUME StandInv, NEW p \in Players, NEW q \in Players, p # q,
           BothFit(p, q), Transfer(p, q)
    PROVE  \A z \in Items :
              /\ z \in WholeIn(place, tradeItem[p]) =>
                     RootIn(place, z) \in {p, Ground} /\ RootIn(place', z) = q
              /\ z \in WholeIn(place, tradeItem[q]) =>
                     /\ RootIn(place, z) \in {q, Ground}
                     /\ RootIn(place', z) = p
                          \/ (RoomInDoubt(p, q) /\ RootIn(place', z) = RootIn(place, z))
              /\ z \notin WholeIn(place, tradeItem[p]) \cup WholeIn(place, tradeItem[q]) =>
                     RootIn(place', z) = RootIn(place, z)
<1> DEFINE x == tradeItem[p]
           y == tradeItem[q]
<1>1. x # None /\ y # None
  BY DEF BothFit
<1>2. x \in Items /\ y \in Items /\ Apart(x, y)
  BY <1>1, OffersApart
<1>3. place \in Parents /\ RootedIn(place)
  BY DEF StandInv, IInv, TypeOK, Parents, PlaceSet
<1>4. PICK to \in Destinations(q, {x, y}), back \in Destinations(p, {x, y}) :
          \/ place' = Put(Put(place, x, to), y, back)
          \/ /\ LoadIn(Put(place, x, to), p) + WeightOf(Whole(y)) <= Capacity[p] => RoomInDoubt(p, q)
             /\ place' = Put(place, x, to)
  BY DEF Transfer, Put
<1>5. to \in PlaceSet /\ back \in PlaceSet /\ EndIn(place, to) = q /\ EndIn(place, back) = p
  BY Different DEF Destinations, PlaceSet, EndIn, Root
<1>6. ASSUME NEW c \in {to, back} PROVE x \notin BeyondIn(place, c) /\ y \notin BeyondIn(place, c)
  <2>1. CASE c \in Containers
    <3>1. c \notin Whole(x) /\ c \notin Whole(y)
      BY <1>4, <2>1, Different DEF Destinations
    <3> QED
      BY <2>1, <3>1, Different DEF Whole, Contents, Around, BeyondIn
  <2>2. CASE c \notin Containers
    BY <1>2, <1>5, <2>2, Different DEF BeyondIn
  <2> QED
    BY <2>1, <2>2
<1>7. Clear(place, x, to, y)
  BY <1>2, <1>6 DEF Clear, Apart, Around
<1> DEFINE moved == Put(place, x, to)
<1>8. /\ moved \in Parents /\ RootedIn(moved) /\ y \notin BeyondIn(moved, back)
      /\ WholeIn(moved, y) = WholeIn(place, y)
  BY <1>2, <1>3, <1>5, <1>6, <1>7, PutTwice, PutClear
<1>9. WholeIn(place, x) \cap WholeIn(place, y) = {}
  <2>1. Whole(x) \cap Whole(y) = {}
    BY <1>1 DEF StandInv, OffersStand, NothingTwice
  <2> QED
    BY <2>1 DEF Whole, WholeIn, Contents, Around
<1>10. RootIn(place, x) \in {p, Ground} /\ RootIn(place, y) \in {q, Ground}
  BY <1>1 DEF StandInv, OwnOffers, Root
<1>11. \A z \in Items :
          /\ z \in WholeIn(place, x) => RootIn(moved, z) = q /\ RootIn(place, z) = RootIn(place, x)
          /\ z \notin WholeIn(place, x) => RootIn(moved, z) = RootIn(place, z)
  BY <1>2, <1>3, <1>5, <1>6, PutRoot
<1>12. EndIn(moved, back) = p
  <2>1. CASE back \in Containers
    <3>1. back \in Items /\ back \notin WholeIn(place, x)
      BY <1>6, <2>1, Different DEF WholeIn, BeyondIn
    <3> QED
      BY <1>5, <1>11, <2>1, <3>1 DEF EndIn
  <2>2. CASE back \notin Containers
    BY <1>5, <2>2 DEF EndIn
  <2> QED
    BY <2>1, <2>2
<1> HIDE DEF x, y, moved
<1>13. place' = Put(moved, y, back) \/ (place' = moved /\ RoomInDoubt(p, q))
  <2>1. LoadIn(moved, p) \in Nat /\ LoadIn(place, p) \in Nat /\ LoadIn(moved, p) <= LoadIn(place, p)
    <3> DEFINE S == {z \in Items : RootIn(place, z) = p}
               T == {z \in Items : RootIn(moved, z) = p}
    <3>1. T \in SUBSET S /\ S \in SUBSET Items
      BY <1>11
    <3> QED
      BY <3>1, LessWeight DEF LoadIn
  <2>2. Whole(y) \in SUBSET Items
    BY <1>2 DEF Whole, Contents
  <2>3. WeightOf(Whole(y)) \in Nat
    BY <2>2, LessWeight
  <2>4. LoadIn(place, p) + WeightOf(Whole(y)) <= Capacity[p]
    BY <1>10, TradeAssumption DEF BothFit, Fits, Root, y
  <2>5. LoadIn(moved, p) + WeightOf(Whole(y)) <= Capacity[p]
    <3>1. Capacity[p] \in Nat
      BY TradeAssumption
    <3> QED
      BY <2>1, <2>3, <2>4, <3>1
  <2> QED
    BY <1>4, <2>5 DEF moved
<1>14. \A z \in Items :
          /\ z \in WholeIn(place, y) =>
                 RootIn(Put(moved, y, back), z) = p /\ RootIn(moved, z) = RootIn(moved, y)
          /\ z \notin WholeIn(place, y) => RootIn(Put(moved, y, back), z) = RootIn(moved, z)
  BY <1>2, <1>5, <1>8, <1>12, PutRoot
<1>15. x \in WholeIn(place, x) /\ y \in WholeIn(place, y)
  BY DEF WholeIn
<1>16. ASSUME NEW z \in Items
       PROVE  /\ z \in WholeIn(place, x) =>
                     RootIn(place, z) \in {p, Ground} /\ RootIn(moved, z) = q
              /\ z \in WholeIn(place, y) =>
                     RootIn(place, z) \in {q, Ground} /\ RootIn(moved, z) = RootIn(place, z)
              /\ z \notin WholeIn(place, x) =>
                     RootIn(moved, z) = RootIn(place, z)
  BY <1>2, <1>9, <1>10, <1>11, <1>14, <1>15
<1>17. ASSUME NEW z \in Items
       PROVE  /\ z \in WholeIn(place, x) => RootIn(Put(moved, y, back), z) = q
              /\ z \in WholeIn(place, y) => RootIn(Put(moved, y, back), z) = p
              /\ z \notin WholeIn(place, x) \cup WholeIn(place, y) =>
                     RootIn(Put(moved, y, back), z) = RootIn(place, z)
  BY <1>9, <1>14, <1>16
<1>18. ASSUME NEW z \in Items
       PROVE  /\ z \in WholeIn(place, x) =>
                     RootIn(place, z) \in {p, Ground} /\ RootIn(place', z) = q
              /\ z \in WholeIn(place, y) =>
                     /\ RootIn(place, z) \in {q, Ground}
                     /\ RootIn(place', z) = p
                          \/ (RoomInDoubt(p, q) /\ RootIn(place', z) = RootIn(place, z))
              /\ z \notin WholeIn(place, x) \cup WholeIn(place, y) =>
                     RootIn(place', z) = RootIn(place, z)
  <2>1. CASE place' = Put(moved, y, back)
    BY <1>16, <1>17, <2>1
  <2>2. CASE place' = moved /\ RoomInDoubt(p, q)
    BY <1>16, <2>2
  <2> QED
    BY <1>13, <2>1, <2>2
<1> QED
  BY <1>18 DEF x, y

LEMMA AcceptSecondPaid ==
    ASSUME StandInv, NEW r \in Players, AcceptSecond(r),
           NEW p \in Players, NEW q \in Players, NEW z \in Items
    PROVE  Paid(p, q, z)
<1> DEFINE s == tradePartner[r]
<1>1. s \in Players /\ r # s /\ tradePartner[s] = r
  BY DEF AcceptSecond, StandInv, IInv, TypeOK, PartnersAgree
<1>2. CASE UNCHANGED place
  BY <1>2 DEF Paid, Root
<1>3. CASE BothFit(r, s) /\ Transfer(r, s)
  <2> DEFINE x == tradeItem[r]
             y == tradeItem[s]
  <2>1. x # None /\ y # None /\ x \in Items /\ y \in Items
    BY <1>1, <1>3 DEF BothFit, StandInv, IInv, TypeOK
  <2>2. x \in WholeIn(place, x) /\ y \in WholeIn(place, y)
    BY DEF WholeIn
  <2>3. \A e \in Items :
           /\ e \in WholeIn(place, x) => RootIn(place, e) \in {r, Ground} /\ RootIn(place', e) = s
           /\ e \in WholeIn(place, y) =>
                  /\ RootIn(place, e) \in {s, Ground}
                  /\ RootIn(place', e) = r
                       \/ (RoomInDoubt(r, s) /\ RootIn(place', e) = RootIn(place, e))
           /\ e \notin WholeIn(place, x) \cup WholeIn(place, y) =>
                  RootIn(place', e) = RootIn(place, e)
    BY <1>1, <1>3, BothChangeHands
  <2>4. RootIn(place', x) = s /\ (RootIn(place', y) = r \/ RoomInDoubt(r, s))
    BY <2>1, <2>2, <2>3
  <2>5. ASSUME p # q, RootIn(place, z) = p, RootIn(place', z) = q
        PROVE  (p = r /\ q = s) \/ (p = s /\ q = r)
    BY <2>3, <2>5, TradeAssumption
  <2> HIDE DEF x, y
  <2>6. ASSUME p # q, RootIn(place, z) = p, RootIn(place', z) = q
        PROVE  /\ tradePartner[p] = q /\ tradeItem[q] # None
               /\ RootIn(place', tradeItem[q]) = p \/ RoomInDoubt(p, q)
    BY <1>1, <2>1, <2>4, <2>5, <2>6 DEF x, y
  <2> QED
    BY <2>6 DEF Paid, Root
<1> QED
  BY <1>2, <1>3 DEF AcceptSecond

(* What one player carries gets to another one only in a trade, for what    *)
(* that one had offered, which the first one gets in the same step unless   *)
(* the room for it was in doubt: otherwise both moves of                    *)
(* Game::playerAcceptTrade succeed, or none is made.                        *)
THEOREM TradePaidFor == Spec => PaidFor
<1>1. StandInv /\ [Next]_vars => [\A p, q \in Players, z \in Items : Paid(p, q, z)]_vars
  <2> SUFFICES ASSUME StandInv, Next, NEW p \in Players, NEW q \in Players, NEW z \in Items
               PROVE  Paid(p, q, z)
    OBVIOUS
  <2>1. CASE UNCHANGED place
    BY <2>1 DEF Paid, Root
  <2>2. CASE \E r \in Players, s \in Players, x \in Items : Request(r, s, x)
    BY <2>1, <2>2 DEF Request
  <2>3. CASE \E r \in Players : AcceptFirst(r) \/ CloseTrade(r)
    BY <2>1, <2>3 DEF AcceptFirst, CloseTrade
  <2>4. CASE \E r \in Players, s \in Squares : Move(r, s)
    BY <2>1, <2>4 DEF Move
  <2> QED
    BY <2>2, <2>3, <2>4, AcceptSecondPaid, MoveItemPaid, RemoveItemPaid DEF Next
<1>2. [\A p, q \in Players, z \in Items : Paid(p, q, z)]_vars =>
      [\A p, q \in Players, x \in Items :
          (p # q /\ Root(x) = p /\ RootIn(place', x) = q) =>
              /\ tradePartner[p] = q /\ tradeItem[q] # None
              /\ RootIn(place', tradeItem[q]) = p \/ RoomInDoubt(p, q)]_vars
  BY DEF Paid
<1> QED
  BY <1>1, <1>2, StandInductive, PTL DEF Spec, PaidFor

-----------------------------------------------------------------------------
(* Shops.  The invariant: besides what is promised, whoever shops with      *)
(* nobody has no callbacks, which a reload would leave behind.              *)
ShopInv ==
    /\ ShopTypeOK
    /\ ShopsSound
    /\ \A p \in Customers : shop.of[p].owner = NoNpc => shop.of[p].calls = {}

LEMMA HeldByIs ==
    ASSUME NEW s, NEW P, NEW r
    PROVE  r \in HeldBy(s, P) <=> \E p \in P : r \in s.of[p].calls
  BY DEF HeldBy

(* What the shops of the players P have become, all others as they were.    *)
Closed(P) ==
    /\ \A p \in P : shop'.of[p].owner = NoNpc /\ shop'.of[p].calls = {}
    /\ \A p \in Customers \ P : shop'.of[p] = shop.of[p]
    /\ \A p \in Customers, n \in Merchants :
          p \in shop'.set[n] <=> p \in shop.set[n] /\ p \notin P

(* Windows are closed, players and NPCs come and go that have none, and     *)
(* some references are left behind.                                         *)
LEMMA ClosedSound ==
    ASSUME ShopInv, ShopTypeOK', UNCHANGED loads,
           NEW P \in SUBSET Customers, NEW left, left \cap refs = {},
           Closed(P), refs' = (refs \ HeldBy(shop, P)) \cup left, leaked' = leaked \cup left,
           shop.playing \ P \subseteq shop'.playing,
           \A p \in Customers \ P : shop.of[p].owner \in shop.placed
                                       => shop.of[p].owner \in shop'.placed
    PROVE  ShopInv'
<1> USE DEF ShopInv
<1>1. \A p \in Customers, n \in Merchants : shop'.of[p].owner = n <=> p \in shop'.set[n]
  BY ShopsAssumption DEF Closed, ShopsSound
<1>2. ASSUME NEW p \in Customers, shop'.of[p].owner # NoNpc
      PROVE  /\ p \in shop'.playing /\ shop'.of[p].owner \in shop'.placed
             /\ shop'.of[p].goods = shop'.of[p].owner
             /\ shop'.of[p].madeIn = loads'
  BY <1>2 DEF Closed, ShopsSound
<1>3. ASSUME NEW r PROVE r \in refs' <=> r \in HeldBy(shop', Customers) \/ r \in leaked'
  <2>1. r \in refs <=> (\E p \in Customers : r \in shop.of[p].calls) \/ r \in leaked
    BY HeldByIs DEF ShopsSound
  <2>2. ASSUME NEW p \in Customers, NEW q \in Customers, p # q, r \in shop.of[p].calls
        PROVE  r \notin leaked /\ r \notin shop.of[q].calls
    <3>1. q \in Customers \ {p}
      BY <2>2
    <3>2. r \in shop.of[q].calls => r \in HeldBy(shop, Customers \ {p})
      BY <3>1, HeldByIs
    <3> QED
      BY <2>2, <3>2 DEF ShopsSound
  <2>3. r \in refs' <=> (r \in refs /\ ~\E p \in P : r \in shop.of[p].calls) \/ r \in left
    BY HeldByIs
  <2>4. r \in HeldBy(shop', Customers) <=> \E p \in Customers \ P : r \in shop.of[p].calls
    BY HeldByIs DEF Closed
  <2>5. \A p \in P : r \in shop.of[p].calls => r \notin leaked
    BY DEF ShopsSound
  <2> QED
    BY <2>1, <2>2, <2>3, <2>4, <2>5
<1>4. ASSUME NEW p \in Customers
      PROVE  shop'.of[p].calls \cap (leaked' \cup HeldBy(shop', Customers \ {p})) = {}
  <2> SUFFICES ASSUME NEW r \in shop'.of[p].calls, r \in leaked' \cup HeldBy(shop', Customers \ {p})
               PROVE  FALSE
    OBVIOUS
  <2>1. p \notin P /\ r \in shop.of[p].calls
    BY DEF Closed
  <2>2. r \in refs
    BY <2>1, HeldByIs DEF ShopsSound
  <2>3. CASE r \in leaked'
    BY <2>1, <2>2, <2>3 DEF ShopsSound
  <2>4. ASSUME NEW q \in Customers \ {p}, r \in shop'.of[q].calls PROVE FALSE
    <3>1. r \in shop.of[q].calls
      BY <2>4 DEF Closed
    <3>2. r \in HeldBy(shop, Customers \ {p})
      BY <3>1, HeldByIs
    <3> QED
      BY <2>1, <3>2 DEF ShopsSound
  <2> QED
    BY <2>3, <2>4, HeldByIs
<1>5. ASSUME NEW p \in Customers, shop'.of[p].owner = NoNpc PROVE shop'.of[p].calls = {}
  BY <1>5 DEF Closed
<1> QED
  BY <1>1, <1>2, <1>3, <1>4, <1>5 DEF ShopsSound

LEMMA ShopParts ==
    ASSUME ShopTypeOK
    PROVE  /\ shop.of \in [Customers -> Windows]
           /\ shop.set \in [Merchants -> SUBSET Customers]
           /\ shop.playing \subseteq Customers /\ shop.placed \subseteq Merchants
           /\ NoShop \in Windows
           /\ shop = [of |-> shop.of, set |-> shop.set,
                      playing |-> shop.playing, placed |-> shop.placed]
  BY DEF ShopTypeOK, NoShop, Windows

(* closeShopWindow: of the players P, each with the NPC it shops with.      *)
ClosedOf(P) == [p \in Customers |-> IF p \in P THEN NoShop ELSE shop.of[p]]
ClosedSet(P) == [n \in Merchants |-> shop.set[n] \ {p \in P : shop.of[p].owner = n}]

LEMMA CloseWindows ==
    ASSUME ShopInv, NEW P \in SUBSET Customers, UNCHANGED loads,
           NEW playing \in SUBSET Customers, NEW placed \in SUBSET Merchants,
           shop' = [of |-> ClosedOf(P), set |-> ClosedSet(P), playing |-> playing, placed |-> placed],
           NEW left \in SUBSET References, left \cap refs = {},
           refs' = (refs \ HeldBy(shop, P)) \cup left, leaked' = leaked \cup left,
           shop.playing \ P \subseteq playing,
           \A p \in Customers \ P : shop.of[p].owner \in shop.placed => shop.of[p].owner \in placed
    PROVE  ShopInv'
<1>1. /\ shop.of \in [Customers -> Windows]
      /\ shop.set \in [Merchants -> SUBSET Customers]
      /\ NoShop \in Windows
  BY ShopParts DEF ShopInv
<1>2. /\ ClosedOf(P) \in [Customers -> Windows]
      /\ ClosedSet(P) \in [Merchants -> SUBSET Customers]
  BY <1>1 DEF ClosedOf, ClosedSet
<1>3. shop'.of = ClosedOf(P) /\ shop'.set = ClosedSet(P) /\ shop'.playing = playing
      /\ shop'.placed = placed
  OBVIOUS
<1>4. ShopTypeOK'
  BY <1>2 DEF ShopInv, ShopTypeOK
<1>5. Closed(P)
  BY <1>3 DEF Closed, ClosedOf, ClosedSet, NoShop, ShopInv, ShopsSound
<1> QED
  BY <1>3, <1>4, <1>5, ClosedSound

LEMMA CloseOnly ==
    ASSUME ShopInv, NEW P \in SUBSET Customers, UNCHANGED <<loads, leaked>>,
           NEW playing \in SUBSET Customers, NEW placed \in SUBSET Merchants,
           shop' = [of |-> ClosedOf(P), set |-> ClosedSet(P), playing |-> playing, placed |-> placed],
           refs' = refs \ HeldBy(shop, P),
           shop.playing \ P \subseteq playing,
           \A p \in Customers \ P : shop.of[p].owner \in shop.placed => shop.of[p].owner \in placed
    PROVE  ShopInv'
<1> DEFINE left == {}
<1>1. /\ left \in SUBSET References /\ left \cap refs = {}
      /\ refs' = (refs \ HeldBy(shop, P)) \cup left /\ leaked' = leaked \cup left
      /\ UNCHANGED loads
  OBVIOUS
<1> HIDE DEF left
<1> QED
  BY <1>1, CloseWindows

LEMMA CloseShopSound ==
    ASSUME ShopInv, NEW p \in Customers, CloseShop(p)
    PROVE  ShopInv'
<1> DEFINE P == {p}
<1>1. shop' = [of |-> ClosedOf(P), set |-> ClosedSet(P),
               playing |-> shop.playing, placed |-> shop.placed]
  BY ShopParts DEF ShopInv, CloseShop, CloseFor, ClosedOf, ClosedSet
<1>2. refs' = refs \ HeldBy(shop, P) /\ UNCHANGED <<loads, leaked>> /\ P \in SUBSET Customers
  BY DEF CloseShop, CloseFor
<1>3. shop.playing \in SUBSET Customers /\ shop.placed \in SUBSET Merchants
  BY ShopParts DEF ShopInv
<1> HIDE DEF P
<1> QED
  BY <1>1, <1>2, <1>3, CloseOnly

LEMMA CustomerLeavesSound ==
    ASSUME ShopInv, NEW p \in Customers, CustomerLeaves(p)
    PROVE  ShopInv'
<1> DEFINE P == {p}
<1>1. shop' = [of |-> ClosedOf(P), set |-> ClosedSet(P),
               playing |-> shop.playing \ P, placed |-> shop.placed]
  <2>1. ClosedOf(P) = [shop.of EXCEPT ![p] = NoShop]
    BY ShopParts DEF ShopInv, ClosedOf
  <2>2. ClosedSet(P) = [n \in Merchants |-> IF shop.of[p].owner = n THEN shop.set[n] \ {p}
                                           ELSE shop.set[n]]
    BY DEF ClosedSet
  <2> QED
    BY <2>1, <2>2, ShopParts DEF ShopInv, CustomerLeaves
<1>2. /\ refs' = refs \ HeldBy(shop, P) /\ UNCHANGED <<loads, leaked>>
      /\ P \in SUBSET Customers
  BY DEF CustomerLeaves, HeldBy
<1>3. shop.playing \ P \in SUBSET Customers /\ shop.placed \in SUBSET Merchants
  BY ShopParts DEF ShopInv
<1> HIDE DEF P
<1> QED
  BY <1>1, <1>2, <1>3, CloseOnly

(* An NPC closes the windows of all it lists, which are all it has.         *)
LEMMA NpcLeavesSound ==
    ASSUME ShopInv, NEW n \in Merchants, NpcLeaves(n)
    PROVE  ShopInv'
<1> DEFINE P == shop.set[n]
<1>1. shop' = [of |-> ClosedOf(P), set |-> ClosedSet(P),
               playing |-> shop.playing, placed |-> shop.placed \ {n}]
  <2>1. UNION {shop.set[m] : m \in {n}} = P
    OBVIOUS
  <2>2. ASSUME NEW m \in Merchants, m \in {n}
        PROVE  shop.set[m] \ {p \in P : shop.of[p].owner = m} = {}
    BY <2>2, ShopParts DEF ShopInv, ShopsSound
  <2>3. ClosedSet(P) = [m \in Merchants |-> IF m \in {n} THEN {}
                                           ELSE shop.set[m] \ {p \in P : shop.of[p].owner = m}]
    BY <2>2 DEF ClosedSet
  <2>4. AllClosed({n}) = [of |-> ClosedOf(P), set |-> ClosedSet(P),
                          playing |-> shop.playing, placed |-> shop.placed]
    <3>1. AllClosed({n}) = [shop EXCEPT
              !.of = [p \in Customers |-> IF p \in P THEN NoShop ELSE shop.of[p]],
              !.set = [m \in Merchants |-> IF m \in {n} THEN {}
                         ELSE shop.set[m] \ {p \in P : shop.of[p].owner = m}]]
      BY <2>1 DEF AllClosed
    <3> HIDE DEF P
    <3> QED
      BY <2>3, <3>1, ShopParts DEF ShopInv, ClosedOf
  <2> QED
    BY <2>4 DEF NpcLeaves
<1>2. P \in SUBSET Customers /\ shop.playing \in SUBSET Customers
      /\ shop.placed \ {n} \in SUBSET Merchants
  BY ShopParts DEF ShopInv
<1>3. refs' = refs \ HeldBy(shop, P) /\ UNCHANGED <<loads, leaked>>
  BY DEF NpcLeaves
<1>4. \A p \in Customers \ P : shop.of[p].owner \in shop.placed
                                  => shop.of[p].owner \in shop.placed \ {n}
  BY ShopParts DEF ShopInv, ShopsSound
<1> HIDE DEF P
<1> QED
  BY <1>1, <1>2, <1>3, <1>4, CloseOnly

LEMMA CloseByScriptSound ==
    ASSUME ShopInv, NEW p \in Customers, NEW n \in Merchants, CloseByScript(p, n)
    PROVE  ShopInv'
<1> DEFINE P == {p}
           left == {}
<1>1. shop' = [of |-> [shop.of EXCEPT ![p] = [NoShop EXCEPT !.goods = shop.of[p].goods]],
               set |-> [shop.set EXCEPT ![n] = shop.set[n] \ {p}],
               playing |-> shop.playing, placed |-> shop.placed]
  BY ShopParts DEF ShopInv, CloseByScript
<1>2. shop.of[p].owner = n /\ UNCHANGED loads
  BY DEF CloseByScript
<1>3. ShopTypeOK'
  <2>1. [NoShop EXCEPT !.goods = shop.of[p].goods] \in Windows
    BY ShopParts DEF ShopInv, NoShop, Windows
  <2>2. refs' \subseteq References /\ leaked' \subseteq References /\ loads' \in Nat
    BY DEF ShopInv, ShopTypeOK, CloseByScript
  <2>3. /\ shop'.of \in [Customers -> Windows]
        /\ shop'.set \in [Merchants -> SUBSET Customers]
    BY <1>1, <2>1, ShopParts DEF ShopInv
  <2> QED
    BY <1>1, <2>2, <2>3, ShopParts DEF ShopInv, ShopTypeOK
<1>4. Closed(P)
  BY <1>1, <1>2, ShopParts DEF Closed, NoShop, ShopInv, ShopsSound
<1>5. /\ refs' = (refs \ HeldBy(shop, P)) \cup left /\ leaked' = leaked \cup left
      /\ left \cap refs = {} /\ P \in SUBSET Customers
  BY DEF CloseByScript, HeldBy
<1>6. shop'.playing = shop.playing /\ shop'.placed = shop.placed
  BY <1>1
<1> HIDE DEF P, left
<1> QED
  BY <1>2, <1>3, <1>4, <1>5, <1>6, ClosedSound

LEMMA OpenFailsSound ==
    ASSUME ShopInv, OpenFails
    PROVE  ShopInv'
<1>1. PICK P \in {{}} \cup {{p} : p \in shop.playing}, r \in References \ refs :
          /\ shop' = [shop EXCEPT
               !.of = [p \in Customers |-> IF p \in P THEN NoShop ELSE @[p]],
               !.set = [n \in Merchants |-> @[n] \ {p \in P : shop.of[p].owner = n}]]
          /\ refs' = (refs \ HeldBy(shop, P)) \cup {r}
          /\ leaked' = leaked \cup {r}
  BY DEF OpenFails
<1>2. P \in SUBSET Customers /\ shop.playing \in SUBSET Customers
      /\ shop.placed \in SUBSET Merchants
  BY ShopParts DEF ShopInv
<1>3. shop' = [of |-> ClosedOf(P), set |-> ClosedSet(P),
               playing |-> shop.playing, placed |-> shop.placed]
  BY <1>1, ShopParts DEF ShopInv, ClosedOf, ClosedSet
<1> DEFINE left == {r}
<1>4. /\ left \in SUBSET References /\ left \cap refs = {} /\ UNCHANGED loads
      /\ refs' = (refs \ HeldBy(shop, P)) \cup left /\ leaked' = leaked \cup left
  BY <1>1 DEF OpenFails
<1> HIDE DEF left
<1> QED
  BY <1>2, <1>3, <1>4, CloseWindows

(* A window takes the place of the player's last one.  What it references   *)
(* has been no reference before, and so is nobody else's.                   *)
LEMMA OpenShopSound ==
    ASSUME ShopInv, NEW p \in Customers, NEW n \in Merchants, OpenShop(p, n)
    PROVE  ShopInv'
<1> USE DEF ShopInv
<1>1. PICK calls \in SUBSET (References \ refs) :
          /\ shop' = [shop EXCEPT
               !.of[p] = [owner |-> n, calls |-> calls, madeIn |-> loads, goods |-> n],
               !.set = [m \in Merchants |->
                          IF m = n THEN @[m] \cup {p}
                          ELSE IF shop.of[p].owner = m THEN @[m] \ {p} ELSE @[m]]]
          /\ refs' = (refs \ shop.of[p].calls) \cup calls
  BY DEF OpenShop
<1> DEFINE window == [owner |-> n, calls |-> calls, madeIn |-> loads, goods |-> n]
<1>2. /\ p \in shop.playing /\ n \in shop.placed
      /\ UNCHANGED <<loads, leaked>>
  BY DEF OpenShop
<1>3. /\ shop.of \in [Customers -> Windows] /\ shop.set \in [Merchants -> SUBSET Customers]
      /\ loads \in Nat
  BY ShopParts DEF ShopTypeOK
<1>4. /\ shop'.of = [shop.of EXCEPT ![p] = window]
      /\ shop'.set = [m \in Merchants |->
                         IF m = n THEN shop.set[m] \cup {p}
                         ELSE IF shop.of[p].owner = m THEN shop.set[m] \ {p} ELSE shop.set[m]]
      /\ shop'.playing = shop.playing /\ shop'.placed = shop.placed
      /\ shop' = [of |-> shop'.of, set |-> shop'.set,
                  playing |-> shop.playing, placed |-> shop.placed]
  BY <1>1, ShopParts
<1>5. window \in Windows
  BY <1>1, <1>3 DEF Windows
<1>6. ShopTypeOK'
  <2>1. shop'.of \in [Customers -> Windows]
    BY <1>3, <1>4, <1>5
  <2>2. shop'.set \in [Merchants -> SUBSET Customers]
    BY <1>3, <1>4
  <2>3. refs' \subseteq References /\ leaked' \subseteq References /\ loads' \in Nat
    BY <1>1, <1>2 DEF ShopTypeOK
  <2> QED
    BY <1>4, <2>1, <2>2, <2>3, ShopParts DEF ShopTypeOK
<1>7. /\ shop'.of[p].owner = n /\ shop'.of[p].calls = calls
      /\ shop'.of[p].madeIn = loads /\ shop'.of[p].goods = n
      /\ \A q \in Customers \ {p} : shop'.of[q] = shop.of[q]
  BY <1>3, <1>4
<1> HIDE DEF window
<1>8. \A q \in Customers, m \in Merchants : shop'.of[q].owner = m <=> q \in shop'.set[m]
  BY <1>4, <1>7 DEF ShopsSound
<1>9. ASSUME NEW q \in Customers, shop'.of[q].owner # NoNpc
      PROVE  /\ q \in shop'.playing /\ shop'.of[q].owner \in shop'.placed
             /\ shop'.of[q].goods = shop'.of[q].owner
             /\ shop'.of[q].madeIn = loads'
  BY <1>2, <1>4, <1>7, <1>9 DEF ShopsSound
<1>10. \A q \in Customers : shop'.of[q].owner = NoNpc => shop'.of[q].calls = {}
  BY <1>7, ShopsAssumption
<1>11. ASSUME NEW r PROVE r \in refs' <=> r \in HeldBy(shop', Customers) \/ r \in leaked'
  <2>1. r \in refs <=> (\E q \in Customers : r \in shop.of[q].calls) \/ r \in leaked
    BY HeldByIs DEF ShopsSound
  <2>2. ASSUME NEW q \in Customers \ {p}, r \in shop.of[p].calls
        PROVE  r \notin leaked /\ r \notin shop.of[q].calls
    <3>1. r \in shop.of[q].calls => r \in HeldBy(shop, Customers \ {p})
      BY HeldByIs
    <3> QED
      BY <2>2, <3>1 DEF ShopsSound
  <2>3. r \in HeldBy(shop', Customers) <=>
            r \in calls \/ \E q \in Customers \ {p} : r \in shop.of[q].calls
    BY <1>7, HeldByIs
  <2>4. r \in shop.of[p].calls => r \notin leaked
    BY DEF ShopsSound
  <2> QED
    BY <1>1, <1>2, <2>1, <2>2, <2>3, <2>4
<1>12. ASSUME NEW q \in Customers, NEW r \in shop'.of[q].calls
       PROVE  r \notin leaked' /\ r \notin HeldBy(shop', Customers \ {q})
  <2>1. ASSUME NEW s \in Customers PROVE shop.of[s].calls \subseteq refs /\ leaked \subseteq refs
    BY <2>1, HeldByIs DEF ShopsSound
  <2>2. r \notin leaked'
    BY <1>1, <1>2, <1>7, <1>12, <2>1 DEF ShopsSound
  <2>3. ASSUME NEW s \in Customers \ {q}, r \in shop'.of[s].calls PROVE FALSE
    <3>1. CASE p \notin {q, s}
      <4>1. r \in shop.of[s].calls /\ r \in shop.of[q].calls
        BY <1>7, <1>12, <2>3, <3>1
      <4>2. r \in HeldBy(shop, Customers \ {q})
        BY <4>1, HeldByIs
      <4> QED
        BY <4>1, <4>2 DEF ShopsSound
    <3>2. CASE p \in {q, s}
      BY <1>1, <1>7, <1>12, <2>1, <2>3, <3>2
    <3> QED
      BY <3>1, <3>2
  <2> QED
    BY <2>2, <2>3, HeldByIs
<1>13. \A q \in Customers : shop'.of[q].calls \cap (leaked' \cup HeldBy(shop', Customers \ {q})) = {}
  BY <1>12
<1> QED
  BY <1>6, <1>8, <1>9, <1>10, <1>11, <1>13 DEF ShopsSound

(* A reload closes every window there is: what is left is what errors left. *)
LEMMA ReloadSound ==
    ASSUME ShopInv, ReloadNpcs
    PROVE  ShopInv'
<1> USE DEF ShopInv
<1> DEFINE P == UNION {shop.set[n] : n \in shop.placed}
<1>1. shop' = [of |-> ClosedOf(P),
               set |-> [n \in Merchants |-> IF n \in shop.placed THEN {}
                                           ELSE shop.set[n] \ {p \in P : shop.of[p].owner = n}],
               playing |-> shop.playing, placed |-> shop.placed]
  <2>1. shop' = [shop EXCEPT
              !.of = [p \in Customers |-> IF p \in P THEN NoShop ELSE shop.of[p]],
              !.set = [n \in Merchants |-> IF n \in shop.placed THEN {}
                         ELSE shop.set[n] \ {p \in P : shop.of[p].owner = n}]]
    BY DEF ReloadNpcs, AllClosed
  <2> HIDE DEF P
  <2> QED
    BY <2>1, ShopParts DEF ClosedOf
<1>2. P \in SUBSET Customers
  BY ShopParts
<1>3. ASSUME NEW p \in Customers, shop.of[p].owner # NoNpc PROVE p \in P
  BY <1>3, ShopParts DEF ShopsSound
<1>4. \A p \in Customers : shop'.of[p].owner = NoNpc /\ shop'.of[p].calls = {}
  BY <1>1, <1>3 DEF ClosedOf, NoShop
<1>5. \A n \in Merchants : shop'.set[n] = {}
  BY <1>1, <1>3, ShopParts, ShopsAssumption DEF ShopsSound
<1>6. refs' = refs \ HeldBy(shop, P) /\ leaked' = leaked /\ loads' = loads + 1
  BY DEF ReloadNpcs
<1>7. refs' = leaked
  <2> HIDE DEF P
  <2>1. ASSUME NEW r, NEW p \in Customers, r \in shop.of[p].calls
        PROVE  r \in HeldBy(shop, P) /\ r \notin leaked
    <3>1. p \in P
      BY <1>3, <2>1
    <3> QED
      BY <2>1, <3>1, HeldByIs DEF ShopsSound
  <2>2. \A r : r \in refs <=> (\E p \in Customers : r \in shop.of[p].calls) \/ r \in leaked
    BY HeldByIs DEF ShopsSound
  <2>3. \A r : r \in HeldBy(shop, P) => \E p \in Customers : r \in shop.of[p].calls
    BY <1>2, HeldByIs
  <2> QED
    BY <1>6, <2>1, <2>2, <2>3
<1>8. ShopTypeOK'
  <2>1. ClosedOf(P) \in [Customers -> Windows]
    BY ShopParts DEF ClosedOf
  <2>2. shop'.of = ClosedOf(P) /\ shop'.set \in [Merchants -> SUBSET Customers]
    BY <1>1, <1>5
  <2>3. loads' \in Nat /\ leaked \subseteq References
    BY <1>6 DEF ShopTypeOK
  <2> HIDE DEF P
  <2> QED
    BY <1>1, <1>6, <1>7, <2>1, <2>2, <2>3, ShopParts DEF ShopTypeOK
<1>9. \A q \in SUBSET Customers : HeldBy(shop', q) = {}
  BY <1>4 DEF HeldBy
<1> QED
  BY <1>4, <1>5, <1>6, <1>7, <1>8, <1>9, ShopsAssumption DEF ShopsSound

LEMMA ComeSound ==
    ASSUME ShopInv, (\E p \in Customers : CustomerComes(p)) \/ (\E n \in Merchants : NpcComes(n))
    PROVE  ShopInv'
<1> DEFINE P == {}
<1>1. PICK playing \in SUBSET Customers, placed \in SUBSET Merchants :
          /\ shop.playing \subseteq playing /\ shop.placed \subseteq placed
          /\ shop' = [shop EXCEPT !.playing = playing, !.placed = placed]
  <2>1. shop.playing \in SUBSET Customers /\ shop.placed \in SUBSET Merchants
    BY ShopParts DEF ShopInv
  <2>2. ASSUME NEW p \in Customers, CustomerComes(p)
        PROVE  shop' = [shop EXCEPT !.playing = shop.playing \cup {p}, !.placed = shop.placed]
    BY <2>2, ShopParts DEF ShopInv, CustomerComes
  <2>3. ASSUME NEW n \in Merchants, NpcComes(n)
        PROVE  shop' = [shop EXCEPT !.playing = shop.playing, !.placed = shop.placed \cup {n}]
    BY <2>3, ShopParts DEF ShopInv, NpcComes
  <2> QED
    BY <2>1, <2>2, <2>3
<1>2. UNCHANGED <<loads, refs, leaked>>
  BY DEF CustomerComes, NpcComes
<1>3. ClosedOf(P) = shop.of /\ ClosedSet(P) = shop.set
  BY ShopParts DEF ShopInv, ClosedOf, ClosedSet
<1>4. shop' = [of |-> ClosedOf(P), set |-> ClosedSet(P), playing |-> playing, placed |-> placed]
  BY <1>1, <1>3, ShopParts DEF ShopInv
<1>5. refs' = refs \ HeldBy(shop, P) /\ P \in SUBSET Customers
  BY <1>2 DEF HeldBy
<1>6. /\ shop.playing \ P \subseteq playing
      /\ \A p \in Customers \ P : shop.of[p].owner \in shop.placed => shop.of[p].owner \in placed
  BY <1>1
<1> HIDE DEF P
<1> QED
  BY <1>2, <1>4, <1>5, <1>6, CloseOnly

LEMMA ShopInductive == ShopSpec => []ShopInv
<1>1. ShopInit => ShopInv
  <2> SUFFICES ASSUME ShopInit PROVE ShopInv
    OBVIOUS
  <2>1. \A p \in Customers : shop.of[p] = NoShop
    BY DEF ShopInit
  <2>2. ShopTypeOK
    BY DEF ShopInit, ShopTypeOK, NoShop, Windows
  <2>3. \A P \in SUBSET Customers : HeldBy(shop, P) = {}
    BY <2>1 DEF HeldBy, NoShop
  <2> QED
    BY <2>1, <2>2, <2>3, ShopsAssumption DEF ShopInit, ShopInv, ShopsSound, NoShop
<1>2. ShopInv /\ [ShopNext]_shopVars => ShopInv'
  <2> SUFFICES ASSUME ShopInv, [ShopNext]_shopVars PROVE ShopInv'
    OBVIOUS
  <2>1. CASE UNCHANGED shopVars
    BY <2>1 DEF shopVars, ShopInv, ShopTypeOK, ShopsSound, HeldBy
  <2> QED
    BY <2>1, CloseShopSound, CustomerLeavesSound, ComeSound, OpenShopSound, CloseByScriptSound,
       OpenFailsSound, NpcLeavesSound, ReloadSound DEF ShopNext
<1> QED
  BY <1>1, <1>2, PTL DEF ShopSpec

(* For any number of players, NPCs and references, however windows open,    *)
(* close, fail to open and are closed by a logout, a removal or a reload    *)
(* (npc.cpp, Player::closeShopWindow): player and NPC agree who shops where,*)
(* no window offers callbacks of a script as it was before a reload, and    *)
(* every reference is held once but for those an error left.                *)
THEOREM ShopsSoundAlways == ShopSpec => []ShopsSound
<1>1. ShopInv => ShopsSound
  BY DEF ShopInv
<1> QED
  BY <1>1, ShopInductive, PTL
=============================================================================
