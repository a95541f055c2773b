------------------------------- MODULE Items --------------------------------
(***************************************************************************)
(* The cylinders of game.cpp, container.cpp, player.cpp and tile.cpp: one  *)
(* player with slots, the bags below them, and the ground; items that are  *)
(* moved, stacked, split, exchanged, made, removed, transformed and paid   *)
(* with.  An item is a value [kind, n, bag]; a bag keeps its identity.     *)
(* Places in a bag and on the ground are numbered from 1, the slots by     *)
(* their order; Wherever is INDEX_WHEREEVER.  MaxStack is 100 in the code. *)
(***************************************************************************)
EXTENDS Integers, Sequences, FiniteSets, SequencesExt, FiniteSetsExt, Functions, Once

CONSTANTS
    Kinds,        \* item types
    Stackable,    \* the kinds that stack
    BagKind,      \* the type of the containers
    TwoHanded,    \* the kinds with SLOTP_TWO_HAND
    WeightOf,     \* weight of one item of a kind
    Worth,        \* worth of one item of a kind, 0 when it is no money
    Coins,        \* the kinds of money, the most valuable first
    FitsIn,       \* for each slot the kinds that may be worn there
    Hands,        \* the two slots that hold weapon and shield
    Bags,         \* the containers
    Room,         \* Container::capacity of each
    MaxStack,     \* what one stack holds
    Capacity,     \* what the player can carry
    InitWorlds,   \* inventories and grounds to start with
    Becomes,      \* <<from, to>>: transformations other parts ask for
    Sums,         \* the amounts of money that are asked for and given
    MaxCalls      \* bound: calls made in one history

ASSUME ItemsAssumption ==
    /\ Stackable \subseteq Kinds /\ BagKind \in Kinds \ Stackable
    /\ MaxStack \in Nat \ {0} /\ Capacity \in Nat /\ MaxCalls \in Nat

VARIABLES
    world,   \* the cylinders, see InitWorlds; and history: what was discarded
    owed,    \* history: how many of each kind there should be, by the calls made
    calls    \* the number of calls so far

itemVars == <<world, owed, calls>>

Wherever == 0
Up == 254
NoBag == "no bag"
None == [kind |-> "none", n |-> 0, bag |-> NoBag]
Slots == DOMAIN FitsIn

-----------------------------------------------------------------------------
(* Looking things up.                                                       *)
At(w, p, i) ==
    IF p = "player" THEN IF i \in Slots THEN w.slot[i] ELSE None
    ELSE IF i \in DOMAIN w.has[p] THEN w.has[p][i] ELSE None

(* getParent again and again: from a place to the outermost one.            *)
Up1(w, p) == IF p \in Bags THEN w.parent[p] ELSE p
Chain(w, p) ==
    LET c[k \in Nat] == IF k = 0 THEN p ELSE Up1(w, c[k - 1])
    IN  [k \in 0..Cardinality(Bags) |-> c[k]]
Above(w, p) == Range(Chain(w, p)) \cap Bags
Top(w, p) == Chain(w, p)[Cardinality(Bags)]

Carried(w, src) == src # <<>> /\ Top(w, src[1]) = "player"

Weight(w, e) ==
    IF e.bag # NoBag THEN WeightOf[e.kind] + w.total[e.bag]
    ELSE IF e = None THEN 0 ELSE WeightOf[e.kind] * e.n

(* Item::equals, of two items without attributes.                           *)
Same(e, f) == e # None /\ f # None /\ e.kind = f.kind /\ e.bag = f.bag
Stacks(e, f) == e.kind \in Stackable /\ Same(e, f) /\ f.n < MaxStack

-----------------------------------------------------------------------------
(* Changing one cylinder: addThing, removeThing, updateThing, replaceThing. *)
BadHeavier(w, p, d) == IF p \in Bags THEN [w EXCEPT !.total[p] = @ + d] ELSE w

Heavier(w, p, d) ==
    [w EXCEPT !.total = [b \in Bags |-> IF b \in Above(w, p) THEN @[b] + d ELSE @[b]]]

(* Player::checkTradeState: a change of the offered bag, or in it, ends the *)
(* trade.                                                                   *)
Seen(w, p, e) == IF w.trade \in Above(w, p) \cup {e.bag} THEN [w EXCEPT !.trade = NoBag] ELSE w

Within(w, e, p) ==
    LET v == Seen(w, p, e)
    IN  IF e.bag = NoBag THEN v ELSE [v EXCEPT !.parent[e.bag] = p]

Place(w, p, i, e) ==
    IF p = "player" THEN IF i \notin Slots THEN w
                         ELSE Within([w EXCEPT !.slot[i] = e], e, p)
    ELSE IF p \in Bags
    THEN IF i > Room[p] THEN w
         ELSE Heavier(Within([w EXCEPT !.has[p] = <<e>> \o @], e, p), p, Weight(w, e))
    ELSE Within([w EXCEPT !.has[p] = <<e>> \o @], e, p)

Put(w, p, i, e) ==
    LET v == IF p = "player" THEN [w EXCEPT !.slot[i] = e] ELSE [w EXCEPT !.has[p][i] = e]
    IN  Heavier(Seen(v, p, e), p, Weight(w, e) - Weight(w, At(w, p, i)))

Take(w, p, i, n) ==
    LET e == At(w, p, i)
        gone == IF p = "player" THEN [w EXCEPT !.slot[i] = None]
                ELSE [w EXCEPT !.has[p] = RemoveAt(@, i)]
    IN  IF e.kind \in Stackable /\ n # e.n THEN Put(w, p, i, [e EXCEPT !.n = @ - n])
        ELSE Heavier(Within(Seen(gone, p, e), e, "nowhere"), p, -Weight(w, e))

(* The player's postAddNotification and postRemoveNotification, which       *)
(* containers pass on to the one who carries them.                          *)
Notify(w, p) ==
    IF Top(w, p) # "player" THEN w
    ELSE [w EXCEPT !.load = FoldFunction(LAMBDA e, s : s + Weight(w, e), 0, w.slot)]

-----------------------------------------------------------------------------
(* queryAdd: "ok", or why not.  src is where the item is, <<>> if nowhere.  *)
HasCapacity(w, e, n, src) ==
    \/ Carried(w, src)
    \/ (IF e.bag # NoBag THEN Weight(w, e) ELSE WeightOf[e.kind] * n) <= Max({0, Capacity - w.load})

BothHandsFree(w, s, e) ==
    s \in Hands => \A h \in Hands \ {s} :
                     w.slot[h] # None => {e.kind, w.slot[h].kind} \cap TwoHanded = {}

QueryAddPlayer(w, s, e, n, src) ==
    IF s \in Slots /\ ~(e.kind \in FitsIn[s] /\ BothHandsFree(w, s, e)) THEN "slot"
    ELSE IF ~HasCapacity(w, e, n, src) THEN "capacity"
    ELSE IF s \notin Slots THEN "room"
    ELSE IF w.slot[s] # None /\ ~(w.slot[s].kind \in Stackable /\ w.slot[s].kind = e.kind)
         THEN IF Carried(w, src) THEN "exchange" ELSE "room"
    ELSE "ok"

QueryAdd(w, p, i, e, n, src) ==
    IF p = "ground" THEN "ok"
    ELSE IF p = "player" THEN QueryAddPlayer(w, i, e, n, src)
    ELSE IF e.bag \in Above(w, p) THEN "impossible"
    ELSE IF i = Wherever /\ Len(w.has[p]) >= Room[p] THEN "room"
    ELSE IF Top(w, p) = "player" /\ ~HasCapacity(w, e, n, src) THEN "capacity"
    ELSE "ok"

(* queryMaxCount: how many of e go there.                                   *)
MaxInBag(w, b, i, e, n, src) ==
    LET free == Max({0, Room[b] - Len(w.has[b])})
        fits(j) == /\ Stacks(e, w.has[b][j]) /\ src # <<b, j>>
                   /\ QueryAdd(w, b, j, e, n, src) = "ok"
        more(j) == IF fits(j) THEN MaxStack - w.has[b][j].n ELSE 0
        js == IF i = Wherever THEN DOMAIN w.has[b] ELSE {i} \cap DOMAIN w.has[b]
    IN  IF e.kind \notin Stackable THEN free
        ELSE free * MaxStack + MapThenSumSet(more, js)

MaxInSlot(w, s, e, n, src) ==
    LET x == w.slot[s]
        most == IF e.kind \in Stackable THEN MaxStack ELSE 1
    IN  IF x # None
        THEN IF Stacks(e, x) THEN MaxStack - x.n ELSE 0
        ELSE IF QueryAddPlayer(w, s, e, n, src) = "ok" THEN most ELSE 0

QueryMaxCount(w, p, i, e, n, src) ==
    LET inSlot(s) == IF Stacks(e, w.slot[s])
                     THEN LET more == MaxStack - w.slot[s].n
                          IN  IF QueryAddPlayer(w, s, e, more, src) = "ok" THEN more ELSE 0
                     ELSE IF w.slot[s] = None THEN MaxInSlot(w, s, e, e.n, src) ELSE 0
        inBag(b) == MaxInBag(w, b, Wherever, e, e.n, src)
    IN  IF p = "ground" THEN Max({1, n})
        ELSE IF p \in Bags THEN MaxInBag(w, p, i, e, n, src)
        ELSE IF i # Wherever THEN MaxInSlot(w, i, e, n, src)
        ELSE MapThenSumSet(inSlot, Slots)
             + MapThenSumSet(inBag, {b \in Bags : Top(w, b) = "player"})

(* Whether queryMaxCount, which says that most fit, returns no error.       *)
AllFit(w, p, i, e, n, most) ==
    IF p \in Bags /\ e.kind \notin Stackable THEN most > 0
    ELSE \/ p = "player" /\ i \in Slots /\ w.slot[i] = None /\ most > 0
         \/ most >= n

(* queryDestination of the player's "capacity window": the first slot, then *)
(* the bags, breadth first.  An answer is <<where, index, place of the item *)
(* to stack on>>; the offered bag and the item itself are passed over,      *)
(* except below a bag when the item does not stack.                         *)
Passed(w, e, src, p, i) ==
    src = <<p, i>> \/ (At(w, p, i).bag # NoBag /\ At(w, p, i).bag = w.trade)

BagsBelow(w, e, src) ==
    LET in(p, is) == SelectSeq([k \in 1..Len(is) |-> At(w, p, is[k]).bag], LAMBDA b : b # NoBag)
        counts(p, i) == ~Passed(w, e, src, p, i)
        kept(p, is) == SelectSeq(is, LAMBDA i : counts(p, i))
        upTo(n) == [k \in 1..n |-> k]
        below(b) == LET all == upTo(Len(w.has[b]))
                    IN  in(b, IF e.kind \in Stackable THEN kept(b, all) ELSE all)
        grow(q, k) == IF k <= Len(q) THEN q \o below(q[k]) ELSE q
    IN  FoldLeft(grow, in("player", kept("player", SetToSortSeq(Slots, <))), upTo(Cardinality(Bags)))

DestOnPlayer(w, e, src) ==
    LET open(s) == /\ ~Passed(w, e, src, "player", s)
                   /\ w.slot[s] = None \/ Stacks(e, w.slot[s])
                   /\ QueryAddPlayer(w, s, e, e.n, src) = "ok"
        index(b, j) == 1 + Cardinality({i \in 1..j - 1 : ~Passed(w, e, src, b, i)})
        stack(b) == {j \in DOMAIN w.has[b] :
                       e.kind \in Stackable /\ Stacks(e, w.has[b][j]) /\ ~Passed(w, e, src, b, j)}
        last(b) == IF e.kind \in Stackable THEN index(b, Len(w.has[b]) + 1) ELSE Len(w.has[b]) + 1
        hasRoom(b, i) == i <= Room[b] /\ QueryAdd(w, b, i, e, e.n, src) = "ok"
        takes(b) == stack(b) # {} \/ hasRoom(b, last(b))
        InBag(b, js) == IF js = {} THEN <<b, last(b), Wherever>> ELSE <<b, index(b, Min(js)), Min(js)>>
        InBags(fit) == IF fit = <<>> THEN <<"player", Wherever, Wherever>>
                       ELSE With(stack(fit[1]), LAMBDA js : InBag(fit[1], js))
        Best(ss) == IF ss # {} THEN <<"player", Min(ss), Min(ss)>>
                    ELSE With(SelectSeq(BagsBelow(w, e, src), takes), InBags)
    IN  With({s \in Slots : open(s)}, Best)

DestInBag(w, b, index, e, src) ==
    LET i == IF index > Room[b] THEN Wherever ELSE index
        stacks == {j \in DOMAIN w.has[b] : Stacks(e, w.has[b][j]) /\ src # <<b, j>>}
        search == e.kind \in Stackable /\ (src = <<>> \/ src[1] # b) /\ ~Stacks(e, At(w, b, i))
    IN  IF index = Up
        THEN <<IF w.parent[b] \in Bags THEN w.parent[b] ELSE b, Wherever, Wherever>>
        ELSE IF At(w, b, i).bag # NoBag THEN <<At(w, b, i).bag, Wherever, Wherever>>
        ELSE IF search /\ stacks # {} THEN <<b, Min(stacks), Min(stacks)>>
        ELSE <<b, i, IF i \in DOMAIN w.has[b] THEN i ELSE Wherever>>

QueryDestination(w, p, i, e, src) ==
    IF p = "ground" THEN <<p, i, IF w.has[p] = <<>> THEN Wherever ELSE 1>>
    ELSE IF p \in Bags THEN DestInBag(w, p, i, e, src)
    ELSE IF i = Wherever THEN DestOnPlayer(w, e, src)
    ELSE IF w.slot[i].bag # NoBag THEN <<w.slot[i].bag, Wherever, Wherever>>
    ELSE <<p, i, IF w.slot[i] = None THEN Wherever ELSE i>>

(* internalMoveItem asks again until a cylinder names itself.               *)
RECURSIVE MoveDestination(_, _, _, _, _)
MoveDestination(w, p, i, e, src) ==
    With(QueryDestination(w, p, i, e, src),
         LAMBDA d : IF d[1] = p THEN d ELSE MoveDestination(w, d[1], d[2], e, src))

-----------------------------------------------------------------------------
(* Game::internalMoveItem.  The item that lies where the other one goes     *)
(* changes places with it first.                                            *)
HandOver(w, f, e) == IF f = "player" THEN w ELSE Place(w, f, 1, e)

Exchange(w, f, to, x) ==
    LET t == At(w, to, x)
    IN  Notify(Notify(HandOver(Take(w, to, x, t.n), f, t), to), f)

MayExchange(w, f, fi, to, x) ==
    LET t == At(w, to, x)
    IN  /\ QueryAdd(w, f, fi, t, t.n, <<to, x>>) = "ok"
        /\ With(QueryMaxCount(w, f, Wherever, t, t.n, <<to, x>>),
                LAMBDA most : most > 0 \/ AllFit(w, f, Wherever, t, t.n, most))

QueryRemove(e, n) == n > 0 /\ (e.kind \in Stackable => n <= e.n)

(* m of e arrive where i is asked for and the item at y is to stack on.     *)
Arrives(v, e, m, to, i, y) ==
    LET t == At(v, to, y)
        merged == IF e.kind \in Stackable /\ Same(e, t) THEN Min({MaxStack - t.n, m}) ELSE 0
        left == IF e.kind \in Stackable THEN m - merged ELSE 1
        Rest(u) == IF left > 0 THEN Place(u, to, i, [e EXCEPT !.n = left]) ELSE u
    IN  With(IF merged = 0 THEN v ELSE Put(v, to, y, [t EXCEPT !.n = @ + merged]), Rest)

(* Once an item before it has left its container the one at x has moved up. *)
StillAt(w, v, f, fi, to, x) ==
    IF f = to /\ f # "player" /\ Len(v.has[f]) < Len(w.has[f]) /\ fi < x THEN x - 1 ELSE x

Leave(w, f, fi, m, to, i, x) ==
    With(Take(w, f, fi, m),
         LAMBDA v : Arrives(v, At(w, f, fi), m, to, i, StillAt(w, v, f, fi, to, x)))

Moved(w, f, fi, n, to, i, x) ==
    LET e == At(w, f, fi)
        Some(most, m) == IF (most = 0 /\ ~AllFit(w, to, i, e, n, most)) \/ ~QueryRemove(e, m) THEN w
                         ELSE Notify(Notify(Leave(w, f, fi, m, to, i, x), f), to)
    IN  With(QueryMaxCount(w, to, i, e, n, <<f, fi>>),
             LAMBDA most : Some(most, IF e.kind \in Stackable THEN Min({n, most}) ELSE most))

(* Once it has changed places the item has moved on by one, and nothing     *)
(* lies where it goes.                                                      *)
InternalMoveItem(w, f, fi, n, p, index) ==
    LET e == At(w, f, fi)
        IfAdded(v, at, to, i, x) == IF QueryAdd(v, to, i, e, n, <<f, at>>) = "ok"
                                    THEN Moved(v, f, at, n, to, i, x) ELSE v
        To(to, i, x) ==
            IF <<to, x>> = <<f, fi>> THEN w
            ELSE IF QueryAdd(w, to, i, e, n, <<f, fi>>) = "exchange"
            THEN IF ~MayExchange(w, f, fi, to, x) THEN w
                 ELSE With(Exchange(w, f, to, x), LAMBDA v : IfAdded(v, fi + 1, to, i, Wherever))
            ELSE IfAdded(w, fi, to, i, x)
    IN  With(MoveDestination(w, p, index, e, <<f, fi>>), LAMBDA d : To(d[1], d[2], d[3]))

-----------------------------------------------------------------------------
(* What nobody asks for any more: of a stack that was added in part.        *)
Discarded(w, kind, n) == [w EXCEPT !.discarded[kind] = @ + n]

(* Game::internalAddItem.  What does not fit on the first stack goes on as  *)
(* an item of its own; a remainder of that one is not told to anybody.      *)
RECURSIVE AddItem(_, _, _, _)
AddItem(w, p, e, index) ==
    LET Done(v, to) == [w |-> Notify(v, to), ok |-> TRUE, rest |-> 0]
        Rest(v, n) == With(AddItem(v, p, [e EXCEPT !.n = n], Wherever),
                           LAMBDA r : IF r.ok THEN [r EXCEPT !.w = Discarded(@, e.kind, r.rest), !.rest = 0]
                                      ELSE [w |-> v, ok |-> TRUE, rest |-> n])
        Stacked(to, x, merged, rest) ==
            With(Put(w, to, x, [At(w, to, x) EXCEPT !.n = @ + merged]),
                 LAMBDA v : IF rest = 0 THEN Done(v, to) ELSE Rest(v, rest))
        To(to, i, x, most) ==
            LET y == At(w, to, x)
                merged == IF e.kind \in Stackable /\ Same(e, y) THEN Min({MaxStack - y.n, e.n, most}) ELSE 0
                rest == Min({e.n, most}) - merged
            IN  IF \/ QueryAdd(w, to, i, e, e.n, <<>>) # "ok"
                   \/ ~AllFit(w, p, Wherever, e, e.n, most)
                THEN [w |-> w, ok |-> FALSE, rest |-> 0]
                ELSE IF e.kind \in Stackable /\ Same(e, y) /\ rest # e.n
                THEN Stacked(to, x, merged, rest)
                ELSE Done(Place(w, to, i, e), to)
    IN  With(QueryDestination(w, p, index, e, <<>>),
             LAMBDA d : With(QueryMaxCount(w, p, Wherever, e, e.n, <<>>),
                             LAMBDA most : To(d[1], d[2], d[3], most)))

OnTheGround(w, e) == AddItem(w, "ground", e, Wherever)

(* Game::internalPlayerAddItem: what is left over of it, or all of it when  *)
(* it was refused, goes to the ground.                                      *)
PlayerAddItem(w, e, dropOnMap) ==
    LET left(r) == IF r.ok THEN r.rest ELSE IF dropOnMap THEN e.n ELSE 0
    IN  With(AddItem(w, "player", e, Wherever),
             LAMBDA r : IF left(r) = 0 THEN r ELSE OnTheGround(r.w, [e EXCEPT !.n = left(r)]))

(* Game::internalRemoveItem.                                                *)
RemoveItem(w, p, i, n) ==
    IF QueryRemove(At(w, p, i), n) THEN Notify(Take(w, p, i, n), p) ELSE w

-----------------------------------------------------------------------------
(* A bug: what the player cannot take is not put down.                      *)
BadReceived(w, e) == AddItem(w, "player", e, Wherever).w

Received(w, e) ==
    With(AddItem(w, "player", e, Wherever),
         LAMBDA r : IF r.ok THEN Discarded(r.w, e.kind, r.rest) ELSE OnTheGround(w, e).w)

(* Game::addMoney: coins of each kind, the most valuable first, a stack at  *)
(* a time.  A stack that the player cannot take falls on the ground; of one *)
(* that he could take in part the rest is discarded.                        *)
AddMoney(w, money) ==
    LET before(k) == FoldLeft(LAMBDA m, j : m % Worth[Coins[j]], money, [j \in 1..k - 1 |-> j])
        coins(k) == before(k) \div Worth[Coins[k]]
        stack(k, j) == [kind |-> Coins[k], bag |-> NoBag, n |-> Min({MaxStack, coins(k) - (j - 1) * MaxStack})]
        stacks(k) == [j \in 1..(coins(k) + MaxStack - 1) \div MaxStack |-> stack(k, j)]
    IN  FoldLeft(LAMBDA v, e : With(v, LAMBDA u : Received(u, e)), w, FlattenSeq([k \in 1..Len(Coins) |-> stacks(k)]))

(* Places the player carries something at, in the order they are searched:  *)
(* the slots, then the bags.                                                *)
Searched(w, Wanted(_)) ==
    LET places(p, n) == SelectSeq([i \in 1..n |-> <<p, i>>], LAMBDA l : Wanted(At(w, l[1], l[2])))
        bags == BagsBelow([w EXCEPT !.trade = NoBag], None, <<>>)
    IN  places("player", Cardinality(Slots))
          \o FlattenSeq([k \in 1..Len(bags) |-> places(bags[k], Len(w.has[bags[k]]))])

(* Where the k-th of these places is once the ones before it were emptied.  *)
NowAt(places, k) ==
    LET p == places[k][1]
    IN  IF p = "player" THEN places[k]
        ELSE <<p, places[k][2] - Cardinality({j \in 1..k - 1 : places[j][1] = p /\ places[j][2] < places[k][2]})>>

Emptied(w, places, n) ==
    FoldLeft(LAMBDA v, k : LET l == NowAt(places, k)
                          IN  With(v, LAMBDA u : RemoveItem(u, l[1], l[2], At(u, l[1], l[2]).n)),
             w, [k \in 1..n |-> k])

SumTo(places, k, Value(_)) == FoldLeft(LAMBDA s, j : s + Value(places[j]), 0, [j \in 1..k |-> j])

(* How many of these places it takes until they come to what is asked for.  *)
Needed(places, asked, Value(_)) == Min({k \in DOMAIN places : SumTo(places, k, Value) >= asked})

(* Game::removeMoney: the cheapest stacks are taken whole; of the one that  *)
(* is worth more than what is left as many coins as cover it, and the       *)
(* change is given before they are taken.                                   *)
RemoveMoney(w, money) ==
    LET worthAt(l) == Worth[At(w, l[1], l[2]).kind] * At(w, l[1], l[2]).n
        cheapest(found) ==
            LET cheaper(a, b) == \/ worthAt(found[a]) < worthAt(found[b])
                                 \/ worthAt(found[a]) = worthAt(found[b]) /\ a < b
            IN  With(SetToSortSeq(DOMAIN found, cheaper), LAMBDA order : [k \in DOMAIN order |-> found[order[k]]])
        shift(v, u, p) == IF p = "player" THEN 0 ELSE Len(v.has[p]) - Len(u.has[p])
        Change(u, l, unit, coins, due) ==
            With(AddMoney(u, unit * coins - due),
                 LAMBDA v : RemoveItem(v, l[1], l[2] + shift(v, u, l[1]), coins))
        Settle(places, last, due, unit) ==
            With(Emptied(w, places, last - 1),
                 LAMBDA u : Change(u, NowAt(places, last), unit, (due + unit - 1) \div unit, due))
        From(places, last) ==
            Settle(places, last, money - SumTo(places, last - 1, worthAt),
                   Worth[At(w, places[last][1], places[last][2]).kind])
    IN  With(cheapest(Searched(w, LAMBDA e : e # None /\ Worth[e.kind] > 0)),
             LAMBDA places : IF SumTo(places, Len(places), worthAt) < money THEN w
                             ELSE With(Needed(places, money, worthAt), LAMBDA last : From(places, last)))

(* Player::removeItemOfType and Game::internalRemoveItems.                  *)
RemoveItemOfType(w, kind, amount) ==
    LET countAt(l) == At(w, l[1], l[2]).n
        TheLast(places, last, l) ==
            With(Emptied(w, places, last - 1),
                 LAMBDA u : RemoveItem(u, l[1], l[2], amount - SumTo(places, last - 1, countAt)))
        From(places, last) == TheLast(places, last, NowAt(places, last))
    IN  With(Searched(w, LAMBDA e : e.kind = kind),
             LAMBDA places : IF SumTo(places, Len(places), countAt) < amount THEN w
                             ELSE With(Needed(places, amount, countAt), LAMBDA last : From(places, last)))

(* Game::transformItem to a type of another group, and of the same one:     *)
(* the item stays where it is.                                              *)
TransformItem(w, p, i, kind) ==
    IF At(w, p, i).kind = kind THEN w ELSE Notify(Put(w, p, i, [At(w, p, i) EXCEPT !.kind = kind]), p)

-----------------------------------------------------------------------------
(* The calls other parts of the server make.                                *)
Places(w) == {<<"player", s>> : s \in Slots}
               \cup UNION {{<<p, i>> : i \in DOMAIN w.has[p]} : p \in DOMAIN w.has}
Filled(w) == {l \in Places(w) : At(w, l[1], l[2]) # None}
Count(w, kind) == MapThenSumSet(LAMBDA l : IF At(w, l[1], l[2]).kind = kind THEN At(w, l[1], l[2]).n ELSE 0, Places(w))
Money(w) == MapThenSumSet(LAMBDA k : Worth[k] * Count(w, k), Range(Coins))

ItemInit ==
    /\ world \in InitWorlds
    /\ owed = [k \in Kinds \cup {"money"} |-> IF k = "money" THEN Money(world) ELSE Count(world, k)]
    /\ calls = 0

MoveItem(l, n, p, i) ==
    /\ l \in Filled(world)
    /\ n <= At(world, l[1], l[2]).n
    /\ world' = InternalMoveItem(world, l[1], l[2], n, p, i)
    /\ UNCHANGED owed

Entry(kind, n) == [kind |-> kind, n |-> n, bag |-> NoBag]
Owe(kind, n) == [owed EXCEPT ![kind] = @ + n, !.money = @ + n * Worth[kind]]

GiveItem(kind, n, dropOnMap) ==
    /\ LET r == PlayerAddItem(world, Entry(kind, n), dropOnMap)
       IN  /\ world' = r.w
           /\ owed' = IF r.ok \/ dropOnMap THEN Owe(kind, n) ELSE owed

PutInBag(kind, n, b) ==
    /\ LET r == AddItem(world, b, Entry(kind, n), Wherever)
       IN  /\ world' = Discarded(r.w, kind, r.rest)
           /\ owed' = IF r.ok THEN Owe(kind, n) ELSE owed

DestroyItem(l, n) ==
    /\ l \in Filled(world)
    /\ At(world, l[1], l[2]).bag = NoBag /\ n <= At(world, l[1], l[2]).n
    /\ world' = RemoveItem(world, l[1], l[2], n)
    /\ owed' = Owe(At(world, l[1], l[2]).kind, -n)

Pay(money) ==
    /\ world' = RemoveMoney(world, money)
    /\ LET enough == money <= MapThenSumSet(LAMBDA l : IF Carried(world, l) THEN Worth[At(world, l[1], l[2]).kind] * At(world, l[1], l[2]).n ELSE 0, Filled(world))
       IN  owed' = IF enough THEN [owed EXCEPT !.money = @ - money] ELSE owed

(* player:addMoney(money) of a script.                                      *)
GiveMoney(money) ==
    /\ world' = AddMoney(world, money)
    /\ owed' = [owed EXCEPT !.money = @ + money]

TakeItems(kind, n) ==
    /\ world' = RemoveItemOfType(world, kind, n)
    /\ LET has == MapThenSumSet(LAMBDA l : IF Carried(world, l) /\ At(world, l[1], l[2]).kind = kind THEN At(world, l[1], l[2]).n ELSE 0, Filled(world))
       IN  owed' = IF n <= has THEN Owe(kind, -n) ELSE owed

Transform(l, kind) ==
    /\ l \in Filled(world)
    /\ <<At(world, l[1], l[2]).kind, kind>> \in Becomes
    /\ world' = TransformItem(world, l[1], l[2], kind)
    /\ owed' = [owed EXCEPT ![At(world, l[1], l[2]).kind] = @ - 1, ![kind] = @ + 1]

(* Game::playerRequestTrade and internalCloseTrade, as far as items see it. *)
Offer(b) ==
    /\ Top(world, b) = "player"
    /\ world' = [world EXCEPT !.trade = IF @ = b THEN NoBag ELSE b, !.offered = TRUE]
    /\ UNCHANGED owed

Call ==
    \/ \E l \in Places(world), p \in Bags \cup {"player", "ground"} :
         \E n \in 1..MaxStack, i \in {Wherever} \cup
               (CASE p = "player" -> Slots [] p = "ground" -> {} [] OTHER -> 1..Room[p] \cup {Up}) :
            MoveItem(l, n, p, i)
    \/ \E kind \in Kinds \ {BagKind}, n \in 1..MaxStack :
         /\ kind \in Stackable \/ n = 1
         /\ \/ \E drop \in BOOLEAN : GiveItem(kind, n, drop)
            \/ \E b \in Bags : PutInBag(kind, n, b)
            \/ \E l \in Places(world) : DestroyItem(l, n) /\ At(world, l[1], l[2]).kind = kind
            \/ TakeItems(kind, n)
    \/ \E money \in Sums : Pay(money) \/ GiveMoney(money)
    \/ \E l \in Places(world), kind \in Kinds : Transform(l, kind)
    \/ \E b \in Bags : Offer(b)

ItemNext == calls < MaxCalls /\ calls' = calls + 1 /\ Call

ItemSpec == ItemInit /\ [][ItemNext]_itemVars

-----------------------------------------------------------------------------
(* No call loses or doubles anything: of every kind of item that is no      *)
(* money there is as much as was given less what was taken, and the coins   *)
(* together are worth what they should be (Game::internalMoveItem,          *)
(* internalAddItem, removeMoney and addMoney, which split, merge and change *)
(* stacks over several cylinders and drop what does not fit), but for what  *)
(* internalAddItem discards.  And it discards nothing unless a bag has been *)
(* offered: only then does Player::queryMaxCount count room that            *)
(* queryDestination passes over.                                            *)
MoneyDiscarded(w) == MapThenSumSet(LAMBDA k : Worth[k] * w.discarded[k], Range(Coins))

NothingLost ==
    /\ Money(world) + MoneyDiscarded(world) = owed.money
    /\ \A k \in Kinds : Worth[k] = 0 => Count(world, k) + world.discarded[k] = owed[k]
    /\ ~world.offered => \A k \in Kinds : world.discarded[k] = 0

(* What is kept along with the items agrees with them: a bag lies in one    *)
(* place, the one it takes for its parent, and never in itself              *)
(* (Container::queryAdd); no stack is empty or holds too much; what a       *)
(* container takes for the weight of its content (updateItemWeight) and the *)
(* player for the weight of the inventory is right, however deep the change *)
(* was; and the player carries no more than the capacity, nor anything      *)
(* beside a two-handed weapon (Player::queryAdd).  While a bag is offered   *)
(* for trade Player::queryDestination counts one place less and fills the   *)
(* bag it lies in beyond its capacity, and Game::internalAddItem may find    *)
(* no place for a remainder and leave the weight as it was: these two parts *)
(* are for the time before the first offer.                                 *)
CylindersSound ==
    /\ \A b \in Bags :
         /\ {l \in Places(world) : At(world, l[1], l[2]).bag = b} # {}
         /\ \A l \in Places(world) : At(world, l[1], l[2]).bag = b => l[1] = world.parent[b]
         /\ ~world.offered => Len(world.has[b]) <= Room[b]
         /\ Top(world, b) \in {"player", "ground"}
         /\ world.total[b] = FoldLeft(LAMBDA s, e : s + Weight(world, e), 0, world.has[b])
    /\ \A l \in Filled(world) :
         At(world, l[1], l[2]).n \in 1..(IF At(world, l[1], l[2]).kind \in Stackable THEN MaxStack ELSE 1)
    /\ ~world.offered => world.load = FoldFunction(LAMBDA e, s : s + Weight(world, e), 0, world.slot)
    /\ world.load <= Capacity
    /\ \A h \in Hands : world.slot[h].kind \in TwoHanded =>
                          \A g \in Hands \ {h} : world.slot[g] = None
=============================================================================
