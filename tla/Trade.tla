------------------------------- MODULE Trade -------------------------------
(***************************************************************************)
(* The safe trade (game.cpp, player.cpp).  A player offers an item to      *)
(* another one, who may offer one in turn; when both have accepted, the    *)
(* items change hands.  Meanwhile both walk, and they and everybody else   *)
(* move items about: what must not happen to an offer closes the trade,    *)
(* from the callbacks of the map, the containers and the inventories.      *)
(*                                                                         *)
(* Items lie in a player's inventory, in a container or on one square of   *)
(* the ground; players stand on a line.                                    *)
(***************************************************************************)
EXTENDS Integers, FiniteSets, FiniteSetsExt

CONSTANTS
    Players, Items,
    Containers,     \* the items that hold others
    Ground,         \* the square of the ground
    Gone,           \* where items are that were removed
    None,           \* a null pointer
    Squares,        \* the squares of the line
    GroundSquare,   \* the one items lie on
    Weight,         \* of each item
    Stackables,     \* the items of one kind that can be put on each other
    Capacity,       \* what each player may carry
    Start,          \* the first place of each item
    StartSquare     \* and of each player

(* The containers around item x when each item is at its place in pl, and   *)
(* the things around it: its parent, the parent of that, ... up to whoever  *)
(* or whatever holds it in the end.                                         *)
HoldersIn(pl, x) ==
    {c \in Containers :
        \A S \in SUBSET Containers :
            ({pl[x]} \cup {pl[d] : d \in S}) \cap Containers \subseteq S => c \in S}
AroundIn(pl, x) == {pl[x]} \cup {pl[c] : c \in HoldersIn(pl, x)}

(* Players, items and the other places are different things, and no item is *)
(* in itself: all of them lie somewhere in the end.                         *)
ASSUME TradeAssumption ==
    /\ Containers \subseteq Items
    /\ None \notin Players \cup Items
    /\ Items \cap (Players \cup {Ground, Gone}) = {}
    /\ Ground \notin Players \cup {Gone} /\ Gone \notin Players
    /\ Squares \subseteq Int /\ GroundSquare \in Squares
    /\ Capacity \in [Players -> Nat]
    /\ Stackables \subseteq Items
    /\ IsFiniteSet(Items)
    /\ Weight \in [Items -> Nat]
    /\ Start \in [Items -> Players \cup {Ground} \cup Containers]
    /\ \A x \in Items : ~(AroundIn(Start, x) \subseteq Containers)
    /\ StartSquare \in [Players -> Squares]

VARIABLES
    place,          \* where each item is (its parent)
    square,         \* where each player stands
    tradeState,     \* Player::tradeState, between two calls
    tradePartner,   \* Player::tradePartner
    tradeItem,      \* Player::tradeItem
    tradeItems,     \* Game::tradeItems, of each item its player or None
    held,           \* the references trades have to each item
    shown           \* history: what each player's offer was when it was made

tradeVars == <<tradeState, tradePartner, tradeItem, tradeItems, held, shown>>
vars == <<place, square, tradeVars>>

Init ==
    /\ place = Start
    /\ square = StartSquare
    /\ tradeState = [p \in Players |-> "none"]
    /\ tradePartner = [p \in Players |-> None]
    /\ tradeItem = [p \in Players |-> None]
    /\ tradeItems = [x \in Items |-> None]
    /\ held = [x \in Items |-> 0]
    /\ shown = [p \in Players |-> {}]

-----------------------------------------------------------------------------
(* The things around an item, the one that holds it in the end, and what it *)
(* holds itself.                                                            *)
Around(x) == AroundIn(place, x)
RootIn(pl, x) == CHOOSE r \in AroundIn(pl, x) : r \notin Containers
Root(x) == RootIn(place, x)
Contents(x) == {y \in Items : x \in Around(y)}
Whole(x) == {x} \cup Contents(x)

(* An offer: the item, where it lies, and where everything in it does.      *)
Offer(x) == {<<y, place[y]>> : y \in Whole(x)}

Distance(a, b) == IF a > b THEN a - b ELSE b - a
SquareOf(x) == IF Root(x) \in Players THEN square[Root(x)] ELSE GroundSquare

WeightOf(S) == MapThenSumSet(LAMBDA x : Weight[x], S)
LoadIn(pl, p) == WeightOf({y \in Items : RootIn(pl, y) = p})
Fits(p, x) == Root(x) = p \/ LoadIn(place, p) + WeightOf(Whole(x)) <= Capacity[p]

-----------------------------------------------------------------------------
(* A bug: the partner's offer stays in tradeItems.                          *)
BadCloseAll(ps) ==
    LET both == (ps \cup {tradePartner[p] : p \in ps}) \cap Players
        offered == {tradeItem[q] : q \in both} \cap Items
    IN  /\ tradeState' = [q \in Players |-> IF q \in both THEN "none" ELSE tradeState[q]]
        /\ tradePartner' = [q \in Players |-> IF q \in both THEN None ELSE tradePartner[q]]
        /\ tradeItem' = [q \in Players |-> IF q \in both THEN None ELSE tradeItem[q]]
        /\ tradeItems' = [x \in Items |-> IF tradeItems[x] \in ps THEN None ELSE tradeItems[x]]
        /\ held' = [x \in Items |->
                       IF x \in offered /\ tradeItems[x] # None THEN held[x] - 1 ELSE held[x]]
        /\ shown' = [q \in Players |-> IF q \in both THEN {} ELSE shown[q]]

(* Game::internalCloseTrade, of all the players in a set: for each, both    *)
(* sides are reset and the offers given back.                               *)
CloseAll(ps) ==
    LET both == (ps \cup {tradePartner[p] : p \in ps}) \cap Players
        offered == {tradeItem[q] : q \in both} \cap Items
    IN  /\ tradeState' = [q \in Players |-> IF q \in both THEN "none" ELSE tradeState[q]]
        /\ tradePartner' = [q \in Players |-> IF q \in both THEN None ELSE tradePartner[q]]
        /\ tradeItem' = [q \in Players |-> IF q \in both THEN None ELSE tradeItem[q]]
        /\ tradeItems' = [x \in Items |-> IF x \in offered THEN None ELSE tradeItems[x]]
        /\ held' = [x \in Items |->
                       IF x \in offered /\ tradeItems[x] # None THEN held[x] - 1 ELSE held[x]]
        /\ shown' = [q \in Players |-> IF q \in both THEN {} ELSE shown[q]]

Close(p) == CloseAll({p})

(* Game::playerRequestTrade: the item is in reach, on the ground or the     *)
(* player's own, and neither offered already, nor in an offer, nor around   *)
(* one.                                                                     *)
OnTheTable(x) ==
    \E y \in Items : tradeItems[y] # None /\ (x = y \/ x \in Contents(y) \/ y \in Contents(x))

MayOffer(p, q, x) ==
    /\ place[x] # Gone
    /\ q # p
    /\ Distance(square[p], square[q]) <= 2
    /\ Root(x) \in {p, Ground}
    /\ Distance(square[p], SquareOf(x)) <= 1
    /\ ~OnTheTable(x)

(* A bug: that the other one trades with somebody else is not looked at.    *)
BadFree(p, q) == tradeState[p] = "none" \/ (tradeState[p] = "acknowledge" /\ tradePartner[p] = q)

(* Both are free, or one answers the other's request.                       *)
Free(p, q) ==
    /\ tradeState[p] = "none" \/ (tradeState[p] = "acknowledge" /\ tradePartner[p] = q)
    /\ tradeState[q] = "none" \/ tradePartner[q] = p

(* Game::internalStartTrade.                                                *)
Request(p, q, x) ==
    /\ MayOffer(p, q, x)
    /\ Free(p, q)
    /\ tradeItem' = [tradeItem EXCEPT ![p] = x]
    /\ held' = [held EXCEPT ![x] = @ + 1]
    /\ tradeItems' = [tradeItems EXCEPT ![x] = p]
    /\ shown' = [shown EXCEPT ![p] = Offer(x)]
    /\ IF tradeState[q] = "none"
       THEN /\ tradeState' = [tradeState EXCEPT ![p] = "initiated", ![q] = "acknowledge"]
            /\ tradePartner' = [tradePartner EXCEPT ![p] = q, ![q] = p]
       ELSE /\ tradeState' = [tradeState EXCEPT ![p] = "initiated"]
            /\ tradePartner' = [tradePartner EXCEPT ![p] = q]
    /\ UNCHANGED <<place, square>>

(* Game::playerAcceptTrade, of the first to accept.                         *)
AcceptFirst(p) ==
    /\ tradeState[p] \in {"acknowledge", "initiated"}
    /\ tradeState[tradePartner[p]] # "accept"
    /\ tradeState' = [tradeState EXCEPT ![p] = "accept"]
    /\ UNCHANGED <<place, square, tradePartner, tradeItem, tradeItems, held, shown>>

(* Where an item may go that is given to a player: the inventory, or a      *)
(* container there that is not in an offer itself.                          *)
Destinations(q, offers) ==
    {q} \cup {c \in Containers : Root(c) = q /\ \A y \in offers : c \notin Whole(y)}

(* A bug: only the room of the one who accepted first is tested.            *)
BadBothFit(p, q) ==
    /\ tradeItem[p] # None /\ tradeItem[q] # None
    /\ Fits(q, tradeItem[p])

(* Both items are there and each fits, an item that stacks perhaps on       *)
(* another one (internalAddItem without FLAG_IGNOREAUTOSTACK).  A player    *)
(* that has offered nothing has no item to give, which is refused.          *)
BothFit(p, q) ==
    /\ tradeItem[p] # None /\ tradeItem[q] # None
    /\ Fits(q, tradeItem[p])
    /\ Fits(p, tradeItem[q])

(* Player p has passed the test of room for q's offer, but may have no free *)
(* place for it: the room was on another stack, or in the bag p gives away, *)
(* out of a bag that may hold more than its capacity, as                    *)
(* Player::queryDestination does not count what is offered.                 *)
RoomInDoubt(p, q) ==
    LET x == tradeItem[p]
    IN  \/ /\ tradeItem[q] \in Stackables
           /\ \E z \in Stackables : Root(z) = p /\ z \notin Whole(x)
        \/ {x, place[x]} \subseteq Containers /\ Root(x) = p

(* The two moves, each to a free place (FLAG_IGNOREAUTOSTACK).  The result  *)
(* of the second is not looked at: an item that does not fit stays where it *)
(* is.                                                                      *)
Transfer(p, q) ==
    LET x == tradeItem[p]
        y == tradeItem[q]
    IN  \E to \in Destinations(q, {x, y}), back \in Destinations(p, {x, y}) :
            LET moved == [place EXCEPT ![x] = to]
                light == LoadIn(moved, p) + WeightOf(Whole(y)) <= Capacity[p]
            IN  \/ light /\ place' = [moved EXCEPT ![y] = back]
                \/ (light => RoomInDoubt(p, q)) /\ place' = moved

(* The second to accept: the throw is blocked, a script says no or an item  *)
(* finds no slot, and the trade ends; or the items change hands.  Either    *)
(* way both are free again and the offers given back.                       *)
AcceptSecond(p) ==
    /\ tradeState[p] \in {"acknowledge", "initiated"}
    /\ tradeState[tradePartner[p]] = "accept"
    /\ \/ UNCHANGED place
       \/ BothFit(p, tradePartner[p]) /\ Transfer(p, tradePartner[p])
    /\ Close(p)
    /\ UNCHANGED square

(* Game::playerCloseTrade, and the end of a player's session.               *)
CloseTrade(p) ==
    /\ Close(p)
    /\ UNCHANGED <<place, square>>

-----------------------------------------------------------------------------
(* Player::checkTradeState, for an item that comes to a place, leaves it or *)
(* changes: it is the offer, or in it.                                      *)
Touches(p, x) == tradeItem[p] # None /\ (x = tradeItem[p] \/ tradeItem[p] \in Around(x))

(* A bug: what is put into an offered container is not looked at.           *)
BadDisturbed(p, x, to) ==
    \/ Touches(p, x)
    \/ tradeItem[p] # None /\ tradeItem[p] \in Contents(x)

(* An item leaves its place: it is the offer, in it or around it, or leaves *)
(* a container that holds the offer deeper down.  It comes to a container   *)
(* (Player::onAddContainerItem): that is the offer or in it.                *)
Disturbed(p, x, to) ==
    \/ Touches(p, x)
    \/ tradeItem[p] # None /\ tradeItem[p] \in Contents(x)
    \/ /\ tradeItem[p] # None
       /\ place[x] \in Around(tradeItem[p]) \cap (Containers \ {place[tradeItem[p]]})
    \/ to \in Items /\ Touches(p, to)

(* A player takes an item of the ground or moves one of his own; nobody     *)
(* reaches into what another one carries.                                   *)
MoveItem(p, x, to) ==
    /\ place[x] # Gone
    /\ to # place[x]
    /\ to \notin Whole(x)
    /\ Root(x) \in {p, Ground}
    /\ to \in Items => Root(to) \in {p, Ground}
    /\ to = p \/ (to \in Items /\ Root(to) = p) => Fits(p, x)
    /\ place' = [place EXCEPT ![x] = to]
    /\ CloseAll({q \in Players : Disturbed(q, x, to)})
    /\ UNCHANGED square

(* An item is used up or decays, or its count changes.                      *)
RemoveItem(x) ==
    /\ place[x] # Gone
    /\ Contents(x) = {}
    /\ place' = [place EXCEPT ![x] = Gone]
    /\ CloseAll({q \in Players : Disturbed(q, x, Gone)})
    /\ UNCHANGED square

(* Player::onCreatureMove, of the player himself, who now stands at s.      *)
OutOfReach(p, s) ==
    \/ tradeItem[p] # None /\ Root(tradeItem[p]) # p /\ Distance(s, GroundSquare) > 1
    \/ tradePartner[p] # None /\ Distance(s, square[tradePartner[p]]) > 2

(* A step, a push or a teleport.                                            *)
Move(p, s) ==
    /\ s # square[p]
    /\ square' = [square EXCEPT ![p] = s]
    /\ CloseAll({q \in {p} : OutOfReach(q, s)})
    /\ UNCHANGED place

-----------------------------------------------------------------------------
Next ==
    \/ \E p, q \in Players, x \in Items : Request(p, q, x)
    \/ \E p \in Players : AcceptFirst(p) \/ AcceptSecond(p) \/ CloseTrade(p)
    \/ \E p \in Players, x \in Items : \E to \in {p, Ground} \cup Containers : MoveItem(p, x, to)
    \/ \E x \in Items : RemoveItem(x)
    \/ \E p \in Players, s \in Squares : Move(p, s)

Spec == Init /\ [][Next]_vars

-----------------------------------------------------------------------------
TypeOK ==
    /\ place \in [Items -> Players \cup {Ground, Gone} \cup Containers]
    /\ square \in [Players -> Squares]
    /\ tradeState \in [Players -> {"none", "initiated", "accept", "acknowledge"}]
    /\ tradePartner \in [Players -> Players \cup {None}]
    /\ tradeItem \in [Players -> Items \cup {None}]
    /\ tradeItems \in [Items -> Players \cup {None}]
    /\ held \in [Items -> Nat]

(* Two players trade with each other or not at all, and at least one of     *)
(* them has made an offer; somebody who is only asked has made none.        *)
PartnersAgree ==
    \A p \in Players :
        /\ tradeState[p] = "none" <=> tradePartner[p] = None
        /\ tradePartner[p] # None =>
              /\ tradePartner[tradePartner[p]] = p
              /\ tradeItem[p] # None \/ tradeItem[tradePartner[p]] # None
        /\ tradeState[p] = "initiated" => tradeItem[p] # None
        /\ tradeState[p] \in {"none", "acknowledge"} => tradeItem[p] = None

(* The offers on the table are the players' offers, each held by one        *)
(* reference: none is dropped or freed under a trade, and none stays        *)
(* blocked after it.                                                        *)
TableExact ==
    \A x \in Items :
        /\ \A p \in Players : tradeItems[x] = p <=> tradeItem[p] = x
        /\ held[x] = IF tradeItems[x] = None THEN 0 ELSE 1

(* Nothing is offered twice, by itself or in a container, whatever is moved *)
(* after the offers were made.                                              *)
NothingTwice ==
    \A p, q \in Players :
        p # q /\ tradeItem[p] # None /\ tradeItem[q] # None
            => Whole(tradeItem[p]) \cap Whole(tradeItem[q]) = {}

(* Until the trade is over an offer is what was shown: nothing is taken out *)
(* of it or put into it, and it stays where it was.                         *)
OfferUnchanged == \A p \in Players : tradeItem[p] # None => Offer(tradeItem[p]) = shown[p]

(* Those who trade are near each other, and near what they offer.           *)
InReach ==
    \A p \in Players :
        /\ tradePartner[p] # None => Distance(square[p], square[tradePartner[p]]) <= 2
        /\ tradeItem[p] # None => Distance(square[p], SquareOf(tradeItem[p])) <= 1

(* Offers stand until the trade is over, whatever the two sides and others  *)
(* do meanwhile: nothing is on the table twice, what is there is what was   *)
(* shown, and it is in reach (Player::checkTradeState, onCreatureMove,      *)
(* onRemoveTileItem, playerRequestTrade).                                   *)
OffersStand == NothingTwice /\ OfferUnchanged /\ InReach

(* What one player carries gets to another one only in a trade, for what    *)
(* that one had offered, which the first gets in the same step.  The second *)
(* move of Game::playerAcceptTrade is not looked at, and the test before it *)
(* finds room that the move does not: those trades, and no others, can take *)
(* an item for nothing.                                                     *)
PaidFor ==
    [][\A p, q \in Players, x \in Items :
          (p # q /\ Root(x) = p /\ RootIn(place', x) = q) =>
              /\ tradePartner[p] = q /\ tradeItem[q] # None
              /\ RootIn(place', tradeItem[q]) = p \/ RoomInDoubt(p, q)]_vars
=============================================================================
