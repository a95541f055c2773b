------------------------------ MODULE TradeMC ------------------------------
(* Model-checking instance of what players in the game do with others:      *)
(* safe trades (three players on three squares, a bag and two stacks, of    *)
(* which one lies in the bag), or the shops of NPCs.  They share no state,  *)
(* so each is explored beside the initial state of the other.               *)
EXTENDS Trade, Shops, TLC

CONSTANTS ann, bob, cid, bag, coin, gem, sam, tom, npc1, npc2

MCPlayers == {ann, bob, cid}
MCItems == {bag, coin, gem}
MCWeight == (bag :> 1) @@ (coin :> 1) @@ (gem :> 2)
MCCapacity == (ann :> 4) @@ (bob :> 4) @@ (cid :> 2)
MCStackables == {coin, gem}
MCContainers == {bag}
MCSquares == {0, 1, 3}
MCStart == (bag :> ann) @@ (coin :> bag) @@ (gem :> bob)
MCStartSquare == (ann :> 0) @@ (bob :> 1) @@ (cid :> 3)

MCCustomers == {sam, tom}
MCMerchants == {npc1, npc2}

MCInit == Init /\ ShopInit

MCNext ==
    \/ ShopInit /\ Next /\ UNCHANGED shopVars
    \/ Init /\ ShopNext /\ UNCHANGED vars

MCSpec == MCInit /\ [][MCNext]_<<vars, shopVars>>
=============================================================================
