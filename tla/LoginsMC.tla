------------------------------ MODULE LoginsMC ------------------------------
(* Model-checking instance of the two halves of a login: GameSession with  *)
(* three connections, or the waiting lists with two players with premium   *)
(* and without, and a gamemaster, over two places.  They share no state,   *)
(* so each is explored beside the initial state of the other.              *)
(*                                                                         *)
(* The three connections are alike, so that it is enough to look at those  *)
(* behaviours in which they come into use in a fixed order: every other    *)
(* behaviour is one of these with the connections renamed.  No fair action *)
(* brings one into use.                                                    *)
EXTENDS GameSession, WaitingList

CONSTANTS c1, c2, c3, p1, p2, p3, gm

MCConnections == {c1, c2, c3}

InUse(c) == first[c] \/ closed[c]
InTurn == (InUse(c3) => InUse(c2)) /\ (InUse(c2) => InUse(c1))

MaxQueue == 3      \* bound on the tasks that wait

MixedPlayers == {p1, p2, p3, gm}
MixedPremium == {p1}
MixedPrivileged == {gm}

MCNext ==
    \/ Next /\ InTurn' /\ Len(queue') <= MaxQueue /\ WaitInit /\ UNCHANGED waitVars
    \/ WaitNext /\ Init /\ UNCHANGED vars

MCInit == Init /\ WaitInit

MCSpec == MCInit /\ [][MCNext]_<<vars, waitVars>> /\ Fairness
=============================================================================
