--------------------------- MODULE WaitingListMC ---------------------------
(* Model-checking instance of WaitingList: players like one another.        *)
EXTENDS WaitingList

CONSTANTS p1, p2, p3

PlainPlayers == {p1, p2, p3}
Nobody == {}
=============================================================================
