-------------------------- MODULE DatabaseTasksMC --------------------------
(* Model-checking instance of the two ways to the database.  DatabaseTasks: *)
(* three queries, one of them without a callback, queued by the dispatcher  *)
(* and by the network thread.  Database: the connection of the other        *)
(* threads, with the saves of a player in transactions and two statements   *)
(* beside them.  They share no state, as the database thread has its own    *)
(* connection; each is explored beside the initial state of the other.      *)
EXTENDS DatabaseTasks, Database

CONSTANTS q1, q2, q3, n1, n2, dispatcher, network

MCQueries == {q1, q2, q3}
MCWithCallback == {q1, q2}
MCCallers == {dispatcher, network}
MCNotes == {n1, n2}

MCInit == Init /\ DatabaseInit

MCNext ==
    \/ DatabaseInit /\ Next /\ UNCHANGED databaseVars
    \/ Init /\ DatabaseNext /\ UNCHANGED vars

MCSpec == MCInit /\ [][MCNext]_<<vars, databaseVars>> /\ Fairness
=============================================================================
