---------------------------- MODULE ServicePort ----------------------------
(***************************************************************************)
(* One port the server listens on (server.cpp).  An accept is always       *)
(* outstanding while the port is open; the handler of one starts the next. *)
(* When the operating system refuses (no descriptors left, the address     *)
(* taken) the port is closed and opened again by an event 15 seconds       *)
(* later.  ServiceManager::stop, at the end of Game::shutdown, has it      *)
(* closed for good.  The handlers run in the network thread, the event in  *)
(* the dispatcher.                                                         *)
(***************************************************************************)
EXTENDS Integers, SequencesExt

VARIABLES
    port,       \* the ServicePort object
    accepting,  \* the accepts that are pending on the acceptor
    completed,  \* the accepts that have ended and wait for their handler
    reopening,  \* the openAcceptor events of the scheduler
    stopping    \* "no", "posted" once onStopServer is, "done" once it ran

portVars == <<port, accepting, completed, reopening, stopping>>

(* ServiceManager::add has not opened the port yet.                         *)
PortInit ==
    /\ port = [acceptor |-> "none", pendingStart |-> FALSE]
    /\ accepting = 0
    /\ completed = <<>>
    /\ reopening = 0
    /\ stopping = "no"

(* addEvent, which the scheduler ignores once it was shut down: before the  *)
(* service manager is stopped.                                              *)
Scheduled(events) == IF stopping = "no" THEN events + 1 ELSE events

(* open: the old acceptor is closed, and either the new one takes its place *)
(* or the next attempt is scheduled, with the new acceptor open when it was *)
(* a later call that failed.                                                *)
Open(events) ==
    \/ /\ port' = [acceptor |-> "open", pendingStart |-> FALSE]
       /\ accepting' = 1
       /\ reopening' = events
    \/ /\ \E acceptor \in {"open", "closed"} :
             port' = [acceptor |-> acceptor, pendingStart |-> TRUE]
       /\ accepting' = 0
       /\ reopening' = Scheduled(events)

(* ServiceManager::add.                                                     *)
Add ==
    /\ port.acceptor = "none"
    /\ Open(0)
    /\ UNCHANGED <<completed, stopping>>

(* openAcceptor, the event.                                                 *)
OpenAcceptor ==
    /\ reopening > 0
    /\ Open(reopening - 1)
    /\ completed' = completed \o [i \in 1..accepting |-> "aborted"]
    /\ UNCHANGED stopping

-----------------------------------------------------------------------------
(* The operating system: a client connects, the accept is refused, or the   *)
(* acceptor was closed under it.                                            *)
AcceptEnds ==
    /\ accepting > 0
    /\ accepting' = accepting - 1
    /\ \E result \in (IF port.acceptor = "open" THEN {"connected", "refused"}
                                               ELSE {"aborted"}) :
          completed' = Append(completed, result)
    /\ UNCHANGED <<port, reopening, stopping>>

(* A bug: a port that was refused is closed, and no event opens it again.   *)
BadOnAcceptRefused ==
    /\ completed # <<>>
    /\ \/ /\ Head(completed) = "connected"
          /\ accepting' = accepting + 1
          /\ UNCHANGED <<port, reopening>>
       \/ /\ Head(completed) = "refused"
          /\ port' = [acceptor |-> "closed", pendingStart |-> TRUE]
          /\ UNCHANGED <<accepting, reopening>>
       \/ /\ Head(completed) = "aborted"
          /\ UNCHANGED <<port, accepting, reopening>>
    /\ completed' = Tail(completed)
    /\ UNCHANGED stopping

(* onAccept: the next accept, on an acceptor that may have been closed; or, *)
(* for any error but the abort, the port is closed and opened again later,  *)
(* unless that is on its way.                                               *)
OnAccept ==
    /\ completed # <<>>
    /\ \/ /\ Head(completed) = "connected"
          /\ \/ /\ port.acceptor = "open"
                /\ accepting' = accepting + 1
                /\ completed' = Tail(completed)
             \/ /\ port.acceptor = "closed"
                /\ completed' = Append(Tail(completed), "refused")
                /\ UNCHANGED accepting
          /\ UNCHANGED <<port, reopening>>
       \/ /\ Head(completed) = "refused"
          /\ \/ /\ ~port.pendingStart
                /\ port' = [acceptor |-> "closed", pendingStart |-> TRUE]
                /\ reopening' = Scheduled(reopening)
             \/ port.pendingStart /\ UNCHANGED <<port, reopening>>
          /\ completed' = Tail(completed)
          /\ UNCHANGED accepting
       \/ /\ Head(completed) = "aborted"
          /\ completed' = Tail(completed)
          /\ UNCHANGED <<port, accepting, reopening>>
    /\ UNCHANGED stopping

(* ServiceManager::stop; the scheduler's events went before it.             *)
Stop ==
    /\ stopping = "no"
    /\ port.acceptor # "none"
    /\ stopping' = "posted"
    /\ reopening' = 0
    /\ UNCHANGED <<port, accepting, completed>>

OnStopServer ==
    /\ stopping = "posted"
    /\ stopping' = "done"
    /\ port' = [port EXCEPT !.acceptor = "closed"]
    /\ UNCHANGED <<accepting, completed, reopening>>

-----------------------------------------------------------------------------
PortNext ==
    \/ Add
    \/ OpenAcceptor
    \/ AcceptEnds
    \/ OnAccept
    \/ Stop
    \/ OnStopServer

PortSpec == PortInit /\ [][PortNext]_portVars

-----------------------------------------------------------------------------
Results == {"connected", "refused", "aborted"}

(* The types.                                                               *)
PortTypeOK ==
    /\ port \in [acceptor : {"none", "open", "closed"}, pendingStart : BOOLEAN]
    /\ accepting \in Nat
    /\ completed \in Seq(Results)
    /\ reopening \in Nat
    /\ stopping \in {"no", "posted", "done"}

(* While the server runs, exactly one of these is under way: an accept, the *)
(* handler of one, an event that opens the port again.  With none the port  *)
(* is dead though the server runs; with two, two chains of accepts use one  *)
(* acceptor.                                                                *)
OneWayIn ==
    port.acceptor # "none" /\ stopping = "no"
        => accepting + Len(completed) + reopening = 1

(* What makes it so: nothing is under way before the port is first opened,  *)
(* accepts are made and end only while the acceptor is open, and            *)
(* pendingStart says that the event is on its way.                          *)
WayInv ==
    stopping = "no" =>
        /\ port.acceptor = "none" =>
              accepting = 0 /\ completed = <<>> /\ reopening = 0
        /\ accepting > 0 => port.acceptor = "open"
        /\ completed # <<>> =>
              port.acceptor = "open" /\ Head(completed) # "aborted"
        /\ port.pendingStart => reopening > 0

(* The inductive invariant.                                                 *)
PortInv == PortTypeOK /\ OneWayIn /\ WayInv
=============================================================================
