---------------------------- MODULE TimerService ----------------------------
(***************************************************************************)
(* What g_scheduler promises to those who schedule events: an event is     *)
(* handed to the dispatcher or dropped, once; it is dropped only when its  *)
(* owner asked for it or the scheduler was shut down.  Asking is no        *)
(* guarantee: the event may be handed over all the same.                   *)
(***************************************************************************)
CONSTANT Events

VARIABLES
    pending,    \* scheduled, neither handed over nor dropped
    delivered,  \* handed to the dispatcher
    dropped,    \* deleted without being handed over
    asked,      \* stopEvent was called for it
    closed      \* Scheduler::shutdown was called

vars == <<pending, delivered, dropped, asked, closed>>

Init == pending = {} /\ delivered = {} /\ dropped = {} /\ asked = {} /\ ~closed

Schedule(e) ==
    /\ e \notin pending \cup delivered \cup dropped
    /\ pending' = pending \cup {e}
    /\ UNCHANGED <<delivered, dropped, asked, closed>>

AskStop(e) ==
    /\ asked' = asked \cup {e}
    /\ UNCHANGED <<pending, delivered, dropped, closed>>

Deliver(e) ==
    /\ e \in pending
    /\ pending' = pending \ {e}
    /\ delivered' = delivered \cup {e}
    /\ UNCHANGED <<dropped, asked, closed>>

Drop(e) ==
    /\ e \in pending
    /\ e \in asked \/ closed
    /\ pending' = pending \ {e}
    /\ dropped' = dropped \cup {e}
    /\ UNCHANGED <<delivered, asked, closed>>

Close ==
    /\ closed' = TRUE
    /\ UNCHANGED <<pending, delivered, dropped, asked>>

Next == Close \/ \E e \in Events : Schedule(e) \/ AskStop(e) \/ Deliver(e) \/ Drop(e)

Spec == Init /\ [][Next]_vars
=============================================================================
