----------------------------- MODULE TaskQueue -----------------------------
(***************************************************************************)
(* What g_dispatcher promises to the code that posts tasks to it: a task   *)
(* accepted is served after the tasks accepted before it, once, by one     *)
(* thread; nothing is dropped from the middle.  Serving a task is running  *)
(* it or, when it has expired, deleting it.                                *)
(***************************************************************************)
EXTENDS Sequences

CONSTANT Tasks

VARIABLES
    queue,      \* accepted, not yet served
    served      \* served, in order

Init == queue = <<>> /\ served = <<>>

Accept(t) ==
    /\ queue' = Append(queue, t)
    /\ UNCHANGED served

Serve ==
    /\ queue # <<>>
    /\ served' = Append(served, Head(queue))
    /\ queue' = Tail(queue)

Next == Serve \/ \E t \in Tasks : Accept(t)

Spec == Init /\ [][Next]_<<queue, served>>
=============================================================================
