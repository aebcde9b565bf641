--------------------------- MODULE AtomicRequests ---------------------------
(***************************************************************************)
(* What the device's functions promise about their requests to the RR      *)
(* manager: they come one after the other, each has its effect at most     *)
(* once and before its function returns, and nothing else that the device  *)
(* does changes what the manager knows.                                    *)
(***************************************************************************)
CONSTANTS Threads, NoOne

VARIABLES
    running,    \* whether there is a server process
    owner,      \* the thread whose request this is
    stage,      \* "none", "asked": the manager may act on the request, "closed"
    devices, listed     \* what the manager knows

vars == <<running, owner, stage, devices, listed>>

Init ==
    /\ ~running /\ owner = NoOne /\ stage = "none"
    /\ devices = {} /\ listed = {}

Start ==
    /\ ~running /\ running' = TRUE
    /\ UNCHANGED <<owner, stage, devices, listed>>

\* A request is made, or there is no manager to make it to.
Ask(t) ==
    /\ running /\ owner = NoOne
    /\ owner' = t /\ stage' \in {"asked", "closed"}
    /\ UNCHANGED <<running, devices, listed>>

\* The manager acts on the request, or it is lost. What the manager makes of it
\* is the manager's business.
Close ==
    /\ stage = "asked" /\ stage' = "closed"
    /\ UNCHANGED <<running, owner>>

Return ==
    /\ stage = "closed"
    /\ owner' = NoOne /\ stage' = "none"
    /\ UNCHANGED <<running, devices, listed>>

\* The process ends, in the middle of a request or not.
End ==
    /\ running' = FALSE /\ owner' = NoOne /\ stage' = "none"
    /\ UNCHANGED <<devices, listed>>

\* The manager is emptied.
Forget ==
    /\ ~running /\ devices' = {} /\ listed' = {}
    /\ UNCHANGED <<running, owner, stage>>

Next == \/ Start \/ Close \/ Return \/ End \/ Forget
        \/ \E t \in Threads : Ask(t)

Spec == Init /\ [][Next]_vars
=============================================================================
