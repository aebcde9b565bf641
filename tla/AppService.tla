----------------------------- MODULE AppService -----------------------------
(***************************************************************************)
(* What one application promises to a REST client and to the RR manager,   *)
(* while no signal comes and nothing crashes: its state is a register that *)
(* a PUT writes and nothing else, the manager is told nothing but the      *)
(* state it has, and a DELETE takes it away in a fixed order.              *)
(***************************************************************************)
CONSTANT Lossy      \* whether what the manager is told may get lost

VARIABLES
    stage,    \* "starting", "serving", "leaving", "withdrawn", "gone"
    status,   \* the state of the application
    told,     \* the state the manager lists for it, or "absent"
    alive,    \* whether the event loop runs
    asked     \* the state that a PUT being answered asks for, or "nothing"
vars == <<stage, status, told, alive, asked>>

States == {"initializing", "crashed", "running", "paused"}

Init ==
    /\ stage = "starting" /\ status = "initializing" /\ told = "absent"
    /\ ~alive /\ asked = "nothing"

-----------------------------------------------------------------------------
(* Starting                                                                *)

Create == /\ stage = "starting" /\ ~alive
          /\ alive' = TRUE
          /\ UNCHANGED <<stage, status, told, asked>>

\* Whoever sets the state, and in whatever order.
Begin == /\ stage = "starting" /\ alive
         /\ status' \in {"running", "paused"}
         /\ UNCHANGED <<stage, told, alive, asked>>

\* Until the application serves, the manager may be told a state it had before.
Register == /\ stage = "starting" /\ alive
            /\ told' \in States \ {"crashed"}
            /\ UNCHANGED <<stage, status, alive, asked>>

\* An application is running when it starts to serve, unless its main module
\* failed.
Ready == /\ stage = "starting"
         /\ alive => status = "running"
         /\ stage' = "serving"
         /\ UNCHANGED <<status, told, alive, asked>>

-----------------------------------------------------------------------------
(* Serving                                                                 *)

Ask(s) == /\ stage = "serving" /\ asked = "nothing"
          /\ asked' = s
          /\ UNCHANGED <<stage, status, told, alive>>

Set == /\ stage = "serving" /\ asked # "nothing"
       /\ status' = asked
       /\ UNCHANGED <<stage, told, alive, asked>>

Report == /\ stage \in {"serving", "leaving"} /\ told # "absent"
          /\ told' = status
          /\ UNCHANGED <<stage, status, alive, asked>>

Answer == /\ asked # "nothing" /\ status = asked
          /\ told \in {"absent", status} \/ Lossy
          /\ asked' = "nothing"
          /\ UNCHANGED <<stage, status, told, alive>>

\* The event loop comes to its end by itself, or because it is asked to.
Finish == /\ stage # "starting" /\ alive
          /\ alive' = FALSE
          /\ UNCHANGED <<stage, status, told, asked>>

-----------------------------------------------------------------------------
(* Leaving                                                                 *)

Leave == /\ stage = "serving" /\ asked = "nothing"
         /\ stage' = "leaving"
         /\ UNCHANGED <<status, told, alive, asked>>

Pause == /\ stage = "leaving"
         /\ status' = "paused"
         /\ UNCHANGED <<stage, told, alive, asked>>

\* A DELETE has paused the application by then; a reload does not.
Withdraw == /\ \/ stage = "leaving" /\ status = "paused"
               \/ stage = "serving" /\ asked = "nothing"
            /\ stage' = "withdrawn"
            /\ told' = "absent" \/ (Lossy /\ UNCHANGED told)
            /\ UNCHANGED <<status, alive, asked>>

Vanish == /\ stage = "withdrawn" /\ ~alive
          /\ stage' = "gone"
          /\ UNCHANGED <<status, told, alive, asked>>

Next == \/ Create \/ Begin \/ Register \/ Ready
        \/ (\E s \in States : Ask(s)) \/ Set \/ Report \/ Answer \/ Finish
        \/ Leave \/ Pause \/ Withdraw \/ Vanish

Spec == Init /\ [][Next]_vars
=============================================================================
