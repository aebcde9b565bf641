------------------------- MODULE MCEventLoopTimers --------------------------
(* Instances of EventLoopTimers for model checking. *)
EXTENDS EventLoopTimers

MC(d, once) == [delay |-> d, oneshot |-> once]

\* what agent.js sets up: one interval, or one timeout when not on repeat
AgentTimers == {<<MC(d, once)>> : d \in {2, 3, 10}, once \in BOOLEAN}
TwoTimers   == {<<MC(2, FALSE), MC(3, FALSE)>>}
SomeTimers  == {<<MC(2, TRUE)>>, <<MC(3, FALSE)>>, <<MC(2, TRUE), MC(2, FALSE)>>}
Created     == {MC(2, FALSE), MC(3, TRUE)}
=============================================================================
