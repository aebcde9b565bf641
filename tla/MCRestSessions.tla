--------------------------- MODULE MCRestSessions ---------------------------
(* RestSessions with connections that TLC need not tell apart.              *)
EXTENDS RestSessions, TLC, FiniteSets

Symmetry == Permutations(Conns)

\* A failure of the disk takes the place of a request. A server that is down
\* does nothing.
Bound == up /\ count + Cardinality(failed) <= MaxRequests

\* What a session holds for the body of a request is not looked at any more once
\* the answer is made.
Used(c) == IF phase[c] \in {"body", "copy"}
           THEN <<asked[c], err[c], name[c], fd[c], pos[c], app[c]>>
           ELSE <<asked[c].n, asked[c].kind, asked[c].handler>>
View == <<up, count, phase, got, buffer, [c \in Conns |-> Used(c)], disk, apps,
          calls, copy>>

=============================================================================
