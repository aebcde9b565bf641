---------------------------- MODULE MCAppRegistry ---------------------------
(* Instances of AppRegistry for model checking. *)
EXTENDS AppRegistry, TLC

CONSTANTS a, b, h1, h2

TwoNames == {a, b}
TwoHeaps == {h1, h2}
Symmetric == Permutations(TwoHeaps) \cup Permutations(TwoNames)

\* packages without an id, of every form
AnyForm == [name : TwoNames, id : {NoId}, form : Forms]
=============================================================================
