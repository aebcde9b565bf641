------------------------------ MODULE AppNames ------------------------------
(***************************************************************************)
(* What the registry promises to REST clients and to the RR manager: an id *)
(* names one application, from the moment the application enters until it  *)
(* leaves, is reloaded, or the server stops. An application is known here  *)
(* by the heap it runs in.                                                 *)
(***************************************************************************)
CONSTANTS Heaps, Ids

VARIABLE names      \* the id of each application there is

InUse == {names[k] : k \in DOMAIN names}

Init == names = [k \in {} |-> 0]

Named(f, k, id) == [x \in DOMAIN f \cup {k} |-> IF x = k THEN id ELSE f[x]]
Rest(k) == [x \in DOMAIN names \ {k} |-> names[x]]

\* A new application gets an id that no other has.
Enter(k, id) ==
    /\ k \notin DOMAIN names /\ id \notin InUse
    /\ names' = Named(names, k, id)

Leave(k) == k \in DOMAIN names /\ names' = Rest(k)

\* Application k is reloaded in heap j: it keeps its id, or gets a fresh one.
Reload(k, j, id) ==
    /\ k \in DOMAIN names /\ j \notin DOMAIN names \ {k}
    /\ id = names[k] \/ id \notin InUse
    /\ names' = Named(Rest(k), j, id)

\* All applications are deleted, or the server stops.
Clear == names' = [k \in {} |-> 0]

Next == \/ Clear
        \/ \E k \in Heaps : Leave(k)
        \/ \E k \in Heaps, id \in Ids : Enter(k, id)
        \/ \E k, j \in Heaps, id \in Ids : Reload(k, j, id)

Spec == Init /\ [][Next]_names
=============================================================================
