----------------------------- MODULE PartialMaps -----------------------------
(* What the API server stores of one kind, and what a cache shows of it:   *)
(* a function from the keys of the objects that are there to the objects.  *)

PartialMap(S, T) == UNION {[D -> T] : D \in SUBSET S}

(* The same, without the set of all of them.                               *)
IsPartialMap(f, S, T) == DOMAIN f \subseteq S /\ f \in [DOMAIN f -> T]

Put(f, x, v) == [y \in DOMAIN f \cup {x} |-> IF y = x THEN v ELSE f[y]]
Drop(f, x) == [y \in DOMAIN f \ {x} |-> f[y]]
=============================================================================
