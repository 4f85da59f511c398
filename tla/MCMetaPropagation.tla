-------------------------- MODULE MCMetaPropagation --------------------------
(* MetaPropagation on two roots of which one has a sub-namespace.  Two     *)
(* acts make the other one the template of the first, or hang it below the *)
(* sub-namespace, and leave a third to change what is handed down.         *)
EXTENDS MetaPropagation

CONSTANTS r, q, s

ThreeNames == {r, q, s}

Labelled(type, parent, value, owner) ==
  [type |-> type, parent |-> parent, template |-> Absent,
   labels |-> Put(Nothing, "team", [value |-> value, owners |-> {owner}])]

TwoRoots ==
  {[n \in ThreeNames |->
      CASE n = q -> Labelled(NSTypeRoot, Absent, "b", "users")
        [] n = r -> Labelled(NSTypeRoot, Absent, "a", "users")
        [] n = s -> Labelled(Absent, r, "a", "accurate")]}

NoPolicies == {}
OneKey == {{"team"}}
TwoValues == {"a", "b"}
=============================================================================
