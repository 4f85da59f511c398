----------------------------- MODULE MCPropagation -----------------------------
(* Propagation in a few small trees.                                       *)
EXTENDS Propagation

CONSTANTS a, b, c, f

ThreeNames == {a, b, c}
OneField == {f}

Live(type, parent, template) ==
  [type |-> type, parent |-> parent, template |-> template, terminating |-> FALSE]
Root == Live(NSTypeRoot, Absent, Absent)
Sub(p) == Live(Absent, p, Absent)

Tree(x, y, z) == [n \in ThreeNames |-> CASE n = a -> x [] n = b -> y [] n = c -> z]

(* A chain, two siblings, two roots, and a root that is an instance.       *)
Chain == Tree(Root, Sub(a), Sub(b))
Siblings == Tree(Root, Sub(a), Sub(a))
TwoRoots == Tree(Root, Root, Sub(a))
Instance == Tree(Live(NSTypeTemplate, Absent, Absent), Live(NSTypeRoot, Absent, a), Sub(b))

AllTrees == {Chain, TwoRoots, Instance}
OnlySiblings == {Siblings}
SubTrees == {Chain, TwoRoots}
=============================================================================
