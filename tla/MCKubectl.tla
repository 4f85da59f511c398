------------------------------ MODULE MCKubectl ------------------------------
(* Kubectl with two roots and one sub-namespace.                           *)
EXTENDS Kubectl

CONSTANTS r1, r2, s1

OneSub == {r1, r2, s1}
TwoRoots == {r1, r2}
NoPolicies == {}
=============================================================================
