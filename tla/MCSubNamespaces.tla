--------------------------- MODULE MCSubNamespaces ---------------------------
(* SubNamespaces with one or two roots and one or two sub-namespaces.      *)
EXTENDS SubNamespaces

CONSTANTS r1, r2, s1, s2

OneSub == {r1, r2, s1}
TwoSubs == {r1, s1, s2}

OneRoot == {r1}
TwoRoots == {r1, r2}

NoPolicies == {}
=============================================================================
