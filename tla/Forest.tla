------------------------------- MODULE Forest -------------------------------
(***************************************************************************)
(* What Accurate promises about namespaces, without labels, webhooks or    *)
(* caches: the namespaces of a cluster form a forest at every moment.      *)
(*                                                                         *)
(* A namespace that is a sub-namespace hangs below its parent, and one     *)
(* that is an instance hangs below its template.  Only three things ever   *)
(* happen: a namespace is planted below a living one or on its own, a      *)
(* namespace is moved, with all that hangs below it, to a place that does  *)
(* not hang below it, and a namespace without followers is felled.         *)
(***************************************************************************)

CONSTANTS Names,    \* the names namespaces may have
          NoParent  \* what a namespace hangs below when it stands alone: no name

VARIABLE up         \* up[n] is what the existing namespace n hangs below

-----------------------------------------------------------------------------

(* All that the members of S hang below is in S too.                       *)
ClosedUpward(S, f) == \A x \in S : f[x] \in S \cup {NoParent}

(* Every member of S hangs below a member of S: S holds a cycle.           *)
HoldsCycle(S, f) == S # {} /\ \A x \in S : f[x] \in S

(* The requirement proper: nothing dangles and nothing is its own ancestor.*)
IsForest(f) ==
  /\ ClosedUpward(DOMAIN f, f)
  /\ \A S \in SUBSET DOMAIN f : ~HoldsCycle(S, f)

(* The place p does not hang below n: p and its ancestors are all alive    *)
(* and none of them is n.                                                  *)
ClearOf(n, p) ==
  p # NoParent =>
    \E above \in SUBSET (DOMAIN up \ {n}) : p \in above /\ ClosedUpward(above, up)

-----------------------------------------------------------------------------

Init == up = [n \in {} |-> NoParent]

Plant(n, p) ==
  /\ n \notin DOMAIN up
  /\ p \in DOMAIN up \cup {NoParent}
  /\ up' = [x \in DOMAIN up \cup {n} |-> IF x = n THEN p ELSE up[x]]

Move(n, p) ==
  /\ n \in DOMAIN up
  /\ ClearOf(n, p)
  /\ up' = [up EXCEPT ![n] = p]

Fell(n) ==
  /\ n \in DOMAIN up
  /\ \A x \in DOMAIN up \ {n} : up[x] # n
  /\ up' = [x \in DOMAIN up \ {n} |-> up[x]]

Next ==
  \E n \in Names :
    \/ \E p \in Names \cup {NoParent} : Plant(n, p) \/ Move(n, p)
    \/ Fell(n)

Spec == Init /\ [][Next]_up

(* The cluster's hierarchy is a forest in every state: no namespace        *)
(* dangles and none is its own ancestor.                                   *)
AlwaysForest ==
  /\ DOMAIN up \subseteq Names
  /\ up \in [DOMAIN up -> Names \cup {NoParent}]
  /\ IsForest(up)
=============================================================================
