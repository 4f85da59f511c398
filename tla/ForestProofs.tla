----------------------------- MODULE ForestProofs -----------------------------
(***************************************************************************)
(* The three things Forest allows keep a forest a forest.                  *)
(***************************************************************************)
EXTENDS Forest, TLAPS

(* Planting a new node below an old one, or alone, closes no cycle.        *)
LEMMA PlantKeepsForest ==
  ASSUME NEW f, NoParent \notin DOMAIN f, IsForest(f),
         NEW n, n \notin DOMAIN f, n # NoParent,
         NEW p \in DOMAIN f \cup {NoParent}
  PROVE  IsForest([x \in DOMAIN f \cup {n} |-> IF x = n THEN p ELSE f[x]])
<1> DEFINE g == [x \in DOMAIN f \cup {n} |-> IF x = n THEN p ELSE f[x]]
<1>1. ClosedUpward(DOMAIN g, g)
  BY DEF ClosedUpward, IsForest
<1>2. ASSUME NEW S \in SUBSET DOMAIN g, HoldsCycle(S, g)
      PROVE  FALSE
  <2>1. n \notin {g[x] : x \in S}
    BY DEF IsForest, ClosedUpward
  <2>2. p \in DOMAIN f => p \in S \/ n \notin S
    BY <1>2 DEF HoldsCycle
  <2>3. p # NoParent \/ n \notin S
    BY <1>2 DEF HoldsCycle
  <2>4. S \ {n} # {} /\ S \ {n} \in SUBSET DOMAIN f
    BY <1>2, <2>2, <2>3 DEF HoldsCycle
  <2>5. HoldsCycle(S \ {n}, f)
    BY <1>2, <2>1, <2>4 DEF HoldsCycle
  <2> QED BY <2>4, <2>5 DEF IsForest
<1> QED BY <1>1, <1>2 DEF IsForest

(* Moving a node to a place that does not hang below it closes no cycle.   *)
LEMMA MoveKeepsForest ==
  ASSUME NEW f, NoParent \notin DOMAIN f, IsForest(f),
         f = [x \in DOMAIN f |-> f[x]],
         NEW n \in DOMAIN f, NEW p,
         p # NoParent => \E above \in SUBSET (DOMAIN f \ {n}) :
                            p \in above /\ ClosedUpward(above, f)
  PROVE  IsForest([f EXCEPT ![n] = p])
<1> DEFINE g == [f EXCEPT ![n] = p]
<1>1. DOMAIN g = DOMAIN f /\ g[n] = p /\ \A x \in DOMAIN f \ {n} : g[x] = f[x]
  OBVIOUS
<1> HIDE DEF g
<1>2. ClosedUpward(DOMAIN g, g)
  BY <1>1 DEF ClosedUpward, IsForest
<1>3. ASSUME NEW S \in SUBSET DOMAIN g, HoldsCycle(S, g)
      PROVE  FALSE
  <2>1. CASE n \notin S
    <3>1. HoldsCycle(S, f)
      BY <1>1, <1>3, <2>1 DEF HoldsCycle
    <3> QED BY <1>1, <3>1 DEF IsForest
  <2>2. CASE n \in S
    <3>1. p \in S /\ p # NoParent
      BY <1>1, <1>3, <2>2 DEF HoldsCycle
    <3>2. PICK above \in SUBSET (DOMAIN f \ {n}) : p \in above /\ ClosedUpward(above, f)
      BY <3>1
    \* What leaves a cycle never returns to it: S and above can share
    \* members only if those members form a cycle of their own.
    <3>3. HoldsCycle(S \cap above, f)
      BY <1>1, <1>3, <3>1, <3>2 DEF HoldsCycle, ClosedUpward
    <3>4. S \cap above \in SUBSET DOMAIN f
      BY <3>2
    <3> QED BY <3>3, <3>4 DEF IsForest
  <2> QED BY <2>1, <2>2
<1>4. IsForest(g)
  BY <1>2, <1>3 DEF IsForest
<1> QED BY <1>4 DEF g

(* Felling a node nothing hangs below leaves nothing dangling.             *)
LEMMA FellKeepsForest ==
  ASSUME NEW f, IsForest(f), NEW n \in DOMAIN f,
         \A x \in DOMAIN f \ {n} : f[x] # n
  PROVE  IsForest([x \in DOMAIN f \ {n} |-> f[x]])
<1> DEFINE g == [x \in DOMAIN f \ {n} |-> f[x]]
<1>1. ClosedUpward(DOMAIN g, g)
  BY DEF ClosedUpward, IsForest
<1>2. ASSUME NEW S \in SUBSET DOMAIN g, HoldsCycle(S, g)
      PROVE  FALSE
  <2>1. HoldsCycle(S, f)
    BY <1>2 DEF HoldsCycle
  <2>2. S \in SUBSET DOMAIN f
    OBVIOUS
  <2> QED BY <2>1, <2>2 DEF IsForest
<1> QED BY <1>1, <1>2 DEF IsForest

(* So does every step.                                                     *)
LEMMA StepKeepsForest ==
  ASSUME NoParent \notin Names, AlwaysForest, [Next]_up
  PROVE  AlwaysForest'
<1> USE DEF AlwaysForest
<1>1. ASSUME NEW n \in Names, NEW p \in Names \cup {NoParent}, Plant(n, p)
      PROVE  AlwaysForest'
  <2>1. IsForest(up')
    BY <1>1, PlantKeepsForest DEF Plant
  <2> QED BY <1>1, <2>1 DEF Plant
<1>2. ASSUME NEW n \in Names, NEW p \in Names \cup {NoParent}, Move(n, p)
      PROVE  AlwaysForest'
  <2>1. IsForest(up')
    BY <1>2, MoveKeepsForest DEF Move, ClearOf
  <2> QED BY <1>2, <2>1 DEF Move, ClearOf
<1>3. ASSUME NEW n \in Names, Fell(n)
      PROVE  AlwaysForest'
  <2>1. IsForest(up')
    BY <1>3, FellKeepsForest DEF Fell
  <2> QED BY <1>3, <2>1 DEF Fell
<1>4. CASE UNCHANGED up
  BY <1>4 DEF IsForest, ClosedUpward, HoldsCycle
<1> QED BY <1>1, <1>2, <1>3, <1>4 DEF Next

(* The promise of Forest holds of its every behaviour: whatever is         *)
(* planted, moved and felled, and whatever the names are.                  *)
THEOREM ForestIsAlwaysForest ==
  ASSUME NoParent \notin Names
  PROVE  Spec => []AlwaysForest
<1>1. Init => AlwaysForest
  BY DEF Init, AlwaysForest, IsForest, ClosedUpward, HoldsCycle
<1>2. AlwaysForest /\ [Next]_up => AlwaysForest'
  BY StepKeepsForest
<1> QED BY <1>1, <1>2, PTL DEF Spec
=============================================================================
