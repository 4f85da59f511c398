-------------------------- MODULE PartialMapsProofs --------------------------
(* Putting, dropping and changing keep a partial map what it is.           *)
EXTENDS PartialMaps, TLAPS

(* A partial map has its arguments in S and its values in T.               *)
LEMMA PartialMapFacts ==
  ASSUME NEW S, NEW T
  PROVE  /\ \A f \in PartialMap(S, T) : DOMAIN f \subseteq S /\ f \in [DOMAIN f -> T]
         /\ \A D \in SUBSET S : [D -> T] \subseteq PartialMap(S, T)
  BY DEF PartialMap

(* The two ways of saying so are the same.                                 *)
LEMMA IsPartialMapFacts ==
  ASSUME NEW S, NEW T, NEW f
  PROVE  IsPartialMap(f, S, T) <=> f \in PartialMap(S, T)
  BY PartialMapFacts DEF IsPartialMap

(* Put and Drop keep a partial map one.                                    *)
LEMMA PutDropTypes ==
  ASSUME NEW S, NEW T, NEW f \in PartialMap(S, T), NEW x \in S, NEW v \in T
  PROVE  Put(f, x, v) \in PartialMap(S, T) /\ Drop(f, x) \in PartialMap(S, T)
<1>1. DOMAIN f \subseteq S /\ f \in [DOMAIN f -> T]
  BY PartialMapFacts
<1>2. Put(f, x, v) \in [DOMAIN f \cup {x} -> T] /\ Drop(f, x) \in [DOMAIN f \ {x} -> T]
  BY <1>1 DEF Put, Drop
<1>3. DOMAIN f \cup {x} \in SUBSET S /\ DOMAIN f \ {x} \in SUBSET S
  BY <1>1
<1> QED
  BY <1>2, <1>3, PartialMapFacts

(* So does giving one argument another value.                              *)
LEMMA ExceptTypes ==
  ASSUME NEW S, NEW T, NEW f \in PartialMap(S, T), NEW x \in DOMAIN f, NEW v \in T
  PROVE  [f EXCEPT ![x] = v] \in PartialMap(S, T)
<1>1. DOMAIN f \subseteq S /\ f \in [DOMAIN f -> T]
  BY PartialMapFacts
<1>2. [f EXCEPT ![x] = v] \in [DOMAIN f -> T]
  BY <1>1
<1> QED
  BY <1>1, <1>2, PartialMapFacts
=============================================================================
