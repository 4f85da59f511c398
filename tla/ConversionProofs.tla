--------------------------- MODULE ConversionProofs ---------------------------
(***************************************************************************)
(* What the conversions keep, for any specs, conditions, generations and   *)
(* texts: the way to v1 and back loses nothing, a client of an older       *)
(* version changes what it has edited and nothing else, and no spec is     *)
(* called ok before it was reconciled.                                     *)
(***************************************************************************)
EXTENDS Conversion, PartialMapsProofs

(* Every text is told from the others by what it is.                       *)
LEMMA TextFacts ==
  /\ \A n \in Generations : FormatInt(n) \in Texts /\ IsInt(FormatInt(n))
                            /\ FormatInt(n).decimal = n
  /\ \A c \in Conditions : Marshal(c) \in Texts /\ IsConditions(Marshal(c))
                           /\ Marshal(c).json = c
  /\ \A t \in Texts : (IsInt(t) => t.decimal \in Generations)
                      /\ (IsConditions(t) => t.json \in Conditions)
<1>1. \A n \in Generations : FormatInt(n) \in Texts /\ IsInt(FormatInt(n))
                             /\ FormatInt(n).decimal = n /\ ~IsConditions(FormatInt(n))
  BY DEF FormatInt, IsInt, IsConditions, Texts
<1>2. \A c \in Conditions : Marshal(c) \in Texts /\ IsConditions(Marshal(c))
                            /\ Marshal(c).json = c /\ ~IsInt(Marshal(c))
  BY DEF Marshal, IsInt, IsConditions, Texts
<1>3. ASSUME NEW t \in Texts
      PROVE  (IsInt(t) => t.decimal \in Generations) /\ (IsConditions(t) => t.json \in Conditions)
  <2>1. CASE t \in UserTexts
    BY <2>1, UserTextsAssumption
  <2>2. CASE \E n \in Generations : t = FormatInt(n)
    BY <2>2, <1>1
  <2>3. CASE \E c \in Conditions : t = Marshal(c)
    BY <2>3, <1>2
  <2> QED
    BY <2>1, <2>2, <2>3 DEF Texts
<1> QED
  BY <1>1, <1>2, <1>3

LEMMA InternalFacts ==
  /\ AnnObservedGeneration \in Internal /\ AnnConditions \in Internal
  /\ AnnObservedGeneration # AnnConditions
  /\ \A key \in Internal : key = AnnObservedGeneration \/ key = AnnConditions
  /\ Internal \subseteq Internal \cup {Note} /\ Note \notin Internal
  BY NoteAssumption DEF Internal, AnnObservedGeneration, AnnConditions

LEMMA AnnotatedType == ASSUME NEW o \in V2 PROVE Annotated(o) \in Annotations
<1> DEFINE noted == IF o.observedGeneration = 0 THEN o.annotations
                    ELSE Put(o.annotations, AnnObservedGeneration, FormatInt(o.observedGeneration))
<1>1. o.annotations \in Annotations /\ o.observedGeneration \in Generations
      /\ o.conditions \in Conditions
  BY DEF V2
<1>2. noted \in Annotations
  BY <1>1, TextFacts, InternalFacts, PutDropTypes DEF Annotations
<1>3. Put(noted, AnnConditions, Marshal(o.conditions)) \in Annotations
  BY <1>1, <1>2, TextFacts, InternalFacts, PutDropTypes DEF Annotations
<1> QED
  BY <1>2, <1>3 DEF Annotated

LEMMA ToV1Type == ASSUME NEW o \in V2 PROVE V2ToV1(o) \in V1
<1>1. StatusV1(o) \in {"", SubNamespaceOK, SubNamespaceConflict}
  BY DEF StatusV1
<1> QED
  BY <1>1, AnnotatedType DEF V2ToV1, V1, V2

LEMMA WithoutInternalType ==
  ASSUME NEW a \in Annotations PROVE WithoutInternal(a) \in Annotations
<1>1. DOMAIN a \subseteq Internal \cup {Note} /\ a \in [DOMAIN a -> Texts]
  BY PartialMapFacts DEF Annotations
<1>2. WithoutInternal(a) \in [DOMAIN a \ Internal -> Texts]
  BY <1>1 DEF WithoutInternal
<1>3. DOMAIN a \ Internal \in SUBSET (Internal \cup {Note})
  BY <1>1
<1> QED
  BY <1>2, <1>3, PartialMapFacts DEF Annotations

LEMMA NoConditionsType == [t \in {} |-> TRUE] \in Conditions
<1>1. [t \in {} |-> TRUE] \in [{} -> BOOLEAN] /\ {} \in SUBSET Types
  OBVIOUS
<1> QED
  BY <1>1, PartialMapFacts DEF Conditions

LEMMA ToV2Type == ASSUME NEW o \in V1, V1Converts(o) PROVE V1ToV2(o) \in V2
<1>1. o.annotations \in Annotations /\ o.generation \in Generations \ {0} /\ o.spec \in Specs
  BY DEF V1
<1>2. \A key \in DOMAIN o.annotations : o.annotations[key] \in Texts
  BY <1>1, PartialMapFacts DEF Annotations
<1>3. AnnObservedGeneration \in DOMAIN o.annotations =>
        o.annotations[AnnObservedGeneration].decimal \in Generations
  BY <1>2, TextFacts DEF V1Converts
<1>4. AnnConditions \in DOMAIN o.annotations => o.annotations[AnnConditions].json \in Conditions
  BY <1>2, TextFacts DEF V1Converts
<1>5. 0 \in Generations
  BY MaxGenerationAssumption DEF Generations
<1> QED
  BY <1>1, <1>3, <1>4, <1>5, WithoutInternalType, NoConditionsType DEF V1ToV2, V2

-----------------------------------------------------------------------------

(* What users wrote into the internal annotations goes on the way to v1    *)
(* and back; everything else is there again, and the way back is open.     *)
THEOREM V1ThereAndBack ==
  ASSUME NEW o \in V2, NothingInTheWay(o)
  PROVE  /\ V1Converts(V2ToV1(o))
         /\ V1ToV2(V2ToV1(o)) = [o EXCEPT !.annotations = WithoutInternal(o.annotations)]
<1> DEFINE a == Annotated(o)
           noted == IF o.observedGeneration = 0 THEN o.annotations
                    ELSE Put(o.annotations, AnnObservedGeneration, FormatInt(o.observedGeneration))
<1>1. o.annotations \in Annotations /\ o.observedGeneration \in Generations
      /\ o.conditions \in Conditions
  BY DEF V2
<1>2. /\ AnnObservedGeneration \in DOMAIN noted <=> o.observedGeneration # 0
      /\ o.observedGeneration # 0 =>
           noted[AnnObservedGeneration] = FormatInt(o.observedGeneration)
      /\ AnnConditions \in DOMAIN noted <=> AnnConditions \in DOMAIN o.annotations
      /\ DOMAIN noted \ Internal = DOMAIN o.annotations \ Internal
      /\ \A key \in DOMAIN o.annotations \ Internal : noted[key] = o.annotations[key]
  BY InternalFacts DEF Put, NothingInTheWay
<1>3. /\ AnnObservedGeneration \in DOMAIN a <=> o.observedGeneration # 0
      /\ o.observedGeneration # 0 => a[AnnObservedGeneration] = FormatInt(o.observedGeneration)
      /\ AnnConditions \in DOMAIN a <=> DOMAIN o.conditions # {}
      /\ DOMAIN o.conditions # {} => a[AnnConditions] = Marshal(o.conditions)
      /\ DOMAIN a \ Internal = DOMAIN o.annotations \ Internal
      /\ \A key \in DOMAIN o.annotations \ Internal : a[key] = o.annotations[key]
  <2>1. CASE DOMAIN o.conditions = {}
    BY <1>2, <2>1 DEF Annotated, NothingInTheWay
  <2>2. CASE DOMAIN o.conditions # {}
    <3>1. a = Put(noted, AnnConditions, Marshal(o.conditions))
      BY <2>2 DEF Annotated
    <3> HIDE DEF a, noted
    <3> QED
      BY <1>2, <2>2, <3>1, InternalFacts DEF Put
  <2> QED
    BY <2>1, <2>2
<1> HIDE DEF a, noted
<1>4. V2ToV1(o).annotations = a /\ V2ToV1(o).generation = o.generation /\ V2ToV1(o).spec = o.spec
  BY DEF V2ToV1, a
<1>5. V1Converts(V2ToV1(o))
  BY <1>1, <1>3, <1>4, TextFacts DEF V1Converts
<1>6. WithoutInternal(a) = WithoutInternal(o.annotations)
  BY <1>3 DEF WithoutInternal
<1>7. V1ToV2(V2ToV1(o)).observedGeneration = o.observedGeneration
  BY <1>1, <1>3, <1>4, TextFacts DEF V1ToV2
<1>8. V1ToV2(V2ToV1(o)).conditions = o.conditions
  <2>1. CASE DOMAIN o.conditions = {}
    <3>1. o.conditions = [t \in {} |-> TRUE]
      <4>1. o.conditions \in [DOMAIN o.conditions -> BOOLEAN]
        BY <1>1, PartialMapFacts DEF Conditions
      <4> QED
        BY <4>1, <2>1
    <3> QED
      BY <1>3, <1>4, <2>1, <3>1 DEF V1ToV2
  <2>2. CASE DOMAIN o.conditions # {}
    BY <1>1, <1>3, <1>4, <2>2, TextFacts DEF V1ToV2
  <2> QED
    BY <2>1, <2>2
<1>9. V1ToV2(V2ToV1(o)) = [o EXCEPT !.annotations = WithoutInternal(o.annotations)]
  BY <1>4, <1>6, <1>7, <1>8 DEF V1ToV2, V2
<1> QED
  BY <1>5, <1>9

-----------------------------------------------------------------------------
(* The copy of the client is what it has read, but for what it has edited. *)

CopyFollows ==
  copy # NoCopy =>
    /\ copy.object.generation = base.generation
    /\ copy.object.spec # base.spec => base.generation < MaxGeneration
    /\ copy.edited = {} => copy.object = ConvertFrom(copy.version, base)

IInv == TypeOK /\ CopyFollows

LEMMA CopyFacts ==
  /\ \A c \in Copies : c.version \in Versions /\ c.edited \subseteq Parts
  /\ \A c \in Copies : c.version = "v1" => c.object \in V1
  /\ \A c \in Copies : c.version = "v2alpha1" => c.object \in V2
  /\ \A o \in V1, e \in SUBSET Parts : [version |-> "v1", object |-> o, edited |-> e] \in Copies
  /\ \A o \in V2, e \in SUBSET Parts :
       [version |-> "v2alpha1", object |-> o, edited |-> e] \in Copies
  BY DEF Copies, Versions, V2alpha1

LEMMA InitInv == Init => IInv
<1> SUFFICES ASSUME Init PROVE IInv
  OBVIOUS
<1>1. [k \in {} |-> NoCopy] \in Annotations
  <2>1. [k \in {} |-> NoCopy] \in [{} -> Texts] /\ {} \in SUBSET (Internal \cup {Note})
    OBVIOUS
  <2> QED
    BY <2>1, PartialMapFacts DEF Annotations
<1>2. 0 \in Generations /\ 1 \in Generations \ {0}
  BY MaxGenerationAssumption DEF Generations
<1>3. stored \in V2
  BY <1>1, <1>2, NoConditionsType DEF Init, V2
<1> QED
  BY <1>3 DEF Init, IInv, TypeOK, CopyFollows

(* What the API server makes of a new spec.                                *)
LEMMA RespecifiedType ==
  ASSUME NEW o \in V2, NEW spec \in Specs, spec # o.spec => o.generation < MaxGeneration
  PROVE  Respecified(o, spec) \in V2
<1>1. o.generation \in Generations \ {0}
  BY DEF V2
<1>2. o.generation < MaxGeneration => o.generation + 1 \in Generations \ {0}
  BY <1>1, MaxGenerationAssumption DEF Generations
<1> QED
  BY <1>2 DEF Respecified, V2

(* An edit of the client touches one part of what it holds.                *)
LEMMA EditedParts ==
  ASSUME copy \in Copies, ClientEdits
  PROVE  /\ copy'.version = copy.version
         /\ copy'.object.generation = copy.object.generation
         /\ copy.version = "v2alpha1" =>
              /\ copy'.object.observedGeneration = copy.object.observedGeneration
              /\ copy'.object.conditions = copy.object.conditions
         /\ \/ /\ copy'.edited = copy.edited \cup {"spec"}
               /\ base.generation < MaxGeneration
               /\ copy'.object.annotations = copy.object.annotations
            \/ /\ copy'.edited = copy.edited \cup {"note"}
               /\ copy'.object.spec = copy.object.spec
               /\ \E text : copy'.object.annotations = Put(copy.object.annotations, Note, text)
            \/ /\ copy'.edited = copy.edited \cup {"internal"}
               /\ copy'.object.spec = copy.object.spec
               /\ \E key \in Internal :
                    copy'.object.annotations = Drop(copy.object.annotations, key)
<1>1. ASSUME base.generation < MaxGeneration, NEW spec \in Specs,
             copy' = [copy EXCEPT !.object.spec = spec, !.edited = @ \cup {"spec"}]
      PROVE  /\ copy'.version = copy.version
             /\ copy'.object.generation = copy.object.generation
             /\ copy.version = "v2alpha1" =>
                  /\ copy'.object.observedGeneration = copy.object.observedGeneration
                  /\ copy'.object.conditions = copy.object.conditions
             /\ copy'.edited = copy.edited \cup {"spec"}
             /\ copy'.object.annotations = copy.object.annotations
  BY <1>1 DEF Copies, V1, V2, V2alpha1
<1>2. ASSUME NEW a, NEW part,
             copy' = [copy EXCEPT !.object.annotations = a, !.edited = @ \cup {part}]
      PROVE  /\ copy'.version = copy.version
             /\ copy'.object.generation = copy.object.generation
             /\ copy.version = "v2alpha1" =>
                  /\ copy'.object.observedGeneration = copy.object.observedGeneration
                  /\ copy'.object.conditions = copy.object.conditions
             /\ copy'.edited = copy.edited \cup {part}
             /\ copy'.object.spec = copy.object.spec
             /\ copy'.object.annotations = a
  BY <1>2 DEF Copies, V1, V2, V2alpha1
<1>3. CASE \E text \in UserTexts :
             copy' = [copy EXCEPT !.object.annotations = Put(@, Note, text),
                                  !.edited = @ \cup {"note"}]
  <2>1. PICK text \in UserTexts :
          copy' = [copy EXCEPT !.object.annotations = Put(copy.object.annotations, Note, text),
                               !.edited = @ \cup {"note"}]
    BY <1>3
  <2> QED
    BY <1>2, <2>1
<1>4. CASE \E key \in Internal :
             copy' = [copy EXCEPT !.object.annotations = Drop(@, key),
                                  !.edited = @ \cup {"internal"}]
  <2>1. PICK key \in Internal :
          copy' = [copy EXCEPT !.object.annotations = Drop(copy.object.annotations, key),
                               !.edited = @ \cup {"internal"}]
    BY <1>4
  <2> QED
    BY <1>2, <2>1
<1> QED
  BY <1>1, <1>3, <1>4 DEF ClientEdits

(* ...and leaves it an object of its version.                              *)
LEMMA EditedCopy ==
  ASSUME copy \in Copies, ClientEdits
  PROVE  copy' \in Copies
<1>1. ASSUME NEW a \in Annotations, NEW part \in {"note", "internal"},
             copy' = [copy EXCEPT !.object.annotations = a, !.edited = @ \cup {part}]
      PROVE  copy' \in Copies
  BY <1>1 DEF Copies, V1, V2, V2alpha1, Parts
<1>2. copy.object.annotations \in Annotations /\ Texts # {}
  BY TextFacts, MaxGenerationAssumption DEF Copies, V1, V2, V2alpha1, Generations
<1>3. ASSUME NEW spec \in Specs,
             copy' = [copy EXCEPT !.object.spec = spec, !.edited = @ \cup {"spec"}]
      PROVE  copy' \in Copies
  BY <1>3 DEF Copies, V1, V2, V2alpha1, Parts
<1>4. ASSUME NEW text \in UserTexts,
             copy' = [copy EXCEPT !.object.annotations = Put(@, Note, text),
                                  !.edited = @ \cup {"note"}]
      PROVE  copy' \in Copies
  <2>1. Put(copy.object.annotations, Note, text) \in Annotations
    BY <1>2, PutDropTypes DEF Annotations, Texts
  <2>2. copy' = [copy EXCEPT !.object.annotations = Put(copy.object.annotations, Note, text),
                             !.edited = @ \cup {"note"}]
    BY <1>4
  <2> QED
    BY <1>1, <2>1, <2>2
<1>5. ASSUME NEW key \in Internal,
             copy' = [copy EXCEPT !.object.annotations = Drop(@, key),
                                  !.edited = @ \cup {"internal"}]
      PROVE  copy' \in Copies
  <2>1. Drop(copy.object.annotations, key) \in Annotations
    BY <1>2, PutDropTypes DEF Annotations
  <2>2. copy' = [copy EXCEPT !.object.annotations = Drop(copy.object.annotations, key),
                             !.edited = @ \cup {"internal"}]
    BY <1>5
  <2> QED
    BY <1>1, <2>1, <2>2
<1> QED
  BY <1>3, <1>4, <1>5 DEF ClientEdits

LEMMA StepInv == IInv /\ [Next]_vars => IInv'
<1> SUFFICES ASSUME IInv, [Next]_vars PROVE IInv'
  OBVIOUS
<1>1. stored \in V2 /\ base \in V2 /\ copy \in Copies \cup {NoCopy} /\ CopyFollows
  BY DEF IInv, TypeOK
<1>2. ASSUME stored' \in V2, UNCHANGED <<copy, base>> PROVE IInv'
  BY <1>1, <1>2 DEF IInv, TypeOK, CopyFollows, ConvertFrom, V2ToV1, V2ToV2alpha1, Identical,
                    Annotated, StatusV1
<1>3. CASE Reconcile
  <2>1. PICK seen \in 1..stored.generation, conflict \in BOOLEAN :
          stored' = [stored EXCEPT !.observedGeneration = seen,
                                   !.conditions = IF conflict THEN Put(@, Stalled, TRUE)
                                                  ELSE Drop(@, Stalled)]
    BY <1>3 DEF Reconcile
  <2>2. seen \in Generations
    BY <1>1, MaxGenerationAssumption DEF V2, Generations
  <2>3. /\ Put(stored.conditions, Stalled, TRUE) \in Conditions
        /\ Drop(stored.conditions, Stalled) \in Conditions
    BY <1>1, StalledAssumption, PutDropTypes DEF V2, Conditions
  <2>4. stored' \in V2
    BY <1>1, <2>1, <2>2, <2>3 DEF V2
  <2> QED
    BY <1>2, <1>3, <2>4 DEF Reconcile
<1>4. ASSUME NEW type \in Types, NEW status \in BOOLEAN, AddCondition(type, status) PROVE IInv'
  <2>1. Put(stored.conditions, type, status) \in Conditions
    BY <1>1, PutDropTypes DEF V2, Conditions
  <2>2. stored' \in V2
    BY <1>1, <1>4, <2>1 DEF AddCondition, V2
  <2> QED
    BY <1>2, <1>4, <2>2 DEF AddCondition
<1>5. CASE UserEdits
  <2>1. CASE stored.generation < MaxGeneration
             /\ \E spec \in Specs : stored' = Respecified(stored, spec)
    BY <1>1, <1>2, <1>5, <2>1, RespecifiedType DEF UserEdits
  <2>2. ASSUME NEW key \in Internal \cup {Note}, NEW text \in UserTexts,
               stored' = [stored EXCEPT !.annotations = Put(@, key, text)]
        PROVE  IInv'
    <3>1. Put(stored.annotations, key, text) \in Annotations
      BY <1>1, PutDropTypes DEF V2, Annotations, Texts
    <3>2. stored' \in V2
      BY <1>1, <2>2, <3>1 DEF V2
    <3> QED
      BY <1>2, <1>5, <3>2 DEF UserEdits
  <2> QED
    BY <1>5, <2>1, <2>2 DEF UserEdits
<1>6. ASSUME NEW version \in Versions, ClientReads(version) PROVE IInv'
  <2> DEFINE o == ConvertFrom(version, stored)
  <2>1. copy' = [version |-> version, object |-> o, edited |-> {}]
        /\ base' = stored /\ stored' = stored
    BY <1>6 DEF ClientReads
  <2>2. version = "v1" => o \in V1
    BY <1>1, ToV1Type DEF ConvertFrom
  <2>3. version = "v2alpha1" => o \in V2
    BY <1>1 DEF ConvertFrom, V2ToV2alpha1, Identical, V2
  <2>4. o.generation = stored.generation /\ o.spec = stored.spec
    BY DEF ConvertFrom, V2ToV1, V2ToV2alpha1, Identical
  <2>5. copy' \in Copies
    BY <2>1, <2>2, <2>3, CopyFacts DEF Versions
  <2>6. CopyFollows'
    <3>1. copy'.object = o /\ copy'.version = version
      BY <2>1
    <3>2. ConvertFrom(copy'.version, base') = o
      BY <2>1, <3>1
    <3> HIDE DEF o
    <3> QED
      BY <2>1, <2>4, <3>1, <3>2 DEF CopyFollows, ConvertFrom
  <2> QED
    BY <1>1, <2>1, <2>5, <2>6 DEF IInv, TypeOK
<1>7. CASE ClientEdits
  <2>1. copy \in Copies /\ copy # NoCopy /\ stored' = stored /\ base' = base
    BY <1>1, <1>7 DEF ClientEdits
  <2>2. copy' \in Copies
    BY <1>7, <2>1, EditedCopy
  <2>3. /\ copy'.object.generation = copy.object.generation
        /\ copy'.edited # {}
        /\ copy'.object.spec = copy.object.spec \/ base.generation < MaxGeneration
    BY <1>7, <2>1, EditedParts
  <2> QED
    BY <1>1, <2>1, <2>2, <2>3 DEF IInv, TypeOK, CopyFollows
<1>8. CASE ClientWrites
  <2>1. copy \in Copies /\ copy # NoCopy /\ copy' = NoCopy /\ base' = stored'
    BY <1>1, <1>8 DEF ClientWrites
  <2>2. CASE stored = base /\ Converts(copy.version, copy.object)
    <3> DEFINE new == ConvertTo(copy.version, copy.object)
               same == [new EXCEPT !.spec = stored.spec]
    <3>1. new \in V2
      <4>1. CASE copy.version = "v1"
        BY <2>1, <2>2, <4>1, CopyFacts, ToV2Type DEF Converts, ConvertTo
      <4>2. CASE copy.version = "v2alpha1"
        BY <2>1, <4>2, CopyFacts DEF ConvertTo, V2alpha1ToV2, Identical, V2
      <4> QED
        BY <2>1, <4>1, <4>2, CopyFacts DEF Versions
    <3>2. new.spec = copy.object.spec /\ new.generation = copy.object.generation
      BY DEF ConvertTo, V1ToV2, V2alpha1ToV2, Identical
    <3>3. stored' = Respecified(same, new.spec)
      BY <1>8, <2>2 DEF ClientWrites
    <3> HIDE DEF new
    <3>4. same \in V2 /\ same.spec = stored.spec /\ same.generation = new.generation
      BY <1>1, <3>1 DEF V2
    <3>5. new.spec # same.spec => same.generation < MaxGeneration
      BY <1>1, <2>1, <2>2, <3>2, <3>4 DEF CopyFollows
    <3>6. new.spec \in Specs
      BY <3>1 DEF V2
    <3> HIDE DEF same
    <3>7. stored' \in V2
      BY <3>3, <3>4, <3>5, <3>6, RespecifiedType
    <3> QED
      BY <2>1, <3>7 DEF IInv, TypeOK, CopyFollows
  <2>3. CASE UNCHANGED stored
    BY <1>1, <2>1, <2>3 DEF IInv, TypeOK, CopyFollows
  <2> QED
    BY <1>8, <2>2, <2>3 DEF ClientWrites
<1>9. CASE UNCHANGED vars
  BY <1>1, <1>2, <1>9 DEF vars
<1> QED
  BY <1>3, <1>4, <1>5, <1>6, <1>7, <1>8, <1>9 DEF Next

(* However many specs, conditions, generations and texts there are, what   *)
(* is stored, and what clients hold, is well formed: no conversion takes   *)
(* an object out of its type.                                              *)
THEOREM TypeCorrect == Spec => []TypeOK
<1>1. IInv => TypeOK
  BY DEF IInv
<1> QED
  BY <1>1, InitInv, StepInv, PTL DEF Spec

(* In every reachable state a client of either version that has edited     *)
(* nothing would write back the object it has read, unless a user has      *)
(* written into an internal annotation that is not in use.                 *)
THEOREM RoundTripAlways == Spec => []RoundTrip
<1>1. IInv => RoundTrip
  <2> SUFFICES ASSUME IInv, Untouched, NothingInTheWay(base)
               PROVE  /\ Converts(copy.version, copy.object)
                      /\ LET back == ConvertTo(copy.version, copy.object)
                         IN  /\ [back EXCEPT !.annotations = base.annotations] = base
                             /\ back.annotations \in
                                  {base.annotations, WithoutInternal(base.annotations)}
    BY DEF RoundTrip
  <2>1. base \in V2 /\ copy \in Copies
        /\ copy.object = ConvertFrom(copy.version, base)
    BY DEF IInv, TypeOK, CopyFollows, Untouched
  <2>2. CASE copy.version = "v1"
    <3>1. copy.object = V2ToV1(base)
      BY <2>1, <2>2 DEF ConvertFrom
    <3>2. /\ Converts(copy.version, copy.object)
          /\ ConvertTo(copy.version, copy.object) =
               [base EXCEPT !.annotations = WithoutInternal(base.annotations)]
      BY <2>1, <2>2, <3>1, V1ThereAndBack DEF Converts, ConvertTo
    <3> QED
      BY <2>1, <3>2 DEF V2
  <2>3. CASE copy.version = "v2alpha1"
    <3>1. ConvertTo(copy.version, copy.object) = base
      BY <2>1, <2>3 DEF ConvertFrom, ConvertTo, V2ToV2alpha1, V2alpha1ToV2, Identical, V2
    <3> QED
      BY <2>1, <2>3, <3>1 DEF Converts, V2
  <2> QED
    BY <2>1, <2>2, <2>3, CopyFacts DEF Versions
<1> QED
  BY <1>1, InitInv, StepInv, PTL DEF Spec

-----------------------------------------------------------------------------
(* What a client has not edited is as it was read, part for part.          *)

OnlyInternal(annotations) == [key \in DOMAIN annotations \cap Internal |-> annotations[key]]

PartsFollow ==
  copy # NoCopy =>
    LET was == ConvertFrom(copy.version, base)
        now == copy.object
    IN  /\ "spec" \notin copy.edited => now.spec = was.spec
        /\ "note" \notin copy.edited =>
             WithoutInternal(now.annotations) = WithoutInternal(was.annotations)
        /\ "internal" \notin copy.edited =>
             OnlyInternal(now.annotations) = OnlyInternal(was.annotations)
        /\ DOMAIN now.annotations \cap Internal \subseteq DOMAIN was.annotations
        /\ copy.version = "v2alpha1" =>
             now.observedGeneration = was.observedGeneration /\ now.conditions = was.conditions

(* No generation is reported on that there has not been yet, not in the    *)
(* text of an annotation either.                                           *)
NotForged(o) ==
  /\ o.observedGeneration <= o.generation
  /\ AnnObservedGeneration \in DOMAIN o.annotations =>
       ~IsInt(o.annotations[AnnObservedGeneration])

SeenInv ==
  /\ NotForged(stored) /\ NotForged(base)
  /\ copy # NoCopy =>
       /\ copy.version = "v2alpha1" => NotForged(copy.object)
       /\ /\ copy.version = "v1"
          /\ AnnObservedGeneration \in DOMAIN copy.object.annotations
          /\ IsInt(copy.object.annotations[AnnObservedGeneration])
          => copy.object.annotations[AnnObservedGeneration].decimal <= copy.object.generation

HonestUsers == \A t \in UserTexts : ~IsInt(t)

(* What the conversion to v1 does to the annotations.                      *)
LEMMA AnnotatedFacts ==
  ASSUME NEW o \in V2
  PROVE  /\ WithoutInternal(Annotated(o)) = WithoutInternal(o.annotations)
         /\ NotForged(o) /\ AnnObservedGeneration \in DOMAIN Annotated(o)
              /\ IsInt(Annotated(o)[AnnObservedGeneration])
            => Annotated(o)[AnnObservedGeneration].decimal <= o.generation
<1> DEFINE noted == IF o.observedGeneration = 0 THEN o.annotations
                    ELSE Put(o.annotations, AnnObservedGeneration, FormatInt(o.observedGeneration))
<1>1. /\ DOMAIN noted \ Internal = DOMAIN o.annotations \ Internal
      /\ \A key \in DOMAIN o.annotations \ Internal : noted[key] = o.annotations[key]
      /\ o.observedGeneration # 0 => noted[AnnObservedGeneration] = FormatInt(o.observedGeneration)
      /\ o.observedGeneration = 0 => noted = o.annotations
  BY InternalFacts DEF Put
<1>2. /\ DOMAIN Annotated(o) \ Internal = DOMAIN noted \ Internal
      /\ \A key \in DOMAIN noted \ Internal : Annotated(o)[key] = noted[key]
      /\ AnnObservedGeneration \in DOMAIN Annotated(o) =>
           /\ AnnObservedGeneration \in DOMAIN noted
           /\ Annotated(o)[AnnObservedGeneration] = noted[AnnObservedGeneration]
  <2>1. Annotated(o) = IF DOMAIN o.conditions = {} THEN noted
                       ELSE Put(noted, AnnConditions, Marshal(o.conditions))
    BY DEF Annotated
  <2> HIDE DEF noted
  <2> QED
    BY <2>1, InternalFacts DEF Put
<1> HIDE DEF noted
<1>3. WithoutInternal(Annotated(o)) = WithoutInternal(o.annotations)
  BY <1>1, <1>2 DEF WithoutInternal
<1>4. ASSUME NotForged(o), AnnObservedGeneration \in DOMAIN Annotated(o),
             IsInt(Annotated(o)[AnnObservedGeneration])
      PROVE  Annotated(o)[AnnObservedGeneration].decimal <= o.generation
  <2>1. o.observedGeneration # 0
    BY <1>1, <1>2, <1>4 DEF NotForged
  <2>2. Annotated(o)[AnnObservedGeneration].decimal = o.observedGeneration
    BY <1>1, <1>2, <1>4, <2>1 DEF FormatInt
  <2> QED
    BY <1>4, <2>2 DEF NotForged
<1> QED
  BY <1>3, <1>4

(* The way back reads the status from the internal annotations alone.      *)
LEMMA SameInternal ==
  ASSUME NEW o, NEW p, OnlyInternal(o.annotations) = OnlyInternal(p.annotations)
  PROVE  /\ V1ToV2(o).observedGeneration = V1ToV2(p).observedGeneration
         /\ V1ToV2(o).conditions = V1ToV2(p).conditions
<1>1. \A key \in Internal :
        /\ key \in DOMAIN o.annotations <=> key \in DOMAIN p.annotations
        /\ key \in DOMAIN o.annotations => o.annotations[key] = p.annotations[key]
  BY DEF OnlyInternal
<1> QED
  BY <1>1, InternalFacts DEF V1ToV2

LEMMA InitParts == Init => PartsFollow /\ (HonestUsers => SeenInv)
<1> SUFFICES ASSUME Init PROVE PartsFollow /\ SeenInv
  OBVIOUS
<1>1. NotForged(stored) /\ NotForged(base) /\ copy = NoCopy
  BY DEF Init, NotForged
<1> QED
  BY <1>1 DEF PartsFollow, SeenInv

LEMMA StepParts == IInv /\ PartsFollow /\ [Next]_vars => PartsFollow'
<1> SUFFICES ASSUME IInv, PartsFollow, [Next]_vars PROVE PartsFollow'
  OBVIOUS
<1>1. copy \in Copies \cup {NoCopy}
  BY DEF IInv, TypeOK
<1>2. CASE UNCHANGED <<copy, base>>
  BY <1>2 DEF PartsFollow, ConvertFrom, V2ToV1, V2ToV2alpha1, Identical, Annotated, StatusV1
<1>3. ASSUME NEW version \in Versions, ClientReads(version) PROVE PartsFollow'
  <2> DEFINE o == ConvertFrom(version, stored)
  <2>1. copy' = [version |-> version, object |-> o, edited |-> {}] /\ base' = stored
    BY <1>3 DEF ClientReads
  <2>2. copy'.object = o /\ ConvertFrom(copy'.version, base') = o
    BY <2>1
  <2> HIDE DEF o
  <2> QED
    BY <2>2 DEF PartsFollow, ConvertFrom
<1>4. CASE ClientEdits
  <2> DEFINE was == ConvertFrom(copy.version, base)
             now == copy.object
             edited == copy'.object
  <2>1. copy \in Copies /\ copy # NoCopy /\ base' = base
    BY <1>1, <1>4 DEF ClientEdits
  <2>2. /\ "spec" \notin copy.edited => now.spec = was.spec
        /\ "note" \notin copy.edited =>
             WithoutInternal(now.annotations) = WithoutInternal(was.annotations)
        /\ "internal" \notin copy.edited =>
             OnlyInternal(now.annotations) = OnlyInternal(was.annotations)
        /\ DOMAIN now.annotations \cap Internal \subseteq DOMAIN was.annotations
        /\ copy.version = "v2alpha1" =>
             now.observedGeneration = was.observedGeneration /\ now.conditions = was.conditions
    BY <2>1 DEF PartsFollow
  <2>3. \A a, text : /\ OnlyInternal(Put(a, Note, text)) = OnlyInternal(a)
                     /\ DOMAIN Put(a, Note, text) \cap Internal = DOMAIN a \cap Internal
    BY NoteAssumption DEF OnlyInternal, Put
  <2>4. \A a : \A key \in Internal :
          /\ WithoutInternal(Drop(a, key)) = WithoutInternal(a)
          /\ DOMAIN Drop(a, key) \subseteq DOMAIN a
    BY DEF WithoutInternal, Drop
  <2>5. ConvertFrom(copy'.version, base') = was
    BY <1>4, <2>1, EditedParts
  <2> HIDE DEF was
  <2> SUFFICES /\ "spec" \notin copy'.edited => edited.spec = was.spec
               /\ "note" \notin copy'.edited =>
                    WithoutInternal(edited.annotations) = WithoutInternal(was.annotations)
               /\ "internal" \notin copy'.edited =>
                    OnlyInternal(edited.annotations) = OnlyInternal(was.annotations)
               /\ DOMAIN edited.annotations \cap Internal \subseteq DOMAIN was.annotations
               /\ copy'.version = "v2alpha1" =>
                    /\ edited.observedGeneration = was.observedGeneration
                    /\ edited.conditions = was.conditions
    BY <2>5 DEF PartsFollow, ConvertFrom
  <2>6. CASE /\ copy'.edited = copy.edited \cup {"spec"}
             /\ edited.annotations = now.annotations
    BY <1>4, <2>1, <2>2, <2>6, EditedParts
  <2>7. CASE /\ copy'.edited = copy.edited \cup {"note"}
             /\ edited.spec = now.spec
             /\ \E text : edited.annotations = Put(now.annotations, Note, text)
    BY <1>4, <2>1, <2>2, <2>3, <2>7, EditedParts
  <2>8. CASE /\ copy'.edited = copy.edited \cup {"internal"}
             /\ edited.spec = now.spec
             /\ \E key \in Internal : edited.annotations = Drop(now.annotations, key)
    BY <1>4, <2>1, <2>2, <2>4, <2>8, EditedParts
  <2> QED
    BY <1>4, <2>1, <2>6, <2>7, <2>8, EditedParts
<1>5. CASE ClientWrites
  BY <1>5 DEF ClientWrites, PartsFollow
<1> QED
  BY <1>2, <1>3, <1>4, <1>5 DEF Next, Reconcile, AddCondition, UserEdits, vars

(* What a write that is accepted leaves.                                   *)
LEMMA WrittenParts ==
  ASSUME IInv, ClientWrites, stored = base, Converts(copy.version, copy.object)
  PROVE  LET new == ConvertTo(copy.version, copy.object)
         IN  /\ new \in V2 /\ new.generation = stored.generation /\ new.spec = copy.object.spec
             /\ stored'.spec = new.spec
             /\ stored'.annotations = new.annotations
             /\ stored'.observedGeneration = new.observedGeneration
             /\ stored'.conditions = new.conditions
             /\ stored'.generation =
                  IF new.spec = stored.spec THEN stored.generation ELSE stored.generation + 1
<1> DEFINE new == ConvertTo(copy.version, copy.object)
           same == [new EXCEPT !.spec = stored.spec]
<1>1. copy \in Copies /\ copy # NoCopy /\ stored' = Respecified(same, new.spec)
  BY DEF IInv, TypeOK, ClientWrites
<1>2. new \in V2
  <2>1. CASE copy.version = "v1"
    BY <1>1, <2>1, CopyFacts, ToV2Type DEF Converts, ConvertTo
  <2>2. CASE copy.version = "v2alpha1"
    BY <1>1, <2>2, CopyFacts DEF ConvertTo, V2alpha1ToV2, Identical, V2
  <2> QED
    BY <1>1, <2>1, <2>2, CopyFacts DEF Versions
<1>3. new.spec = copy.object.spec /\ new.generation = copy.object.generation
  BY DEF ConvertTo, V1ToV2, V2alpha1ToV2, Identical
<1>4. new.generation = stored.generation
  BY <1>1, <1>3 DEF IInv, CopyFollows
<1>5. /\ stored'.spec = new.spec
      /\ stored'.annotations = new.annotations
      /\ stored'.observedGeneration = new.observedGeneration
      /\ stored'.conditions = new.conditions
      /\ stored'.generation =
           IF new.spec = stored.spec THEN stored.generation ELSE stored.generation + 1
  <2> HIDE DEF new
  <2> QED
    BY <1>1, <1>2, <1>4 DEF Respecified, V2
<1> QED
  BY <1>2, <1>3, <1>4, <1>5

(* For any texts, conditions and generations: a client of an older version *)
(* changes in the object what it has edited, and nothing else.             *)
THEOREM EditsOnlyAlways == Spec => EditsOnly
<1>1. ASSUME IInv, PartsFollow, Next, copy # NoCopy, copy' = NoCopy,
             DOMAIN stored.annotations \cap Internal = {}
      PROVE  /\ "spec" \notin copy.edited =>
                  stored'.spec = stored.spec /\ stored'.generation = stored.generation
             /\ "note" \notin copy.edited => stored'.annotations = stored.annotations
             /\ "internal" \notin copy.edited =>
                  /\ stored'.observedGeneration = stored.observedGeneration
                  /\ stored'.conditions = stored.conditions
  <2>1. ClientWrites
    <3>1. CASE ClientEdits
      BY <1>1, <3>1, EditedCopy, NoCopyAssumption DEF IInv, TypeOK
    <3> QED
      BY <1>1, <3>1 DEF Next, Reconcile, AddCondition, UserEdits, ClientReads
  <2>2. CASE stored = base /\ Converts(copy.version, copy.object)
    <3> DEFINE was == ConvertFrom(copy.version, base)
               now == copy.object
               new == ConvertTo(copy.version, copy.object)
    <3>1. base \in V2 /\ copy \in Copies /\ base.annotations \in Annotations
      BY <1>1 DEF IInv, TypeOK, V2
    <3>2. NothingInTheWay(base)
      BY <1>1, <2>2, InternalFacts DEF NothingInTheWay
    <3>3. WithoutInternal(base.annotations) = base.annotations
      BY <1>1, <2>2, <3>1, PartialMapFacts DEF WithoutInternal, Annotations
    <3>4. /\ "spec" \notin copy.edited => now.spec = was.spec
          /\ "note" \notin copy.edited =>
               WithoutInternal(now.annotations) = WithoutInternal(was.annotations)
          /\ "internal" \notin copy.edited =>
               OnlyInternal(now.annotations) = OnlyInternal(was.annotations)
          /\ DOMAIN now.annotations \cap Internal \subseteq DOMAIN was.annotations
          /\ copy.version = "v2alpha1" =>
               now.observedGeneration = was.observedGeneration /\ now.conditions = was.conditions
      BY <1>1 DEF PartsFollow
    <3>5. was.spec = base.spec
      BY DEF ConvertFrom, V2ToV1, V2ToV2alpha1, Identical
    <3>6. /\ "note" \notin copy.edited => new.annotations = base.annotations
          /\ "internal" \notin copy.edited =>
               /\ new.observedGeneration = base.observedGeneration
               /\ new.conditions = base.conditions
      <4>1. CASE copy.version = "v1"
        <5>1. was = V2ToV1(base) /\ new = V1ToV2(now)
          BY <4>1 DEF ConvertFrom, ConvertTo
        <5>2. /\ V1ToV2(was).observedGeneration = base.observedGeneration
              /\ V1ToV2(was).conditions = base.conditions
          BY <3>1, <3>2, <5>1, V1ThereAndBack DEF V2
        <5>3. new.annotations = WithoutInternal(now.annotations)
          BY <5>1 DEF V1ToV2
        <5>4. WithoutInternal(was.annotations) = base.annotations
          BY <3>1, <3>3, <5>1, AnnotatedFacts DEF V2ToV1
        <5> QED
          BY <3>4, <5>1, <5>2, <5>3, <5>4, SameInternal
      <4>2. CASE copy.version = "v2alpha1"
        <5>1. was = Identical(base) /\ new = Identical(now)
          BY <4>2 DEF ConvertFrom, ConvertTo, V2ToV2alpha1, V2alpha1ToV2
        <5>2. DOMAIN now.annotations \cap Internal = {} /\ now.annotations \in Annotations
          BY <1>1, <2>2, <3>1, <3>4, <4>2, <5>1, CopyFacts DEF Identical, V2
        <5>3. WithoutInternal(now.annotations) = now.annotations
          BY <5>2, PartialMapFacts DEF WithoutInternal, Annotations
        <5> QED
          BY <3>3, <3>4, <4>2, <5>1, <5>3 DEF Identical
      <4> QED
        BY <3>1, <4>1, <4>2, CopyFacts DEF Versions
    <3>7. /\ stored'.spec = new.spec /\ new.spec = now.spec
          /\ stored'.annotations = new.annotations
          /\ stored'.observedGeneration = new.observedGeneration
          /\ stored'.conditions = new.conditions
          /\ new.spec = stored.spec => stored'.generation = stored.generation
      BY <1>1, <2>1, <2>2, WrittenParts
    <3> HIDE DEF was, new
    <3> QED
      BY <2>2, <3>4, <3>5, <3>6, <3>7
  <2>3. CASE ~(stored = base /\ Converts(copy.version, copy.object))
    BY <2>1, <2>3 DEF ClientWrites
  <2> QED
    BY <2>2, <2>3
<1>2. IInv /\ PartsFollow /\ [Next]_vars =>
        [copy # NoCopy /\ copy' = NoCopy /\ DOMAIN stored.annotations \cap Internal = {} =>
           /\ "spec" \notin copy.edited =>
                stored'.spec = stored.spec /\ stored'.generation = stored.generation
           /\ "note" \notin copy.edited => stored'.annotations = stored.annotations
           /\ "internal" \notin copy.edited =>
                /\ stored'.observedGeneration = stored.observedGeneration
                /\ stored'.conditions = stored.conditions]_vars
  BY <1>1
<1> QED
  BY <1>2, InitInv, StepInv, InitParts, StepParts, PTL DEF Spec, EditsOnly

LEMMA StepSeen == HonestUsers /\ IInv /\ SeenInv /\ [Next]_vars => SeenInv'
<1> SUFFICES ASSUME HonestUsers, IInv, SeenInv, [Next]_vars PROVE SeenInv'
  OBVIOUS
<1>1. /\ stored \in V2 /\ base \in V2 /\ copy \in Copies \cup {NoCopy}
      /\ NotForged(stored) /\ NotForged(base)
  BY DEF IInv, TypeOK, SeenInv
<1>2. ASSUME UNCHANGED <<copy, base>>, NotForged(stored)' PROVE SeenInv'
  BY <1>2 DEF SeenInv, NotForged
<1>3. CASE Reconcile
  <2>1. PICK seen \in 1..stored.generation, conflict \in BOOLEAN :
          stored' = [stored EXCEPT
                       !.observedGeneration = seen,
                       !.conditions = IF conflict THEN Put(@, Stalled, TRUE)
                                      ELSE Drop(@, Stalled)]
    BY <1>3 DEF Reconcile
  <2>2. /\ stored'.observedGeneration = seen /\ stored'.generation = stored.generation
        /\ stored'.annotations = stored.annotations
    BY <1>1, <2>1 DEF V2
  <2>3. seen <= stored.generation
    BY <1>1 DEF V2, Generations
  <2> QED
    BY <1>1, <1>2, <1>3, <2>2, <2>3 DEF Reconcile, NotForged
<1>4. ASSUME NEW type \in Types, NEW status \in BOOLEAN, AddCondition(type, status)
      PROVE  SeenInv'
  <2>1. /\ stored'.observedGeneration = stored.observedGeneration
        /\ stored'.generation = stored.generation /\ stored'.annotations = stored.annotations
    BY <1>1, <1>4 DEF AddCondition, V2
  <2> QED
    BY <1>1, <1>2, <1>4, <2>1 DEF AddCondition, NotForged
<1>5. CASE UserEdits
  <2>1. ASSUME NEW spec \in Specs, stored' = Respecified(stored, spec) PROVE NotForged(stored)'
    <3>1. /\ stored'.observedGeneration = stored.observedGeneration
          /\ stored'.annotations = stored.annotations
          /\ stored'.generation \in {stored.generation, stored.generation + 1}
      BY <1>1, <2>1 DEF Respecified, V2
    <3>2. stored.observedGeneration \in Nat /\ stored.generation \in Nat
      BY <1>1 DEF V2, Generations
    <3> QED
      BY <1>1, <3>1, <3>2 DEF NotForged
  <2>2. ASSUME NEW key, NEW text \in UserTexts,
               stored' = [stored EXCEPT !.annotations = Put(@, key, text)]
        PROVE  NotForged(stored)'
    <3>1. /\ stored'.observedGeneration = stored.observedGeneration
          /\ stored'.generation = stored.generation
          /\ stored'.annotations = Put(stored.annotations, key, text)
      BY <1>1, <2>2 DEF V2
    <3> QED
      BY <1>1, <3>1 DEF NotForged, Put, HonestUsers
  <2> QED
    BY <1>2, <1>5, <2>1, <2>2 DEF UserEdits
<1>6. ASSUME NEW version \in Versions, ClientReads(version) PROVE SeenInv'
  <2> DEFINE o == ConvertFrom(version, stored)
  <2>1. /\ copy' = [version |-> version, object |-> o, edited |-> {}]
        /\ base' = stored /\ stored' = stored
    BY <1>6 DEF ClientReads
  <2>2. copy'.object = o /\ copy'.version = version
    BY <2>1
  <2>3. version = "v2alpha1" => NotForged(o)
    BY <1>1 DEF ConvertFrom, V2ToV2alpha1, Identical, NotForged
  <2>4. version = "v1" =>
          o.annotations = Annotated(stored) /\ o.generation = stored.generation
    BY DEF ConvertFrom, V2ToV1
  <2> HIDE DEF o
  <2> QED
    BY <1>1, <2>1, <2>2, <2>3, <2>4, AnnotatedFacts DEF SeenInv, NotForged
<1>7. CASE ClientEdits
  <2>1. copy \in Copies /\ copy # NoCopy /\ stored' = stored /\ base' = base
    BY <1>1, <1>7 DEF ClientEdits
  <2>2. /\ copy'.version = copy.version
        /\ copy'.object.generation = copy.object.generation
        /\ copy.version = "v2alpha1" =>
             copy'.object.observedGeneration = copy.object.observedGeneration
    BY <1>7, <2>1, EditedParts
  <2>3. \A text, key : \A a :
          /\ AnnObservedGeneration \in DOMAIN Put(a, Note, text) =>
               /\ AnnObservedGeneration \in DOMAIN a
               /\ Put(a, Note, text)[AnnObservedGeneration] = a[AnnObservedGeneration]
          /\ AnnObservedGeneration \in DOMAIN Drop(a, key) =>
               /\ AnnObservedGeneration \in DOMAIN a
               /\ Drop(a, key)[AnnObservedGeneration] = a[AnnObservedGeneration]
    BY InternalFacts DEF Put, Drop
  <2>4. AnnObservedGeneration \in DOMAIN copy'.object.annotations =>
          /\ AnnObservedGeneration \in DOMAIN copy.object.annotations
          /\ copy'.object.annotations[AnnObservedGeneration]
               = copy.object.annotations[AnnObservedGeneration]
    <3>1. \/ copy'.object.annotations = copy.object.annotations
          \/ \E text : copy'.object.annotations = Put(copy.object.annotations, Note, text)
          \/ \E key : copy'.object.annotations = Drop(copy.object.annotations, key)
      BY <1>7, <2>1, EditedParts
    <3> DEFINE now == copy.object.annotations
               edited == copy'.object.annotations
    <3>2. \/ edited = now
          \/ \E text : edited = Put(now, Note, text)
          \/ \E key : edited = Drop(now, key)
      BY <3>1
    <3> HIDE DEF now, edited
    <3>3. AnnObservedGeneration \in DOMAIN edited =>
            /\ AnnObservedGeneration \in DOMAIN now
            /\ edited[AnnObservedGeneration] = now[AnnObservedGeneration]
      BY <2>3, <3>2
    <3> QED
      BY <3>3 DEF now, edited
  <2> QED
    BY <1>1, <2>1, <2>2, <2>4 DEF SeenInv, NotForged
<1>8. CASE ClientWrites
  <2>1. copy \in Copies /\ copy # NoCopy /\ copy' = NoCopy /\ base' = stored'
    BY <1>1, <1>8 DEF ClientWrites
  <2>2. CASE stored = base /\ Converts(copy.version, copy.object)
    <3> DEFINE new == ConvertTo(copy.version, copy.object)
    <3>1. /\ new \in V2 /\ new.generation = stored.generation
          /\ stored'.annotations = new.annotations
          /\ stored'.observedGeneration = new.observedGeneration
          /\ stored'.generation =
               IF new.spec = stored.spec THEN stored.generation ELSE stored.generation + 1
      BY <1>8, <2>2, WrittenParts
    <3>2. copy.object.generation = stored.generation
      BY <2>1, <2>2 DEF IInv, CopyFollows
    <3>3. NotForged(new)
      <4>1. CASE copy.version = "v1"
        <5>1. new = V1ToV2(copy.object) /\ V1Converts(copy.object)
          BY <2>2, <4>1 DEF ConvertTo, Converts
        <5>2. AnnObservedGeneration \notin DOMAIN new.annotations
          BY <5>1, InternalFacts DEF V1ToV2, WithoutInternal
        <5>3. new.observedGeneration <= copy.object.generation
          <6>1. stored.generation \in Nat
            BY <1>1 DEF V2, Generations
          <6> QED
            BY <2>1, <3>2, <4>1, <5>1, <6>1 DEF SeenInv, V1Converts, V1ToV2
        <5> QED
          BY <3>1, <3>2, <5>2, <5>3 DEF NotForged
      <4>2. CASE copy.version = "v2alpha1"
        BY <2>1, <4>2 DEF ConvertTo, V2alpha1ToV2, Identical, SeenInv, NotForged
      <4> QED
        BY <2>1, <4>1, <4>2, CopyFacts DEF Versions
    <3>4. stored.generation \in Nat /\ new.observedGeneration \in Nat
      BY <1>1, <3>1 DEF V2, Generations
    <3> HIDE DEF new
    <3>5. NotForged(stored)'
      BY <3>1, <3>3, <3>4 DEF NotForged
    <3> QED
      BY <2>1, <3>5 DEF SeenInv, NotForged
  <2>3. CASE UNCHANGED stored
    BY <1>1, <2>1, <2>3 DEF SeenInv, NotForged
  <2> QED
    BY <1>8, <2>2, <2>3 DEF ClientWrites
<1>9. CASE UNCHANGED vars
  BY <1>1, <1>2, <1>9 DEF vars, NotForged
<1> QED
  BY <1>3, <1>4, <1>5, <1>6, <1>7, <1>8, <1>9 DEF Next

(* As long as no user writes a number into the internal annotation, no     *)
(* change of the spec, by whomever, leaves an object that v1 calls ok.     *)
THEOREM NewSpecNotYetOKWhenHonest == ASSUME HonestUsers PROVE Spec => NewSpecNotYetOK
<1>1. ASSUME IInv, SeenInv, Next, stored'.generation # stored.generation
      PROVE  StatusV1(stored') # SubNamespaceOK
  <2>1. /\ stored.generation \in Nat /\ stored.observedGeneration \in Nat
        /\ stored.observedGeneration <= stored.generation
        /\ stored \in V2
    BY <1>1 DEF IInv, TypeOK, SeenInv, NotForged, V2, Generations
  <2>2. stored'.generation = stored.generation + 1
        /\ stored'.observedGeneration <= stored.generation
        /\ stored'.observedGeneration \in Nat
    <3>1. CASE UserEdits
      BY <1>1, <2>1, <3>1 DEF UserEdits, Respecified, V2
    <3>2. CASE ClientWrites
      <4> DEFINE new == ConvertTo(copy.version, copy.object)
      <4>1. stored = base /\ Converts(copy.version, copy.object)
        BY <1>1, <3>2 DEF ClientWrites
      <4>2. /\ new \in V2 /\ new.generation = stored.generation
            /\ stored'.observedGeneration = new.observedGeneration
            /\ stored'.generation =
                 IF new.spec = stored.spec THEN stored.generation ELSE stored.generation + 1
        BY <1>1, <3>2, <4>1, WrittenParts
      <4>3. copy \in Copies /\ copy # NoCopy /\ copy.object.generation = stored.generation
        BY <1>1, <3>2, <4>1 DEF ClientWrites, IInv, TypeOK, CopyFollows
      <4>4. new.observedGeneration <= stored.generation
        <5>1. CASE copy.version = "v1"
          BY <1>1, <2>1, <4>1, <4>3, <5>1
             DEF ConvertTo, Converts, SeenInv, V1Converts, V1ToV2
        <5>2. CASE copy.version = "v2alpha1"
          BY <1>1, <4>3, <5>2 DEF ConvertTo, V2alpha1ToV2, Identical, SeenInv, NotForged
        <5> QED
          BY <4>3, <5>1, <5>2, CopyFacts DEF Versions
      <4>5. new.observedGeneration \in Nat
        BY <4>2 DEF V2, Generations
      <4> HIDE DEF new
      <4> QED
        BY <1>1, <4>2, <4>4, <4>5
    <3>3. CASE Reconcile \/ \E type \in Types, status \in BOOLEAN : AddCondition(type, status)
      BY <1>1, <2>1, <3>3 DEF Reconcile, AddCondition, V2
    <3> QED
      BY <1>1, <3>1, <3>2, <3>3 DEF Next, ClientReads, ClientEdits
  <2>3. stored'.observedGeneration # stored'.generation
    BY <2>1, <2>2
  <2> QED
    BY <2>3 DEF StatusV1, SubNamespaceOK, SubNamespaceConflict
<1>2. IInv /\ SeenInv /\ [Next]_vars =>
        [stored'.generation # stored.generation => StatusV1(stored') # SubNamespaceOK]_vars
  BY <1>1
<1>3. IInv /\ SeenInv /\ [Next]_vars => SeenInv'
  BY StepSeen
<1>4. Init => SeenInv
  BY InitParts
<1> QED
  BY <1>2, <1>3, <1>4, InitInv, StepInv, PTL DEF Spec, NewSpecNotYetOK
=============================================================================
