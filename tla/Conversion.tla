------------------------------ MODULE Conversion ------------------------------
(***************************************************************************)
(* A SubNamespace is stored as v2, the hub, and may be read and written as *)
(* v1 or v2alpha1: api/accurate/v1/conversion.go and the generated         *)
(* functions around it.  v1 has one word of status; what it cannot say is  *)
(* put into two annotations of Accurate's own, as text.                    *)
(*                                                                         *)
(* The state machine is one object, the controller that reports on it, a   *)
(* user of v2, and a client of an older version that reads, edits and      *)
(* writes back.                                                            *)
(***************************************************************************)
EXTENDS PartialMaps, Naturals

CONSTANTS
  Specs,          \* the specs an object may have: the types differ only in name
  Types,          \* the types of conditions
  Note,           \* an annotation of users
  UserTexts,      \* what users write into annotations, the internal ones too
  MaxGeneration,  \* bound: how often the spec is changed
  NoCopy          \* the client has read nothing

Stalled == "Stalled"

(* What strconv and encoding/json write, and everything else.              *)
FormatInt(n) == [decimal |-> n]
Marshal(conditions) == [json |-> conditions]
IsInt(text) == DOMAIN text = {"decimal"}
IsConditions(text) == DOMAIN text = {"json"}

Generations == 0..MaxGeneration
Conditions == PartialMap(Types, BOOLEAN)
Texts == UserTexts \cup {FormatInt(n) : n \in Generations} \cup {Marshal(c) : c \in Conditions}

AnnObservedGeneration == "internal.accurate.cybozu.com/observed-generation"
AnnConditions == "internal.accurate.cybozu.com/conditions"
Internal == {AnnObservedGeneration, AnnConditions}
Annotations == PartialMap(Internal \cup {Note}, Texts)

ASSUME StalledAssumption == Stalled \in Types
ASSUME NoteAssumption == Note \notin Internal
ASSUME MaxGenerationAssumption == MaxGeneration \in Nat \ {0}
ASSUME UserTextsAssumption ==
  \A t \in UserTexts :
    (IsInt(t) => t.decimal \in Generations) /\ (IsConditions(t) => t.json \in Conditions)

SubNamespaceOK == "ok"
SubNamespaceConflict == "conflict"

V2 == [generation: Generations \ {0}, spec: Specs, annotations: Annotations,
       observedGeneration: Generations, conditions: Conditions]
V2alpha1 == V2
V1 == [generation: Generations \ {0}, spec: Specs, annotations: Annotations,
       status: {"", SubNamespaceOK, SubNamespaceConflict}]

(* What the client holds, and which parts of it have been edited.          *)
Parts == {"spec", "note", "internal"}
Copies ==
  [version: {"v1"}, object: V1, edited: SUBSET Parts]
    \cup [version: {"v2alpha1"}, object: V2alpha1, edited: SUBSET Parts]
Versions == {"v1", "v2alpha1"}

ASSUME NoCopyAssumption == NoCopy \notin Copies

-----------------------------------------------------------------------------
(* The conversions.  Those of v1 share the map of annotations with their   *)
(* source and write into it; the source is not looked at again.            *)

(* IsStatusConditionTrue.                                                  *)
IsStalled(conditions) == Stalled \in DOMAIN conditions /\ conditions[Stalled]

(* Mutant: the word of v2 for a conflict.                                  *)
StatusV1Capital(o) ==
  IF IsStalled(o.conditions) THEN "Conflict"
  ELSE IF /\ o.observedGeneration # 0
          /\ o.observedGeneration = o.generation
          /\ DOMAIN o.conditions = {}
  THEN SubNamespaceOK ELSE ""

(* Mutant: an older generation that went well is still ok.                 *)
StatusV1AnyGeneration(o) ==
  IF IsStalled(o.conditions) THEN SubNamespaceConflict
  ELSE IF o.observedGeneration # 0 /\ DOMAIN o.conditions = {}
  THEN SubNamespaceOK ELSE ""

StatusV1(o) ==
  IF IsStalled(o.conditions) THEN SubNamespaceConflict
  ELSE IF /\ o.observedGeneration # 0
          /\ o.observedGeneration = o.generation
          /\ DOMAIN o.conditions = {}
  THEN SubNamespaceOK ELSE ""

(* Mutant: what is there already is taken for what was said before.        *)
AnnotatedOnce(o) ==
  LET noted == IF o.observedGeneration = 0 \/ AnnObservedGeneration \in DOMAIN o.annotations
               THEN o.annotations
               ELSE Put(o.annotations, AnnObservedGeneration, FormatInt(o.observedGeneration))
  IN  IF DOMAIN o.conditions = {} \/ AnnConditions \in DOMAIN o.annotations THEN noted
      ELSE Put(noted, AnnConditions, Marshal(o.conditions))

(* What v1 has no field for.                                               *)
Annotated(o) ==
  LET noted == IF o.observedGeneration = 0 THEN o.annotations
               ELSE Put(o.annotations, AnnObservedGeneration, FormatInt(o.observedGeneration))
  IN  IF DOMAIN o.conditions = {} THEN noted
      ELSE Put(noted, AnnConditions, Marshal(o.conditions))

V2ToV1(o) ==
  [generation |-> o.generation, spec |-> o.spec,
   annotations |-> Annotated(o), status |-> StatusV1(o)]

(* Both annotations, where they are there, can be read.                    *)
V1Converts(o) ==
  /\ AnnObservedGeneration \in DOMAIN o.annotations =>
       IsInt(o.annotations[AnnObservedGeneration])
  /\ AnnConditions \in DOMAIN o.annotations => IsConditions(o.annotations[AnnConditions])

WithoutInternal(annotations) ==
  [key \in DOMAIN annotations \ Internal |-> annotations[key]]

(* Mutant: the annotations stay.                                           *)
V1ToV2Polluted(o) ==
  [generation |-> o.generation,
   spec |-> o.spec,
   annotations |-> o.annotations,
   observedGeneration |->
     IF AnnObservedGeneration \in DOMAIN o.annotations
     THEN o.annotations[AnnObservedGeneration].decimal ELSE 0,
   conditions |->
     IF AnnConditions \in DOMAIN o.annotations
     THEN o.annotations[AnnConditions].json ELSE [t \in {} |-> TRUE]]

(* The status of v1 is not looked at.                                      *)
V1ToV2(o) ==
  [generation |-> o.generation,
   spec |-> o.spec,
   annotations |-> WithoutInternal(o.annotations),
   observedGeneration |->
     IF AnnObservedGeneration \in DOMAIN o.annotations
     THEN o.annotations[AnnObservedGeneration].decimal ELSE 0,
   conditions |->
     IF AnnConditions \in DOMAIN o.annotations
     THEN o.annotations[AnnConditions].json ELSE [t \in {} |-> TRUE]]

Identical(o) ==
  [generation |-> o.generation, spec |-> o.spec, annotations |-> o.annotations,
   observedGeneration |-> o.observedGeneration, conditions |-> o.conditions]
V2alpha1ToV2(o) == Identical(o)
V2ToV2alpha1(o) == Identical(o)

(* ConvertFrom, ConvertTo, and whether the latter succeeds.                *)
ConvertFrom(version, o) == IF version = "v1" THEN V2ToV1(o) ELSE V2ToV2alpha1(o)
Converts(version, o) == version = "v1" => V1Converts(o)
ConvertTo(version, o) == IF version = "v1" THEN V1ToV2(o) ELSE V2alpha1ToV2(o)

-----------------------------------------------------------------------------

VARIABLES
  stored,  \* the object, as the API server has it
  copy,    \* what the client has read and edited, or NoCopy
  base     \* the object as it was when the client read it

vars == <<stored, copy, base>>

Init ==
  /\ stored \in [generation: {1}, spec: Specs, annotations: {[k \in {} |-> NoCopy]},
                 observedGeneration: {0}, conditions: {[t \in {} |-> TRUE]}]
  /\ copy = NoCopy
  /\ base = stored

(* reconcileNS reports on the generation it has seen, which may be old:    *)
(* a conflict is a condition, and goes when it is not applied any more.    *)
(* The conditions are a map by type, and those of others stay.             *)
Reconcile ==
  /\ \E seen \in 1..stored.generation, conflict \in BOOLEAN :
       stored' = [stored EXCEPT
                    !.observedGeneration = seen,
                    !.conditions = IF conflict THEN Put(@, Stalled, TRUE)
                                   ELSE Drop(@, Stalled)]
  /\ UNCHANGED <<copy, base>>

(* Another controller adds a condition of its own.                         *)
AddCondition(type, status) ==
  /\ type # Stalled
  /\ stored' = [stored EXCEPT !.conditions = Put(@, type, status)]
  /\ UNCHANGED <<copy, base>>

(* The API server counts the specs.                                        *)
Respecified(o, spec) ==
  IF spec = o.spec THEN o ELSE [o EXCEPT !.spec = spec, !.generation = @ + 1]

UserEdits ==
  /\ \/ /\ stored.generation < MaxGeneration
        /\ \E spec \in Specs : stored' = Respecified(stored, spec)
     \/ \E key \in Internal \cup {Note}, text \in UserTexts :
          stored' = [stored EXCEPT !.annotations = Put(@, key, text)]
  /\ UNCHANGED <<copy, base>>

ClientReads(version) ==
  /\ copy = NoCopy
  /\ copy' = [version |-> version, object |-> ConvertFrom(version, stored), edited |-> {}]
  /\ base' = stored
  /\ UNCHANGED stored

ClientEdits ==
  /\ copy # NoCopy
  /\ \/ /\ base.generation < MaxGeneration
        /\ \E spec \in Specs :
             copy' = [copy EXCEPT !.object.spec = spec, !.edited = @ \cup {"spec"}]
     \/ \E text \in UserTexts :
          copy' = [copy EXCEPT !.object.annotations = Put(@, Note, text),
                               !.edited = @ \cup {"note"}]
     \/ \E key \in Internal :
          copy' = [copy EXCEPT !.object.annotations = Drop(@, key),
                               !.edited = @ \cup {"internal"}]
  /\ UNCHANGED <<stored, base>>

(* The write is refused if the object has changed meanwhile or cannot be   *)
(* converted.                                                              *)
ClientWrites ==
  /\ copy # NoCopy
  /\ IF stored = base /\ Converts(copy.version, copy.object)
     THEN LET new == ConvertTo(copy.version, copy.object)
          IN  stored' = Respecified([new EXCEPT !.spec = stored.spec], new.spec)
     ELSE UNCHANGED stored
  /\ copy' = NoCopy
  /\ base' = stored'

Next ==
  \/ Reconcile
  \/ \E type \in Types, status \in BOOLEAN : AddCondition(type, status)
  \/ UserEdits
  \/ \E version \in Versions : ClientReads(version)
  \/ ClientEdits
  \/ ClientWrites

Spec == Init /\ [][Next]_vars

-----------------------------------------------------------------------------

(* Objects are what their version says they are.                           *)
TypeOK ==
  /\ stored \in V2 /\ base \in V2
  /\ copy \in Copies \cup {NoCopy}

Untouched == copy # NoCopy /\ copy.edited = {}

(* What users write into the internal annotations is in the way only where *)
(* the conversion has nothing of its own to put there.                     *)
NothingInTheWay(o) ==
  /\ AnnObservedGeneration \in DOMAIN o.annotations => o.observedGeneration # 0
  /\ AnnConditions \in DOMAIN o.annotations => DOMAIN o.conditions # {}

(* "To make sure conversions ... aren't lossy": what is read in an older   *)
(* version and written back is the object it was, with every condition,    *)
(* and without the internal annotations.                                   *)
RoundTrip ==
  Untouched /\ NothingInTheWay(base) =>
    /\ Converts(copy.version, copy.object)
    /\ LET back == ConvertTo(copy.version, copy.object)
       IN  /\ [back EXCEPT !.annotations = base.annotations] = base
           /\ back.annotations \in {base.annotations, WithoutInternal(base.annotations)}

(* The write of a client of an older version changes what the client has   *)
(* edited and nothing else, whatever the controller has reported and       *)
(* whoever has added conditions.                                           *)
EditsOnly ==
  [][copy # NoCopy /\ copy' = NoCopy /\ DOMAIN stored.annotations \cap Internal = {} =>
       /\ "spec" \notin copy.edited =>
            stored'.spec = stored.spec /\ stored'.generation = stored.generation
       /\ "note" \notin copy.edited => stored'.annotations = stored.annotations
       /\ "internal" \notin copy.edited =>
            /\ stored'.observedGeneration = stored.observedGeneration
            /\ stored'.conditions = stored.conditions]_vars

(* "If SubNamespace spec is updated, but not yet reconciled, status should *)
(* have zero-value": whoever changes the spec, in whichever version, no    *)
(* client of v1 reads ok until the controller has seen the new spec.       *)
NewSpecNotYetOK ==
  [][stored'.generation # stored.generation => StatusV1(stored') # SubNamespaceOK]_vars
=============================================================================
