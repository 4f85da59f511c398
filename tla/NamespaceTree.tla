---------------------------- MODULE NamespaceTree ----------------------------
(***************************************************************************)
(* The namespaces of a cluster whose API server asks the webhook of        *)
(* NamespaceHooks about every request.                                     *)
(*                                                                         *)
(* The webhook decides on what its cache holds.  The API server, external  *)
(* to this repository, stores an admitted request later and compares only  *)
(* the namespace written, never the others the decision rested on.  Both   *)
(* delays are the age of the view a request is decided on: at most MaxLag  *)
(* writes old.  With MaxLag = 0 requests are decided one at a time, on the *)
(* stored state.                                                           *)
(*                                                                         *)
(* The webhook leaves some bad requests to the good sense of whoever sends *)
(* them; Discipline names the ones that are never sent.                    *)
(***************************************************************************)
EXTENDS NamespaceHooks, Naturals

CONSTANTS
  Blanks,      \* the ways a label may be without a value: Absent, ""
  TypeValues,  \* the values the type label may be given
  MaxLag,      \* bound: how many writes old a view may be
  Discipline   \* which of the requests below are never sent

ASSUME BlanksAssumption == Absent \in Blanks /\ Blanks \subseteq {Absent, ""}
ASSUME TypeValuesAssumption == Absent \notin TypeValues
ASSUME MaxLagAssumption == MaxLag \in Nat
ASSUME DisciplineAssumption == Discipline \subseteq {"live", "template", "revert"}

VARIABLES
  api,   \* the namespaces stored by the API server
  past   \* past[i] is what api was i writes ago

vars == <<api, past>>

Labels ==
  [type: TypeValues \cup Blanks, parent: Names \cup Blanks, template: Names \cup Blanks]

Namespace ==
  [type: TypeValues \cup Blanks, parent: Names \cup Blanks,
   template: Names \cup Blanks, terminating: BOOLEAN]

(* A namespace with these labels.                                          *)
Labelled(labels, terminating) ==
  [type |-> labels.type, parent |-> labels.parent,
   template |-> labels.template, terminating |-> terminating]

Views == {api} \cup {past[i] : i \in 1..MaxLag}

Remember == past' = [i \in 1..MaxLag |-> IF i = 1 THEN api ELSE past[i - 1]]

-----------------------------------------------------------------------------

(* Requests that a careful administrator does not send:                    *)
(*   live      to hang a namespace below one that is being deleted         *)
(*   template  to name as a template what is not a template namespace      *)
(*   revert    to turn a sub-namespace into an instance in one step,       *)
(*             unless it becomes a root too                                *)
Disciplined(n, new) ==
  /\ "live" \in Discipline =>
       \A x \in {Parent(new), Template(new)} \cap DOMAIN api : ~api[x].terminating
  /\ "template" \in Discipline =>
       \A t \in {Template(new)} \cap DOMAIN api : Type(api[t]) = NSTypeTemplate
  /\ "revert" \in Discipline =>
       ~(/\ n \in DOMAIN api
         /\ Parent(api[n]) # "" /\ Parent(new) = ""
         /\ Template(new) # "" /\ Type(new) # NSTypeRoot)

Init ==
  /\ api = [n \in {} |-> Absent]
  /\ past = [i \in 1..MaxLag |-> api]

CreateNamespace(n, labels) ==
  LET new == Labelled(labels, FALSE)
  IN  /\ n \notin DOMAIN api
      /\ Disciplined(n, new)
      /\ \E view \in Views : HandleCreate(view, n, new)
      /\ api' = [x \in DOMAIN api \cup {n} |-> IF x = n THEN new ELSE api[x]]
      /\ Remember

UpdateLabels(n, labels) ==
  /\ n \in DOMAIN api
  /\ LET new == Labelled(labels, api[n].terminating)
     IN  /\ new # api[n]
         /\ Disciplined(n, new)
         /\ \E view \in Views : HandleUpdate(view, n, new, api[n])
         /\ api' = [api EXCEPT ![n] = new]
  /\ Remember

(* A deleted namespace terminates: Kubernetes empties it first.            *)
DeleteNamespace(n) ==
  /\ n \in DOMAIN api
  /\ ~api[n].terminating
  /\ \E view \in Views : HandleDelete(view, n, api[n])
  /\ api' = [api EXCEPT ![n] = Labelled(api[n], TRUE)]
  /\ Remember

(* Kubernetes has emptied the namespace and drops it; no webhook is asked. *)
FinalizeNamespace(n) ==
  /\ n \in DOMAIN api
  /\ api[n].terminating
  /\ api' = [x \in DOMAIN api \ {n} |-> api[x]]
  /\ Remember

Next ==
  \E n \in Names :
    \/ \E labels \in Labels : CreateNamespace(n, labels) \/ UpdateLabels(n, labels)
    \/ DeleteNamespace(n)
    \/ FinalizeNamespace(n)

Spec == Init /\ [][Next]_vars

-----------------------------------------------------------------------------

(* Every stored namespace is well formed, whatever view it was admitted    *)
(* on, and a sub-namespace carries no type and no template of its own      *)
(* ("Allowing a sub-namespace to set a template", "Marking a sub-namespace *)
(* as a root namespace").                                                  *)
TypeOK ==
  /\ DOMAIN api \subseteq Names
  /\ api \in [DOMAIN api -> Namespace]
  /\ \A n \in DOMAIN api :
       Parent(api[n]) # "" => api[n].type = Absent /\ api[n].template = Absent

(* No sub-namespace outlives its parent ("Dangling sub-namespaces").       *)
NoDanglingSub ==
  \A n \in DOMAIN api : Parent(api[n]) \in DOMAIN api \cup {""}

(* No instance outlives its template ("Dangling instance namespaces").     *)
NoDanglingInstance ==
  \A n \in DOMAIN api : Template(api[n]) \in DOMAIN api \cup {""}

(* No namespace is its own ancestor ("Circular references"): what the      *)
(* recursions in getRootNamespace and in the propagation rest on.          *)
Acyclic ==
  \A S \in (SUBSET DOMAIN api) \ {{}} : \E n \in S : GetParent(api[n]) \notin S

(* Whoever has sub-namespaces is a root or a sub-namespace itself          *)
(* ("Deleting type=root from root namespaces having sub-namespaces",       *)
(* "Changing a sub-namespace to a non-root when it has children").         *)
ParentsAreRootOrSub ==
  \A n \in DOMAIN api : \A p \in {Parent(api[n])} \cap DOMAIN api :
    Type(api[p]) = NSTypeRoot \/ Parent(api[p]) # ""

(* Whoever has instances is a template ("Deleting type=template from       *)
(* template namespaces having instances").                                 *)
TemplatesAreTemplates ==
  \A n \in DOMAIN api : \A t \in {Template(api[n])} \cap DOMAIN api :
    Type(api[t]) = NSTypeTemplate

(* Nothing hangs below a namespace that is being deleted: its end takes    *)
(* nobody else along.                                                      *)
NobodyBelowTerminating ==
  \A n \in DOMAIN api : \A p \in {Parent(api[n]), Template(api[n])} \cap DOMAIN api :
    ~api[p].terminating

(* A step never leaves a namespace that had and keeps sub-namespaces       *)
(* without the right to have them ("Changing a sub-namespace to a non-root *)
(* namespace when it has child sub-namespaces").                           *)
NoRevertWithChildren ==
  [][\A n \in DOMAIN api \cap DOMAIN api' :
       /\ Parent(api[n]) # "" /\ Parent(api'[n]) = "" /\ Type(api'[n]) # NSTypeRoot
       => ChildrenOf(api, n) = {}]_vars

(* The forest the labels draw, and the promise that it is one.             *)
Hierarchy ==
  INSTANCE Forest WITH NoParent <- "", up <- [n \in DOMAIN api |-> GetParent(api[n])]

(* Every step plants, moves or fells one namespace of a forest, or leaves  *)
(* the forest alone.                                                       *)
ImplementsForest == Hierarchy!Spec
=============================================================================
