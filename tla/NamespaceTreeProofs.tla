-------------------------- MODULE NamespaceTreeProofs --------------------------
(***************************************************************************)
(* What the webhook guarantees for any set of names, any label values, and *)
(* any length of history, and that the listings print, of every tree it    *)
(* lets happen, each namespace once.                                       *)
(***************************************************************************)
EXTENDS TreeCommands, FiniteSetTheorems, TLAPS

FP == INSTANCE ForestProofs
        WITH NoParent <- "", up <- [n \in DOMAIN api |-> GetParent(api[n])]

-----------------------------------------------------------------------------

(* An admitted object is well formed on its own, whatever the view was.    *)
LEMMA AdmittedIsWellFormed ==
  ASSUME NEW view, NEW n, NEW labels \in Labels, NEW t \in BOOLEAN,
         HandleCreate(view, n, Labelled(labels, t))
  PROVE  LET new == Labelled(labels, t)
         IN  /\ new \in Namespace
             /\ Parent(new) # "" => new.type = Absent /\ new.template = Absent
  BY DEF HandleCreate, Labelled, Labels, Namespace

LEMMA StepKeepsTypes ==
  ASSUME TypeOK, [Next]_vars
  PROVE  TypeOK'
<1> USE DEF TypeOK
<1>1. ASSUME NEW n \in Names, NEW labels \in Labels, CreateNamespace(n, labels)
      PROVE  TypeOK'
  <2> DEFINE new == Labelled(labels, FALSE)
  <2>1. /\ new \in Namespace
        /\ Parent(new) # "" => new.type = Absent /\ new.template = Absent
    BY <1>1, AdmittedIsWellFormed DEF CreateNamespace
  <2>2. api' = [x \in DOMAIN api \cup {n} |-> IF x = n THEN new ELSE api[x]]
    BY <1>1 DEF CreateNamespace
  <2> HIDE DEF new
  <2> QED BY <2>1, <2>2
<1>2. ASSUME NEW n \in Names, NEW labels \in Labels, UpdateLabels(n, labels)
      PROVE  TypeOK'
  <2> DEFINE new == Labelled(labels, api[n].terminating)
  <2>1. n \in DOMAIN api /\ api[n].terminating \in BOOLEAN
    BY <1>2 DEF UpdateLabels, Namespace
  <2>2. /\ new \in Namespace
        /\ Parent(new) # "" => new.type = Absent /\ new.template = Absent
    BY <1>2, <2>1, AdmittedIsWellFormed DEF UpdateLabels, HandleUpdate
  <2>3. api' = [api EXCEPT ![n] = new]
    BY <1>2 DEF UpdateLabels
  <2> HIDE DEF new
  <2> QED BY <2>1, <2>2, <2>3
<1>3. ASSUME NEW n \in Names, DeleteNamespace(n)
      PROVE  TypeOK'
  BY <1>3 DEF DeleteNamespace, Namespace, Parent, Labelled
<1>4. ASSUME NEW n \in Names, FinalizeNamespace(n)
      PROVE  TypeOK'
  BY <1>4 DEF FinalizeNamespace
<1>5. CASE UNCHANGED vars
  BY <1>5 DEF vars
<1> QED BY <1>1, <1>2, <1>3, <1>4, <1>5 DEF Next

(* Every stored namespace is well formed, and no sub-namespace has a type  *)
(* or a template, even when every decision rests on an old view and        *)
(* whatever requests are sent.                                             *)
THEOREM TypeCorrect == Spec => []TypeOK
<1>1. Init => TypeOK
  BY DEF Init, TypeOK
<1> QED BY <1>1, StepKeepsTypes, PTL DEF Spec

-----------------------------------------------------------------------------
(***************************************************************************)
(* From here on decisions rest on the stored state, cascading deletion is  *)
(* off, and requests are sent with care.  None of these conditions can go: *)
(* without any one of them TLC finds a circle, a namespace that dangles or *)
(* a dependant without support.                                            *)
(***************************************************************************)

Orderly ==
  /\ MaxLag = 0
  /\ Discipline = {"live", "template", "revert"}
  /\ AllowCascadingDeletion = FALSE

(* What a namespace refers to is there, plays its role and stays.          *)
Referenced ==
  /\ ParentsAreRootOrSub
  /\ TemplatesAreTemplates
  /\ NobodyBelowTerminating

(* The inductive invariant.  No part is inductive alone: deleting a        *)
(* namespace leaves nothing dangling because nothing hangs below what is   *)
(* terminating, the webhook guards a deletion by what the namespace is     *)
(* labelled, so that guard suffices only while the labels of whoever is    *)
(* referred to tell the truth, and a new namespace closes no cycle because *)
(* nobody refers to a name that is not there.                              *)
WellFormed ==
  /\ TypeOK
  /\ NoDanglingSub
  /\ NoDanglingInstance
  /\ Acyclic
  /\ Referenced

LEMMA FreshView == ASSUME Orderly PROVE Views = {api}
<1>1. MaxLag = 0
  BY DEF Orderly
<1>2. 1..MaxLag = {}
  BY <1>1
<1> QED BY <1>2 DEF Views

(* The two ways to read the labels: as a forest, and name by name.         *)
LEMMA ForestReading ==
  TypeOK => (FP!AlwaysForest <=> NoDanglingSub /\ NoDanglingInstance /\ Acyclic)
<1> SUFFICES ASSUME TypeOK
             PROVE  FP!AlwaysForest <=> NoDanglingSub /\ NoDanglingInstance /\ Acyclic
  OBVIOUS
<1> DEFINE up == [n \in DOMAIN api |-> GetParent(api[n])]
<1>1. FP!ClosedUpward(DOMAIN up, up) <=> NoDanglingSub /\ NoDanglingInstance
  BY DEF FP!ClosedUpward, NoDanglingSub, NoDanglingInstance, GetParent, TypeOK,
         Parent, Template, Value
<1>2. (\A S \in SUBSET DOMAIN up : ~FP!HoldsCycle(S, up)) <=> Acyclic
  BY DEF FP!HoldsCycle, Acyclic
<1>3. DOMAIN up \subseteq Names /\ up \in [DOMAIN up -> Names \cup {""}]
  BY BlanksAssumption DEF TypeOK, Namespace, GetParent, Parent, Template, Value
<1> QED BY <1>1, <1>2, <1>3 DEF FP!AlwaysForest, FP!IsForest

-----------------------------------------------------------------------------

(* What the object new of the namespace n refers to is there, is not n, is *)
(* alive and has the right role.                                           *)
GoodTargets(n, new) ==
  /\ \A p \in {Parent(new)} \ {""} :
       /\ p \in DOMAIN api /\ p # n
       /\ ~api[p].terminating
       /\ Type(api[p]) = NSTypeRoot \/ Parent(api[p]) # ""
  /\ \A t \in {Template(new)} \ {""} :
       /\ t \in DOMAIN api /\ t # n
       /\ ~api[t].terminating
       /\ Type(api[t]) = NSTypeTemplate

(* All that is admitted has such targets.                                  *)
LEMMA AdmittedTargets ==
  ASSUME Orderly, NEW n, NEW new, Disciplined(n, new), HandleCreate(api, n, new)
  PROVE  GoodTargets(n, new)
  BY DEF GoodTargets, Orderly, Disciplined, HandleCreate, CheckParent

(* An update leaves a namespace in the role others refer to it in.         *)
LEMMA UpdateKeepsRole ==
  ASSUME Orderly, WellFormed, NEW n \in DOMAIN api, NEW new,
         Disciplined(n, new), HandleUpdate(api, n, new, api[n])
  PROVE  /\ ChildrenOf(api, n) # {} => Type(new) = NSTypeRoot \/ Parent(new) # ""
         /\ InstancesOf(api, n) # {} => Type(new) = NSTypeTemplate
<1>1. ASSUME ChildrenOf(api, n) # {}, Parent(new) = ""
      PROVE  Type(new) = NSTypeRoot
  <2>1. Type(api[n]) = NSTypeRoot \/ Parent(api[n]) # ""
    BY <1>1, NamesAssumption
       DEF ChildrenOf, WellFormed, Referenced, ParentsAreRootOrSub, TypeOK
  <2>2. Type(api[n]) = NSTypeRoot => Type(new) = NSTypeRoot
    BY <1>1 DEF HandleUpdate
  <2>3. Parent(api[n]) # "" => Type(new) = NSTypeRoot
    BY <1>1 DEF HandleUpdate, Orderly, Disciplined, GetParent
  <2> QED BY <2>1, <2>2, <2>3
<1>2. ASSUME InstancesOf(api, n) # {}
      PROVE  Type(new) = NSTypeTemplate
  BY <1>2 DEF InstancesOf, WellFormed, Referenced, TemplatesAreTemplates, HandleUpdate
<1> QED BY <1>1, <1>2

(* Whoever may be deleted is referred to by nobody.                        *)
LEMMA DeletedIsUnreferenced ==
  ASSUME Orderly, WellFormed, NEW n \in DOMAIN api, HandleDelete(api, n, api[n])
  PROVE  ChildrenOf(api, n) = {} /\ InstancesOf(api, n) = {}
<1>1. ASSUME NEW x \in DOMAIN api, Parent(api[x]) = n
      PROVE  FALSE
  <2>1. Type(api[n]) = NSTypeRoot \/ Parent(api[n]) # ""
    BY <1>1 DEF WellFormed, Referenced, ParentsAreRootOrSub
  <2>2. Parent(api[n]) # "" => Type(api[n]) = ""
    BY DEF WellFormed, TypeOK, Type, Value
  <2> QED BY <1>1, <2>1, <2>2
          DEF HandleDelete, Orderly, ChildrenOf, NSTypeRoot, NSTypeTemplate
<1>2. ASSUME NEW x \in DOMAIN api, Template(api[x]) = n
      PROVE  FALSE
  <2>1. Type(api[n]) = NSTypeTemplate
    BY <1>2 DEF WellFormed, Referenced, TemplatesAreTemplates
  <2> QED BY <1>2, <2>1
          DEF HandleDelete, InstancesOf, NSTypeRoot, NSTypeTemplate
<1> QED BY <1>1, <1>2 DEF ChildrenOf, InstancesOf

-----------------------------------------------------------------------------

(* Every step plants, moves or fells a namespace, or changes no place.     *)
LEMMA StepImplementsForest ==
  ASSUME Orderly, WellFormed, [Next]_vars
  PROVE  [FP!Next]_[n \in DOMAIN api |-> GetParent(api[n])]
<1> DEFINE up == [n \in DOMAIN api |-> GetParent(api[n])]
<1>0. TypeOK /\ TypeOK'
  BY StepKeepsTypes DEF WellFormed
<1>1. ASSUME NEW n \in Names, NEW labels \in Labels, CreateNamespace(n, labels)
      PROVE  FP!Plant(n, GetParent(api'[n]))
  <2> DEFINE new == Labelled(labels, FALSE)
  <2>1. /\ HandleCreate(api, n, new) /\ Disciplined(n, new) /\ n \notin DOMAIN api
        /\ api' = [x \in DOMAIN api \cup {n} |-> IF x = n THEN new ELSE api[x]]
    BY <1>1, FreshView DEF CreateNamespace
  <2> HIDE DEF new
  <2>2. GetParent(new) \in DOMAIN api \cup {""}
    <3>1. GoodTargets(n, new)
      BY <2>1, AdmittedTargets
    <3> QED BY <3>1 DEF GoodTargets, GetParent
  <2> QED BY <2>1, <2>2 DEF FP!Plant
<1>2. ASSUME NEW n \in Names, NEW labels \in Labels, UpdateLabels(n, labels)
      PROVE  FP!Move(n, GetParent(api'[n]))
  <2> DEFINE new == Labelled(labels, api[n].terminating)
  <2>1. /\ HandleUpdate(api, n, new, api[n]) /\ n \in DOMAIN api
        /\ api' = [api EXCEPT ![n] = new]
    BY <1>2, FreshView DEF UpdateLabels
  <2> HIDE DEF new
  <2>2. api'[n] = new /\ up' = [up EXCEPT ![n] = GetParent(new)]
    BY <2>1, <1>0 DEF TypeOK
  <2>3. FP!ClearOf(n, GetParent(new))
    <3> SUFFICES ASSUME GetParent(new) # ""
                 PROVE  \E above \in SUBSET (DOMAIN up \ {n}) :
                          GetParent(new) \in above /\ FP!ClosedUpward(above, up)
      BY DEF FP!ClearOf
    <3>1. PICK m \in SUBSET (DOMAIN api \ {n}) :
            /\ GetParent(new) \in m
            /\ \A x \in m : GetParent(api[x]) \in m \cup {""}
      BY <2>1 DEF HandleUpdate, WalksToTop
    <3>2. FP!ClosedUpward(m, up)
      BY <3>1 DEF FP!ClosedUpward
    <3> QED BY <3>1, <3>2
  <2> QED BY <2>1, <2>2, <2>3 DEF FP!Move
<1>3. ASSUME NEW n \in Names, DeleteNamespace(n)
      PROVE  UNCHANGED up
  <2>1. api' = [api EXCEPT ![n] = Labelled(api[n], TRUE)]
    BY <1>3 DEF DeleteNamespace
  <2>2. DOMAIN api' = DOMAIN api /\ \A x \in DOMAIN api : GetParent(api'[x]) = GetParent(api[x])
    BY <2>1, <1>0 DEF TypeOK, Labelled, GetParent, Parent, Template
  <2> QED BY <2>2
<1>4. ASSUME NEW n \in Names, FinalizeNamespace(n)
      PROVE  FP!Fell(n)
  <2>1. \A x \in DOMAIN api : GetParent(api[x]) # n
    BY <1>4 DEF FinalizeNamespace, WellFormed, Referenced, NobodyBelowTerminating, GetParent
  <2> QED BY <1>4, <2>1 DEF FinalizeNamespace, FP!Fell
<1>5. CASE UNCHANGED vars
  BY <1>5 DEF vars
<1>6. ASSUME NEW n \in Names
      PROVE  GetParent(api'[n]) \in Names \cup {""} \/ n \notin DOMAIN api'
  BY <1>0, BlanksAssumption DEF TypeOK, Namespace, GetParent, Parent, Template, Value
<1>7. ASSUME Next PROVE FP!Next \/ UNCHANGED up
  <2>1. ASSUME NEW n \in Names, NEW labels \in Labels, CreateNamespace(n, labels)
        PROVE  FP!Next
    <3>1. n \in DOMAIN api'
      BY <2>1 DEF CreateNamespace
    <3> QED BY <2>1, <3>1, <1>1, <1>6 DEF FP!Next
  <2>2. ASSUME NEW n \in Names, NEW labels \in Labels, UpdateLabels(n, labels)
        PROVE  FP!Next
    <3>1. n \in DOMAIN api'
      BY <2>2, <1>0 DEF UpdateLabels, TypeOK
    <3> QED BY <2>2, <3>1, <1>2, <1>6 DEF FP!Next
  <2>3. ASSUME NEW n \in Names, FinalizeNamespace(n)
        PROVE  FP!Next
    BY <2>3, <1>4 DEF FP!Next
  <2> QED BY <1>7, <2>1, <2>2, <2>3, <1>3 DEF Next
<1> QED BY <1>5, <1>7

(* Every step leaves what is referred to there, in its role and alive.     *)
LEMMA StepKeepsReferenced ==
  ASSUME Orderly, WellFormed, [Next]_vars
  PROVE  Referenced'
<1> USE DEF Referenced, ParentsAreRootOrSub, TemplatesAreTemplates, NobodyBelowTerminating
<1>0. TypeOK /\ Referenced
  BY DEF WellFormed
<1>1. ASSUME NEW n \in Names, NEW labels \in Labels, CreateNamespace(n, labels)
      PROVE  Referenced'
  <2> DEFINE new == Labelled(labels, FALSE)
  <2>1. /\ HandleCreate(api, n, new) /\ Disciplined(n, new) /\ n \notin DOMAIN api
        /\ api' = [x \in DOMAIN api \cup {n} |-> IF x = n THEN new ELSE api[x]]
    BY <1>1, FreshView DEF CreateNamespace
  <2> HIDE DEF new
  <2>2. \A x \in DOMAIN api : Parent(api[x]) # n /\ Template(api[x]) # n
    BY <2>1, <1>1, NamesAssumption DEF WellFormed, NoDanglingSub, NoDanglingInstance
  <2>3. /\ DOMAIN api' = DOMAIN api \cup {n} /\ api'[n] = new
        /\ \A x \in DOMAIN api : api'[x] = api[x]
        /\ "" \notin DOMAIN api'
    BY <2>1, <1>0, NamesAssumption DEF TypeOK
  <2>4. GoodTargets(n, new)
    BY <2>1, AdmittedTargets
  <2>5. ParentsAreRootOrSub'
    BY <2>2, <2>3, <2>4, <1>0 DEF GoodTargets
  <2>6. TemplatesAreTemplates'
    BY <2>2, <2>3, <2>4, <1>0 DEF GoodTargets
  <2>7. NobodyBelowTerminating'
    <3> SUFFICES ASSUME NEW x \in DOMAIN api', NEW p \in DOMAIN api',
                        p = Parent(api'[x]) \/ p = Template(api'[x])
                 PROVE  ~api'[p].terminating
      OBVIOUS
    <3>1. p # ""
      BY <2>3
    <3>2. CASE x = n
      BY <2>3, <2>4, <3>1, <3>2 DEF GoodTargets
    <3>3. CASE x # n
      BY <2>2, <2>3, <3>3, <1>0
    <3> QED BY <3>2, <3>3
  <2> QED BY <2>5, <2>6, <2>7
<1>2. ASSUME NEW n \in Names, NEW labels \in Labels, UpdateLabels(n, labels)
      PROVE  Referenced'
  <2> DEFINE new == Labelled(labels, api[n].terminating)
  <2>1. /\ HandleUpdate(api, n, new, api[n]) /\ Disciplined(n, new) /\ n \in DOMAIN api
        /\ api' = [api EXCEPT ![n] = new]
        /\ new.terminating = api[n].terminating
    BY <1>2, FreshView DEF UpdateLabels, Labelled
  <2> HIDE DEF new
  <2>2. HandleCreate(api, n, new)
    BY <2>1 DEF HandleUpdate
  <2>3. /\ DOMAIN api' = DOMAIN api /\ api'[n] = new
        /\ \A x \in DOMAIN api \ {n} : api'[x] = api[x]
        /\ "" \notin DOMAIN api
    BY <2>1, <1>0, NamesAssumption DEF TypeOK
  <2>4. GoodTargets(n, new)
    BY <2>1, <2>2, AdmittedTargets
  <2>5. ParentsAreRootOrSub'
    <3>1. \A x \in DOMAIN api : Parent(api[x]) = n => Type(new) = NSTypeRoot \/ Parent(new) # ""
      BY <2>1, UpdateKeepsRole DEF ChildrenOf
    <3> QED BY <2>3, <2>4, <3>1, <1>0 DEF GoodTargets
  <2>6. TemplatesAreTemplates'
    <3>1. \A x \in DOMAIN api : Template(api[x]) = n => Type(new) = NSTypeTemplate
      BY <2>1, UpdateKeepsRole DEF InstancesOf
    <3> QED BY <2>3, <2>4, <3>1, <1>0 DEF GoodTargets
  <2>7. NobodyBelowTerminating'
    <3> SUFFICES ASSUME NEW x \in DOMAIN api', NEW p \in DOMAIN api',
                        p = Parent(api'[x]) \/ p = Template(api'[x])
                 PROVE  ~api'[p].terminating
      OBVIOUS
    <3>1. p # ""
      BY <2>3
    <3>2. CASE x = n
      BY <2>3, <2>4, <3>1, <3>2 DEF GoodTargets
    <3>3. CASE x # n
      BY <2>1, <2>3, <3>3, <1>0
    <3> QED BY <3>2, <3>3
  <2> QED BY <2>5, <2>6, <2>7
<1>3. ASSUME NEW n \in Names, DeleteNamespace(n)
      PROVE  Referenced'
  <2>1. /\ HandleDelete(api, n, api[n]) /\ n \in DOMAIN api
        /\ api' = [api EXCEPT ![n] = Labelled(api[n], TRUE)]
    BY <1>3, FreshView DEF DeleteNamespace
  <2>2. ChildrenOf(api, n) = {} /\ InstancesOf(api, n) = {}
    BY <2>1, DeletedIsUnreferenced
  <2>3. /\ DOMAIN api' = DOMAIN api
        /\ \A x \in DOMAIN api :
             /\ Type(api'[x]) = Type(api[x])
             /\ Parent(api'[x]) = Parent(api[x])
             /\ Template(api'[x]) = Template(api[x])
             /\ x # n => api'[x].terminating = api[x].terminating
    BY <2>1 DEF Labelled, Type, Parent, Template
  <2> QED BY <2>2, <2>3, <1>0 DEF ChildrenOf, InstancesOf
<1>4. ASSUME NEW n \in Names, FinalizeNamespace(n)
      PROVE  Referenced'
  BY <1>4, <1>0 DEF FinalizeNamespace
<1>5. CASE UNCHANGED vars
  BY <1>5, <1>0 DEF vars
<1> QED BY <1>1, <1>2, <1>3, <1>4, <1>5 DEF Next

(* The webhook keeps every promise of its comment, in every reachable      *)
(* state, however many namespaces there are.                               *)
THEOREM AlwaysWellFormed == ASSUME Orderly PROVE Spec => []WellFormed
<1>1. Init => WellFormed
  BY DEF Init, WellFormed, TypeOK, NoDanglingSub, NoDanglingInstance, Acyclic,
         Referenced, ParentsAreRootOrSub, TemplatesAreTemplates, NobodyBelowTerminating
<1>3. WellFormed /\ [Next]_vars => WellFormed'
  <2> SUFFICES ASSUME WellFormed, [Next]_vars PROVE WellFormed'
    OBVIOUS
  <2>1. TypeOK' /\ Referenced'
    BY StepKeepsTypes, StepKeepsReferenced DEF WellFormed
  <2>2. FP!AlwaysForest
    BY ForestReading DEF WellFormed
  <2>3. FP!AlwaysForest'
    BY <2>2, StepImplementsForest, FP!StepKeepsForest, NamesAssumption
  <2>4. (TypeOK => (FP!AlwaysForest <=> NoDanglingSub /\ NoDanglingInstance /\ Acyclic))'
    BY ForestReading, PTL
  <2> QED BY <2>1, <2>3, <2>4 DEF WellFormed
<1> QED BY <1>1, <1>3, PTL DEF Spec

(* No namespace is its own ancestor and none hangs below a name that is    *)
(* not there: the walks up the labels end, at a namespace that is there.   *)
THEOREM NoCircleNothingDangles ==
  ASSUME Orderly PROVE Spec => [](Acyclic /\ NoDanglingSub /\ NoDanglingInstance)
  BY AlwaysWellFormed, PTL DEF WellFormed

(* Whoever has sub-namespaces or instances has the right to have them, and *)
(* is not being deleted.                                                   *)
THEOREM DependantsKeepTheirSupport ==
  ASSUME Orderly
  PROVE  Spec => [](ParentsAreRootOrSub /\ TemplatesAreTemplates /\ NobodyBelowTerminating)
<1>1. WellFormed => ParentsAreRootOrSub /\ TemplatesAreTemplates /\ NobodyBelowTerminating
  BY DEF WellFormed, Referenced
<1> QED BY <1>1, AlwaysWellFormed, PTL

(* Seen from far enough, the labels of the namespaces are a forest that is *)
(* only ever planted, moved within and felled.                             *)
THEOREM TreeImplementsForest == ASSUME Orderly PROVE Spec => ImplementsForest
<1> DEFINE up == [n \in DOMAIN api |-> GetParent(api[n])]
<1>1. Init => Hierarchy!Init
  BY DEF Init, Hierarchy!Init
<1>2. WellFormed /\ [Next]_vars => [Hierarchy!Next]_up
  <2>1. FP!Next => Hierarchy!Next
    BY DEF FP!Next, FP!Plant, FP!Move, FP!Fell, FP!ClearOf, FP!ClosedUpward,
           Hierarchy!Next, Hierarchy!Plant, Hierarchy!Move, Hierarchy!Fell,
           Hierarchy!ClearOf, Hierarchy!ClosedUpward
  <2> QED BY <2>1, StepImplementsForest
<1>3. Spec => []WellFormed
  BY AlwaysWellFormed
<1> QED BY <1>1, <1>2, <1>3, PTL DEF Spec, ImplementsForest, Hierarchy!Spec

-----------------------------------------------------------------------------
(* The commands of kubectl-accurate that label namespaces send no request  *)
(* that other users could not send: what holds of the tree of namespaces   *)
(* goes on holding.                                                        *)

(* Labels that differ from those of a namespace in one place.              *)
LEMMA UpdateIsRequest ==
  ASSUME TypeOK, NEW n \in Names, n \in DOMAIN api,
         NEW labels, UpdateLabels(n, labels),
         [type |-> labels.type, parent |-> labels.parent, template |-> labels.template] \in Labels
  PROVE  Next
<1> DEFINE new == [type |-> labels.type, parent |-> labels.parent, template |-> labels.template]
<1>1. Labelled(new, api[n].terminating) = Labelled(labels, api[n].terminating)
  BY DEF Labelled
<1> HIDE DEF new
<1>2. UpdateLabels(n, new)
  BY <1>1 DEF UpdateLabels
<1>3. new \in Labels
  BY DEF new
<1> QED BY <1>2, <1>3 DEF Next

LEMMA CommandIsRequest ==
  ASSUME TypeOK, [CommandNext]_vars
  PROVE  [Next]_vars
<1>0. \A n \in DOMAIN api : api[n] \in Namespace
  BY DEF TypeOK
<1>1. ASSUME NEW n \in Names, NEW type \in {NSTypeRoot, NSTypeTemplate, Absent}, SetType(n, type)
      PROVE  Next
  <2> DEFINE labels == [api[n] EXCEPT !.type = type]
  <2>1. /\ labels.type = type /\ labels.parent = api[n].parent
        /\ labels.template = api[n].template
    BY <1>0, <1>1 DEF SetType, Namespace
  <2>2. [type |-> labels.type, parent |-> labels.parent, template |-> labels.template] \in Labels
    BY <1>0, <1>1, <2>1, CommandTypesAssumption, BlanksAssumption DEF SetType, Namespace, Labels
  <2> HIDE DEF labels
  <2>3. n \in DOMAIN api /\ UpdateLabels(n, labels)
    BY <1>1 DEF SetType, labels
  <2> QED BY <2>2, <2>3, UpdateIsRequest
<1>2. ASSUME NEW n \in Names, NEW template \in Names \cup {Absent}, n \in DOMAIN api,
             UpdateLabels(n, [api[n] EXCEPT !.template = template])
      PROVE  Next
  <2> DEFINE labels == [api[n] EXCEPT !.template = template]
  <2>1. /\ labels.type = api[n].type /\ labels.parent = api[n].parent
        /\ labels.template = template
    BY <1>0, <1>2 DEF Namespace
  <2>2. [type |-> labels.type, parent |-> labels.parent, template |-> labels.template] \in Labels
    BY <1>0, <1>2, <2>1, BlanksAssumption DEF Namespace, Labels
  <2> HIDE DEF labels
  <2>3. UpdateLabels(n, labels)
    BY <1>2 DEF labels
  <2> QED BY <1>2, <2>2, <2>3, UpdateIsRequest
<1> QED BY <1>1, <1>2 DEF CommandNext, TemplateSet, TemplateUnset

(* Every behaviour with commands is one without: set-type, template set    *)
(* and template unset are no way around what the webhook guarantees.       *)
THEOREM CommandsAreRequests == CommandSpec => Spec
<1>1. Init => TypeOK
  BY DEF Init, TypeOK
<1>2. TypeOK /\ [CommandNext]_vars => TypeOK' /\ [Next]_vars
  BY CommandIsRequest, StepKeepsTypes
<1> QED BY <1>1, <1>2, PTL DEF CommandSpec, Spec

(* Under the conditions of AlwaysWellFormed commands leave every promise   *)
(* of the webhook kept, and the labels a forest.                           *)
THEOREM CommandsKeepForest ==
  ASSUME Orderly PROVE CommandSpec => []WellFormed /\ ImplementsForest
  BY CommandsAreRequests, AlwaysWellFormed, TreeImplementsForest, PTL

-----------------------------------------------------------------------------
(***************************************************************************)
(* What list and template list print.  First of any tops and children: the *)
(* recursion has one solution, the paths; where tops and children are trees*)
(* there is one path to everyone in them, and none is longer than there    *)
(* are names.  Then of the labels, which are such trees.                   *)
(***************************************************************************)

(* A set of natural numbers has a least element.                           *)
LEMMA LeastNat ==
  ASSUME NEW S \in SUBSET Nat, S # {}
  PROVE  \E m \in S : \A k \in S : m <= k
<1> DEFINE R == OpToRel(<, Nat)
<1>1. IsWellFoundedOn(R, Nat)
  BY NatLessThanWellFounded
<1>2. \A x, y \in Nat : <<x, y>> \notin R => y <= x
  BY DEF OpToRel
<1> HIDE DEF R
<1>3. PICK m \in S : \A k \in S : <<k, m>> \notin R
  BY <1>1, WFMin
<1>4. \A k \in S : m <= k
  BY <1>2, <1>3
<1> QED
  BY <1>4

(* The paths of i steps down from the tops.                                *)
Paths(i, tops, childMap) ==
  {s \in Seq(Names) : Len(s) = i + 1 /\ s[1] \in tops /\ \A j \in 1..i : s[j + 1] \in childMap[s[j]]}

(* The equation the recursion of Lines solves.                             *)
Deeper(depth, tops, childMap) ==
  [i \in Nat |->
     IF i = 0 THEN {<<n>> : n \in tops}
     ELSE UNION {{Append(line, c) : c \in childMap[line[i]]} : line \in depth[i - 1]}]

(* A path grows by a child of its end...                                   *)
LEMMA PathExtends ==
  ASSUME NEW tops, NEW childMap \in [Names -> SUBSET Names], NEW i \in Nat,
         NEW line \in Paths(i, tops, childMap), NEW c \in childMap[line[i + 1]]
  PROVE  Append(line, c) \in Paths(i + 1, tops, childMap) /\ Append(line, c)[(i + 1) + 1] = c
<1> DEFINE s == Append(line, c)
<1>1. line \in Seq(Names) /\ Len(line) = i + 1 /\ line[i + 1] \in Names /\ line[1] \in tops
  BY DEF Paths
<1>2. c \in Names
  BY <1>1
<1>3. s \in Seq(Names) /\ Len(s) = (i + 1) + 1
  BY <1>1, <1>2
<1>4. (\A j \in 1..(i + 1) : s[j] = line[j]) /\ s[(i + 1) + 1] = c
  BY <1>1
<1> HIDE DEF s
<1>5. ASSUME NEW j \in 1..(i + 1) PROVE s[j + 1] \in childMap[s[j]]
  <2>1. CASE j = i + 1
    BY <1>4, <2>1
  <2>2. CASE j # i + 1
    <3>1. j + 1 \in 1..(i + 1) /\ j \in 1..i
      BY <2>2
    <3> QED
      BY <1>4, <3>1 DEF Paths
  <2> QED
    BY <2>1, <2>2
<1>6. s[1] = line[1]
  BY <1>4
<1>7. s \in Paths(i + 1, tops, childMap)
  BY <1>1, <1>3, <1>5, <1>6 DEF Paths
<1> QED
  BY <1>4, <1>7 DEF s

(* ... and every path but the shortest has grown.                          *)
LEMMA PathShortens ==
  ASSUME NEW tops, NEW childMap, NEW i \in Nat, i # 0, NEW s \in Paths(i, tops, childMap)
  PROVE  \E line \in Paths(i - 1, tops, childMap) :
           s[i + 1] \in childMap[line[i]] /\ s = Append(line, s[i + 1])
<1> DEFINE line == SubSeq(s, 1, i)
<1>1. s \in Seq(Names) /\ Len(s) = i + 1
  BY DEF Paths
<1>2. line \in Seq(Names) /\ Len(line) = i /\ \A j \in 1..i : line[j] = s[j]
  BY <1>1
<1>3. s = Append(line, s[i + 1])
  BY <1>1, <1>2
<1> HIDE DEF line
<1>4. line \in Paths(i - 1, tops, childMap) /\ s[i + 1] \in childMap[line[i]]
  BY <1>2 DEF Paths
<1> QED
  BY <1>3, <1>4

LEMMA PathsGrow ==
  ASSUME NEW tops \in SUBSET Names, NEW childMap \in [Names -> SUBSET Names]
  PROVE  LET paths == [i \in Nat |-> Paths(i, tops, childMap)]
         IN  paths = Deeper(paths, tops, childMap)
<1> DEFINE paths == [i \in Nat |-> Paths(i, tops, childMap)]
           longer(i) ==
             UNION {{Append(line, c) : c \in childMap[line[i]]} : line \in paths[i - 1]}
<1>1. paths[0] = {<<n>> : n \in tops}
  <2>1. paths[0] = Paths(0, tops, childMap)
    OBVIOUS
  <2>2. ASSUME NEW n \in tops PROVE <<n>> \in Paths(0, tops, childMap)
    BY DEF Paths
  <2>3. ASSUME NEW s \in Paths(0, tops, childMap) PROVE s[1] \in tops /\ s = <<s[1]>>
    <3>1. s \in Seq(Names) /\ Len(s) = 1 /\ s[1] \in tops
      BY DEF Paths
    <3> QED
      BY <3>1
  <2> QED
    BY <2>1, <2>2, <2>3
<1>2. ASSUME NEW i \in Nat, i # 0 PROVE paths[i] = longer(i)
  <2>1. i - 1 \in Nat /\ paths[i - 1] = Paths(i - 1, tops, childMap) /\ paths[i] = Paths(i, tops, childMap)
    BY <1>2
  <2> HIDE DEF paths
  <2>2. ASSUME NEW line \in Paths(i - 1, tops, childMap), NEW c \in childMap[line[i]]
        PROVE  Append(line, c) \in Paths(i, tops, childMap)
    <3>1. (i - 1) + 1 = i
      OBVIOUS
    <3> QED
      BY <2>1, <3>1, PathExtends
  <2>3. ASSUME NEW s \in Paths(i, tops, childMap)
        PROVE  \E line \in Paths(i - 1, tops, childMap) :
                 \E c \in childMap[line[i]] : s = Append(line, c)
    BY <1>2, PathShortens
  <2>4. \A s : s \in longer(i) <=> \E line \in paths[i - 1] :
                 \E c \in childMap[line[i]] : s = Append(line, c)
    OBVIOUS
  <2> HIDE DEF longer
  <2>5. ASSUME NEW s, s \in longer(i) PROVE s \in paths[i]
    <3>1. PICK line \in Paths(i - 1, tops, childMap) : \E c \in childMap[line[i]] : s = Append(line, c)
      BY <2>1, <2>4, <2>5
    <3> QED
      BY <2>1, <2>2, <3>1
  <2>6. ASSUME NEW s, s \in paths[i] PROVE s \in longer(i)
    BY <2>1, <2>3, <2>4, <2>6
  <2> QED
    BY <2>5, <2>6
<1> HIDE DEF paths
<1>3. ASSUME NEW i \in Nat
      PROVE  paths[i] = IF i = 0 THEN {<<n>> : n \in tops} ELSE longer(i)
  <2>1. CASE i = 0
    BY <1>1, <2>1
  <2>2. CASE i # 0
    BY <1>2, <2>2
  <2> QED
    BY <2>1, <2>2
<1>4. paths = [i \in Nat |-> paths[i]]
  BY DEF paths
<1>5. paths = Deeper(paths, tops, childMap)
  BY <1>3, <1>4, Zenon DEF Deeper
<1> QED
  BY <1>5 DEF paths

(* Equations of this kind have one solution.                               *)
LEMMA OneSolution ==
  ASSUME NEW tops, NEW childMap, NEW f, f = Deeper(f, tops, childMap),
         NEW g, g = Deeper(g, tops, childMap), NEW i \in Nat
  PROVE  f[i] = g[i]
<1> DEFINE bad == {j \in Nat : f[j] # g[j]}
<1> SUFFICES ASSUME bad # {} PROVE FALSE
  OBVIOUS
<1>1. PICK m \in bad : \A k \in bad : m <= k
  BY LeastNat
<1>2. CASE m = 0
  <2>1. f[0] = {<<n>> : n \in tops} /\ g[0] = {<<n>> : n \in tops}
    BY DEF Deeper
  <2> QED
    BY <1>2, <2>1
<1>3. CASE m # 0
  <2>1. m - 1 \in Nat /\ m - 1 \notin bad
    BY <1>1, <1>3
  <2>2. f[m - 1] = g[m - 1]
    BY <2>1
  <2>3. f[m] = UNION {{Append(line, c) : c \in childMap[line[m]]} : line \in f[m - 1]}
    BY <1>3 DEF Deeper
  <2>4. g[m] = UNION {{Append(line, c) : c \in childMap[line[m]]} : line \in g[m - 1]}
    BY <1>3 DEF Deeper
  <2> QED
    BY <2>2, <2>3, <2>4
<1> QED
  BY <1>2, <1>3

(* What the commands print are the paths, up to a length.                  *)
LEMMA LinesArePaths ==
  ASSUME NEW tops \in SUBSET Names, NEW childMap \in [Names -> SUBSET Names],
         IsFiniteSet(Names)
  PROVE  Lines(tops, childMap) = UNION {Paths(i, tops, childMap) : i \in 0..Cardinality(Names)}
<1> DEFINE paths == [i \in Nat |-> Paths(i, tops, childMap)]
           printed == CHOOSE depth : depth = Deeper(depth, tops, childMap)
<1>1. paths = Deeper(paths, tops, childMap)
  BY PathsGrow
<1>2. printed = Deeper(printed, tops, childMap)
  BY <1>1
<1>3. Lines(tops, childMap) = UNION {printed[i] : i \in 0..Cardinality(Names)}
  BY DEF Lines, Deeper
<1> HIDE DEF printed
<1>4. \A i \in Nat : printed[i] = Paths(i, tops, childMap)
  BY <1>1, <1>2, OneSolution
<1>5. Cardinality(Names) \in Nat
  BY FS_CardinalityType
<1> QED
  BY <1>3, <1>4, <1>5

(* The tops and the children make a tree of each top, and N is what is in  *)
(* the trees.                                                              *)
AreTrees(tops, childMap, N) ==
  /\ tops \in SUBSET N /\ N \in SUBSET Names
  /\ childMap \in [Names -> SUBSET N]
  /\ \A n \in tops, p \in Names : n \notin childMap[p]
  /\ \A n \in N \ tops : \E p \in N : n \in childMap[p]
  /\ \A n \in N, p \in Names, q \in Names : n \in childMap[p] /\ n \in childMap[q] => p = q
  /\ \A S \in (SUBSET N) \ {{}} : \E n \in S : \A p \in S : n \notin childMap[p]

LEMMA PathTypes ==
  ASSUME NEW tops, NEW childMap, NEW N, AreTrees(tops, childMap, N),
         NEW i \in Nat, NEW s \in Paths(i, tops, childMap)
  PROVE  /\ s \in Seq(Names) /\ Len(s) = i + 1 /\ s[1] \in tops
         /\ \A j \in 1..i : s[j + 1] \in childMap[s[j]]
         /\ \A j \in 1..(i + 1) : s[j] \in N
<1>1. /\ s \in Seq(Names) /\ Len(s) = i + 1 /\ s[1] \in tops
      /\ \A j \in 1..i : s[j + 1] \in childMap[s[j]]
  BY DEF Paths
<1>2. ASSUME NEW j \in 1..(i + 1) PROVE s[j] \in N
  <2>1. CASE j = 1
    BY <1>1, <2>1 DEF AreTrees
  <2>2. CASE j # 1
    <3>1. j - 1 \in 1..i /\ (j - 1) + 1 = j
      BY <2>2
    <3>2. s[j - 1] \in Names /\ s[j] \in childMap[s[j - 1]]
      BY <1>1, <3>1
    <3> QED
      BY <3>2 DEF AreTrees
  <2> QED
    BY <2>1, <2>2
<1> QED
  BY <1>1, <1>2

(* Whoever is in a tree is reached.                                        *)
LEMMA EveryoneIsReached ==
  ASSUME NEW tops, NEW childMap, NEW N, AreTrees(tops, childMap, N), NEW n \in N
  PROVE  \E i \in Nat : \E s \in Paths(i, tops, childMap) : s[i + 1] = n
<1> DEFINE reached(m) == \E i \in Nat : \E s \in Paths(i, tops, childMap) : s[i + 1] = m
           lost == {m \in N : ~reached(m)}
<1> SUFFICES ASSUME lost # {} PROVE FALSE
  OBVIOUS
<1>0. childMap \in [Names -> SUBSET Names] /\ N \in SUBSET Names
  BY DEF AreTrees
<1>1. PICK m \in lost : \A p \in lost : m \notin childMap[p]
  BY DEF AreTrees
<1>2. CASE m \in tops
  <2>1. <<m>> \in Paths(0, tops, childMap) /\ <<m>>[0 + 1] = m
    BY <1>2 DEF Paths, AreTrees
  <2> QED
    BY <1>1, <2>1
<1>3. CASE m \notin tops
  <2>1. PICK p \in N : m \in childMap[p]
    BY <1>1, <1>3 DEF AreTrees
  <2>2. PICK i \in Nat : \E s \in Paths(i, tops, childMap) : s[i + 1] = p
    BY <1>1, <2>1
  <2>3. PICK s \in Paths(i, tops, childMap) : s[i + 1] = p
    BY <2>2
  <2>4. Append(s, m) \in Paths(i + 1, tops, childMap) /\ Append(s, m)[(i + 1) + 1] = m
    BY <1>0, <2>1, <2>3, PathExtends
  <2>5. i + 1 \in Nat
    OBVIOUS
  <2>6. reached(m)
    BY <2>4, <2>5
  <2> QED
    BY <1>1, <2>6
<1> QED
  BY <1>2, <1>3

(* ... on one way.                                                         *)
LEMMA OneWay ==
  ASSUME NEW tops, NEW childMap, NEW N, AreTrees(tops, childMap, N),
         NEW i \in Nat, NEW s \in Paths(i, tops, childMap),
         NEW j \in Nat, NEW t \in Paths(j, tops, childMap), s[i + 1] = t[j + 1]
  PROVE  s = t
<1> DEFINE two(m) == \E k \in Nat, l \in Nat :
                       \E u \in Paths(k, tops, childMap), v \in Paths(l, tops, childMap) :
                         u # v /\ u[k + 1] = m /\ v[l + 1] = m
           split == {m \in N : two(m)}
<1> SUFFICES ASSUME s # t PROVE FALSE
  OBVIOUS
<1>1. s[i + 1] \in split
  BY PathTypes
<1>2. PICK m \in split : \A p \in split : m \notin childMap[p]
  BY <1>1 DEF AreTrees
<1>3. PICK k \in Nat, l \in Nat :
        \E u \in Paths(k, tops, childMap), v \in Paths(l, tops, childMap) :
          u # v /\ u[k + 1] = m /\ v[l + 1] = m
  BY <1>2
<1>4. PICK u \in Paths(k, tops, childMap), v \in Paths(l, tops, childMap) :
        u # v /\ u[k + 1] = m /\ v[l + 1] = m
  BY <1>3
<1>5. /\ u \in Seq(Names) /\ Len(u) = k + 1 /\ u[1] \in tops
      /\ \A x \in 1..k : u[x + 1] \in childMap[u[x]] /\ u[x] \in N
  BY PathTypes
<1>6. /\ v \in Seq(Names) /\ Len(v) = l + 1 /\ v[1] \in tops
      /\ \A x \in 1..l : v[x + 1] \in childMap[v[x]] /\ v[x] \in N
  BY PathTypes
<1>7. CASE m \in tops
  <2>1. \A p \in N : m \notin childMap[p]
    BY <1>7 DEF AreTrees
  <2>2. k \notin 1..k /\ l \notin 1..l
    BY <1>4, <1>5, <1>6, <2>1
  <2>3. k = 0 /\ l = 0
    BY <2>2
  <2>4. u = <<m>> /\ v = <<m>>
    BY <1>4, <1>5, <1>6, <2>3
  <2> QED
    BY <1>4, <2>4
<1>8. CASE m \notin tops
  <2>1. k # 0 /\ l # 0
    BY <1>4, <1>5, <1>6, <1>8
  <2>2. PICK u0 \in Paths(k - 1, tops, childMap) : u = Append(u0, m) /\ m \in childMap[u0[k]]
    <3>1. \E line \in Paths(k - 1, tops, childMap) :
            u[k + 1] \in childMap[line[k]] /\ u = Append(line, u[k + 1])
      BY <2>1, PathShortens
    <3> QED
      BY <1>4, <3>1
  <2>3. PICK v0 \in Paths(l - 1, tops, childMap) : v = Append(v0, m) /\ m \in childMap[v0[l]]
    <3>1. \E line \in Paths(l - 1, tops, childMap) :
            v[l + 1] \in childMap[line[l]] /\ v = Append(line, v[l + 1])
      BY <2>1, PathShortens
    <3> QED
      BY <1>4, <3>1
  <2>4. u0 # v0
    BY <1>4, <2>2, <2>3
  <2>5. u0[k] \in N /\ v0[l] \in N
    BY <2>1, PathTypes
  <2>6. u0[k] = v0[l]
    BY <2>2, <2>3, <2>5 DEF AreTrees
  <2>7. two(u0[k])
    <3>1. k - 1 \in Nat /\ l - 1 \in Nat /\ (k - 1) + 1 = k /\ (l - 1) + 1 = l
      BY <2>1
    <3> QED
      BY <2>4, <2>6, <3>1
  <2> QED
    BY <1>2, <2>2, <2>5, <2>7
<1> QED
  BY <1>7, <1>8

(* ... that comes to an end: it meets nobody twice.                        *)
LEMMA WaysAreShort ==
  ASSUME IsFiniteSet(Names), NEW tops, NEW childMap, NEW N, AreTrees(tops, childMap, N),
         NEW i \in Nat, NEW s \in Paths(i, tops, childMap)
  PROVE  i \in 0..Cardinality(Names)
<1>1. ASSUME NEW j \in 1..(i + 1), NEW k \in 1..(i + 1), j < k, s[j] = s[k] PROVE FALSE
  <2> DEFINE round == {s[m] : m \in j..(k - 1)}
  <2>1. round \in (SUBSET N) \ {{}}
    <3>1. s[j] \in round
      BY <1>1
    <3>2. \A m \in 1..(i + 1) : s[m] \in N
      BY PathTypes
    <3>3. \A m \in j..(k - 1) : m \in 1..(i + 1)
      OBVIOUS
    <3> QED
      BY <3>1, <3>2, <3>3
  <2>2. PICK n \in round : \A p \in round : n \notin childMap[p]
    BY <2>1 DEF AreTrees
  <2>3. PICK m \in j..(k - 1) : n = s[m]
    BY <2>2
  <2>4. CASE m = j
    <3>1. s[k] \in childMap[s[k - 1]]
      <4>1. k - 1 \in 1..i /\ (k - 1) + 1 = k
        BY <1>1
      <4> QED
        BY <4>1, PathTypes
    <3>2. s[k - 1] \in round
      BY <1>1
    <3> QED
      BY <1>1, <2>2, <2>3, <2>4, <3>1, <3>2
  <2>5. CASE m # j
    <3>1. m - 1 \in j..(k - 1) /\ m - 1 \in 1..i /\ (m - 1) + 1 = m
      BY <2>5
    <3>2. s[m] \in childMap[s[m - 1]]
      BY <3>1, PathTypes
    <3> QED
      BY <2>2, <2>3, <3>1, <3>2
  <2> QED
    BY <2>4, <2>5
<1>2. s \in [1..(i + 1) -> Names]
  <2>1. s \in Seq(Names) /\ Len(s) = i + 1
    BY PathTypes
  <2> QED
    BY <2>1
<1>3. \A j, k \in 1..(i + 1) : s[j] = s[k] => j = k
  <2> SUFFICES ASSUME NEW j \in 1..(i + 1), NEW k \in 1..(i + 1), s[j] = s[k], j # k
               PROVE  FALSE
    OBVIOUS
  <2>1. j < k \/ k < j
    OBVIOUS
  <2> QED
    BY <1>1, <2>1
<1>4. s \in Injection(1..(i + 1), Names)
  BY <1>2, <1>3 DEF Injection, IsInjective
<1>5. Cardinality(1..(i + 1)) <= Cardinality(Names)
  BY <1>4, FS_Injection
<1>6. Cardinality(1..(i + 1)) = i + 1
  BY FS_Interval
<1>7. Cardinality(Names) \in Nat
  BY FS_CardinalityType
<1> QED
  BY <1>5, <1>6, <1>7

(* What is printed of trees is everyone in them, once.                     *)
LEMMA TreesAreShownOnce ==
  ASSUME IsFiniteSet(Names), NEW tops, NEW childMap, NEW N, AreTrees(tops, childMap, N)
  PROVE  ShowsOnce(Lines(tops, childMap), N)
<1> DEFINE lines == Lines(tops, childMap)
           end == [line \in lines |-> line[Len(line)]]
<1>1. lines = UNION {Paths(i, tops, childMap) : i \in 0..Cardinality(Names)}
  <2>1. tops \in SUBSET Names /\ childMap \in [Names -> SUBSET Names]
    BY DEF AreTrees
  <2> QED
    BY <2>1, LinesArePaths
<1>2. Cardinality(Names) \in Nat
  BY FS_CardinalityType
<1> HIDE DEF lines
<1>3. ASSUME NEW line \in lines
      PROVE  \E i \in Nat : /\ line \in Paths(i, tops, childMap) /\ Len(line) = i + 1
                            /\ line[Len(line)] \in N
  <2>1. PICK i \in 0..Cardinality(Names) : line \in Paths(i, tops, childMap)
    BY <1>1
  <2>2. i \in Nat
    BY <1>2
  <2>3. Len(line) = i + 1 /\ line[i + 1] \in N
    BY <2>1, <2>2, PathTypes
  <2> QED
    BY <2>1, <2>2, <2>3
<1>4. end \in [lines -> N]
  BY <1>3
<1>5. ASSUME NEW x \in lines, NEW y \in lines, end[x] = end[y] PROVE x = y
  <2>1. PICK i \in Nat : x \in Paths(i, tops, childMap) /\ Len(x) = i + 1
    BY <1>3
  <2>2. PICK j \in Nat : y \in Paths(j, tops, childMap) /\ Len(y) = j + 1
    BY <1>3
  <2>3. x[i + 1] = y[j + 1]
    BY <1>5, <2>1, <2>2
  <2> QED
    BY <2>1, <2>2, <2>3, OneWay
<1>6. ASSUME NEW n \in N PROVE \E line \in lines : end[line] = n
  <2>1. PICK i \in Nat : \E s \in Paths(i, tops, childMap) : s[i + 1] = n
    BY EveryoneIsReached
  <2>2. PICK s \in Paths(i, tops, childMap) : s[i + 1] = n
    BY <2>1
  <2>3. i \in 0..Cardinality(Names)
    BY WaysAreShort
  <2>4. s \in lines /\ Len(s) = i + 1
    BY <1>1, <2>3, PathTypes
  <2> QED
    BY <2>2, <2>4
<1>7. end \in Injection(lines, N) /\ end \in Surjection(lines, N)
  BY <1>4, <1>5, <1>6 DEF Injection, IsInjective, Surjection
<1>8. IsFiniteSet(N)
  BY FS_Subset DEF AreTrees
<1>9. Cardinality(lines) = Cardinality(N)
  BY <1>7, <1>8, FS_Injection
<1>10. {line[Len(line)] : line \in lines} = N
  BY <1>3, <1>6
<1> QED
  BY <1>9, <1>10 DEF ShowsOnce, lines

(* The labels make trees of what list prints.                              *)
LEMMA ListIsTrees ==
  ASSUME WellFormed
  PROVE  AreTrees(ListRoots, ListChildren,
                  {n \in DOMAIN api : Type(api[n]) = NSTypeRoot \/ Parent(api[n]) # ""})
<1> DEFINE N == {n \in DOMAIN api : Type(api[n]) = NSTypeRoot \/ Parent(api[n]) # ""}
<1>1. DOMAIN api \subseteq Names /\ \A n \in DOMAIN api : api[n] \in Namespace
  BY DEF WellFormed, TypeOK
<1>2. ASSUME NEW n \in DOMAIN api, NEW p \in Names
      PROVE  n \in ListChildren[p] <=> Parent(api[n]) = p
  BY <1>1, <1>2, NamesAssumption DEF ListChildren, Parent, Value
<1>3. ListChildren \in [Names -> SUBSET DOMAIN api]
  BY DEF ListChildren
<1>4. ListChildren \in [Names -> SUBSET N]
  BY <1>2, <1>3, NamesAssumption
<1>5. \A n \in ListRoots : Parent(api[n]) = ""
  BY <1>1, NamesAssumption DEF WellFormed, TypeOK, ListRoots, Type, Value, NSTypeRoot
<1>6. \A n \in ListRoots, p \in Names : n \notin ListChildren[p]
  BY <1>2, <1>5, NamesAssumption DEF ListRoots
<1>7. ASSUME NEW n \in N \ ListRoots PROVE \E p \in N : n \in ListChildren[p]
  <2>1. n \in DOMAIN api /\ Parent(api[n]) # ""
    BY DEF ListRoots
  <2>2. Parent(api[n]) \in N
    BY <2>1 DEF WellFormed, NoDanglingSub, Referenced, ParentsAreRootOrSub
  <2> QED
    BY <1>1, <1>2, <2>1, <2>2
<1>8. \A n \in N, p \in Names, q \in Names :
        n \in ListChildren[p] /\ n \in ListChildren[q] => p = q
  BY <1>2
<1>9. ASSUME NEW S \in (SUBSET N) \ {{}} PROVE \E n \in S : \A p \in S : n \notin ListChildren[p]
  <2>1. PICK n \in S : GetParent(api[n]) \notin S
    BY DEF WellFormed, Acyclic
  <2>2. ASSUME NEW p \in S, n \in ListChildren[p] PROVE FALSE
    <3>1. Parent(api[n]) = p /\ p # ""
      BY <1>1, <1>2, <2>2, NamesAssumption
    <3> QED
      BY <2>1, <3>1 DEF GetParent
  <2> QED
    BY <2>2
<1>10. ListRoots \in SUBSET N /\ N \in SUBSET Names
  BY <1>1 DEF ListRoots
<1> QED
  BY <1>4, <1>6, <1>7, <1>8, <1>9, <1>10 DEF AreTrees

(* ... and of what template list prints.                                   *)
LEMMA TemplateListIsTrees ==
  ASSUME WellFormed, \A n \in DOMAIN api : api[n].template # ""
  PROVE  AreTrees(TemplateListRoots, TemplateListChildren,
                  {n \in DOMAIN api : Type(api[n]) = NSTypeTemplate \/ Template(api[n]) # ""})
<1> DEFINE N == {n \in DOMAIN api : Type(api[n]) = NSTypeTemplate \/ Template(api[n]) # ""}
<1>1. DOMAIN api \subseteq Names /\ \A n \in DOMAIN api : api[n] \in Namespace
  BY DEF WellFormed, TypeOK
<1>2. ASSUME NEW n \in DOMAIN api, NEW p \in Names
      PROVE  n \in TemplateListChildren[p] <=> Template(api[n]) = p
  BY <1>1, <1>2, NamesAssumption DEF TemplateListChildren, Template, Value
<1>3. TemplateListChildren \in [Names -> SUBSET DOMAIN api]
  BY DEF TemplateListChildren
<1>4. TemplateListChildren \in [Names -> SUBSET N]
  BY <1>2, <1>3, NamesAssumption
<1>5. \A n \in TemplateListRoots : Template(api[n]) = ""
  BY DEF TemplateListRoots, Template, Value
<1>6. \A n \in TemplateListRoots, p \in Names : n \notin TemplateListChildren[p]
  BY <1>2, <1>5, NamesAssumption DEF TemplateListRoots
<1>7. ASSUME NEW n \in N \ TemplateListRoots PROVE \E p \in N : n \in TemplateListChildren[p]
  <2>1. n \in DOMAIN api /\ Template(api[n]) # ""
    BY DEF TemplateListRoots, Template, Value
  <2>2. Template(api[n]) \in N
    BY <2>1 DEF WellFormed, NoDanglingInstance, Referenced, TemplatesAreTemplates
  <2> QED
    BY <1>1, <1>2, <2>1, <2>2
<1>8. \A n \in N, p \in Names, q \in Names :
        n \in TemplateListChildren[p] /\ n \in TemplateListChildren[q] => p = q
  BY <1>2
<1>9. ASSUME NEW S \in (SUBSET N) \ {{}}
      PROVE  \E n \in S : \A p \in S : n \notin TemplateListChildren[p]
  <2>1. PICK n \in S : GetParent(api[n]) \notin S
    BY DEF WellFormed, Acyclic
  <2>2. ASSUME NEW p \in S, n \in TemplateListChildren[p] PROVE FALSE
    <3>1. Template(api[n]) = p /\ p # ""
      BY <1>1, <1>2, <2>2, NamesAssumption
    <3>2. Parent(api[n]) = ""
      BY <3>1 DEF WellFormed, TypeOK, Template, Value
    <3> QED
      BY <2>1, <3>1, <3>2 DEF GetParent
  <2> QED
    BY <2>2
<1>10. TemplateListRoots \in SUBSET N /\ N \in SUBSET Names
  BY <1>1 DEF TemplateListRoots
<1> QED
  BY <1>4, <1>6, <1>7, <1>8, <1>9, <1>10 DEF AreTrees

(* Whatever labels have been set in whatever order, with commands or       *)
(* without, both lists come to their end and show everyone they are about  *)
(* once.                                                                   *)
THEOREM ListsShowTrees ==
  ASSUME Orderly, IsFiniteSet(Names)
  PROVE  CommandSpec => [](ListShowsTree /\ TemplateListShowsTree)
<1>1. WellFormed => ListShowsTree /\ TemplateListShowsTree
  BY ListIsTrees, TemplateListIsTrees, TreesAreShownOnce
  DEF ListShowsTree, TemplateListShowsTree
<1> QED
  BY <1>1, CommandsAreRequests, AlwaysWellFormed, PTL
=============================================================================
