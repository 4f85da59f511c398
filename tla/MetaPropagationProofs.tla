----------------------- MODULE MetaPropagationProofs -----------------------
(***************************************************************************)
(* What the reconciler of Namespaces writes is well formed, however far    *)
(* the caches lag; and when they do not, it forgets nobody: at rest every  *)
(* namespace has the labels it is to have, however many namespaces there   *)
(* are and however often users and restarts interfere.                     *)
(***************************************************************************)
EXTENDS MetaPropagation, PartialMapsProofs

LEMMA StartTypes == ASSUME NEW start \in Starts PROVE start \in [Names -> Namespace]
  BY StartsAssumption

LEMMA InitTypes == Init => TypeOK
  BY StartTypes, MaxOpsAssumption DEF Init, TypeOK

(* What is to be applied has keys and values.                              *)
LEMMA WantedType ==
  ASSUME NEW n, NEW from, NEW labels \in PartialMap(Keys, Label), NEW isSub,
         \A k \in DOMAIN snCache : snCache[k] \in Specs
  PROVE  Wanted(n, from, labels, isSub) \in PartialMap(Keys, Values)
<1> DEFINE inherited == {k \in DOMAIN labels : MatchKey(k, LabelKeys)}
           spec == IF isSub /\ <<from, n>> \in DOMAIN snCache THEN snCache[<<from, n>>]
                   ELSE Nothing
           given == {k \in DOMAIN spec : MatchKey(k, SubNamespaceLabelKeys)}
           wanted == [k \in inherited \cup given |-> IF k \in given THEN spec[k] ELSE labels[k].value]
<1>1. DOMAIN labels \subseteq Keys /\ labels \in [DOMAIN labels -> Label]
  BY PartialMapFacts
<1>2. \A k \in DOMAIN labels : labels[k].value \in Values
  BY <1>1 DEF Label
<1>3. DOMAIN spec \subseteq Keys /\ \A k \in DOMAIN spec : spec[k] \in Values
  <2>1. CASE isSub /\ <<from, n>> \in DOMAIN snCache
    <3>1. spec = snCache[<<from, n>>]
      BY <2>1
    <3>2. spec \in PartialMap(Keys, Values)
      BY <2>1, <3>1 DEF Specs
    <3> HIDE DEF spec
    <3> QED
      BY <3>2, PartialMapFacts
  <2>2. CASE ~(isSub /\ <<from, n>> \in DOMAIN snCache)
    BY <2>2 DEF Nothing
  <2> QED
    BY <2>1, <2>2
<1> HIDE DEF spec
<1>4. wanted \in [inherited \cup given -> Values] /\ inherited \cup given \in SUBSET Keys
  BY <1>1, <1>2, <1>3
<1>5. wanted \in PartialMap(Keys, Values)
  BY <1>4, PartialMapFacts
<1> QED
  BY <1>5 DEF Wanted, spec

(* Applying it leaves no field without an owner.                           *)
LEMMA AppliedType ==
  ASSUME NEW old \in PartialMap(Keys, Label), NEW wanted \in PartialMap(Keys, Values)
  PROVE  Applied(old, wanted) \in PartialMap(Keys, Label)
<1> DEFINE staying == {k \in DOMAIN old : old[k].owners # {"accurate"}}
           D == staying \cup DOMAIN wanted
<1>1. DOMAIN old \subseteq Keys /\ \A k \in DOMAIN old : old[k] \in Label
  BY PartialMapFacts
<1>2. DOMAIN wanted \subseteq Keys /\ \A k \in DOMAIN wanted : wanted[k] \in Values
  BY PartialMapFacts
<1>3. ASSUME NEW k \in staying PROVE [old[k] EXCEPT !.owners = @ \ {"accurate"}] \in Label
  <2>1. old[k] \in Label
    BY <1>1
  <2>2. old[k].owners \ {"accurate"} # {}
    BY <1>3, <2>1 DEF Label
  <2> QED
    BY <2>1, <2>2 DEF Label
<1>4. ASSUME NEW k \in DOMAIN wanted, NEW shared
      PROVE  [value |-> wanted[k],
              owners |-> {"accurate"} \cup IF shared THEN {"users"} ELSE {}] \in Label
  BY <1>2 DEF Label
<1>5. Applied(old, wanted) \in [D -> Label]
  BY <1>3, <1>4 DEF Applied
<1>6. D \in SUBSET Keys
  BY <1>1, <1>2
<1> QED
  BY <1>5, <1>6, PartialMapFacts

LEMMA PropagatedType ==
  ASSUME TypeOK, NEW n \in Names, NEW from \in Names, NEW isSub,
         NEW labels \in PartialMap(Keys, Label)
  PROVE  Propagated(n, from, labels, isSub) \in Namespace
<1> DEFINE new == Applied(ns[n].labels, Wanted(n, from, labels, isSub))
<1>1. ns[n] \in Namespace
  BY DEF TypeOK
<1>2. new \in PartialMap(Keys, Label)
  BY <1>1, WantedType, AppliedType DEF TypeOK, Namespace
<1> HIDE DEF new
<1>3. [ns[n] EXCEPT !.labels = new, !.parent = IF isSub THEN from ELSE @] \in Namespace
  BY <1>1, <1>2 DEF Namespace
<1> QED
  BY <1>3 DEF Propagated, new

(* A write stores what is written, and is an event if it changes anything. *)
LEMMA WriteNsFacts ==
  ASSUME TypeOK, NEW n \in Names, NEW new \in Namespace, WriteNs(n, new)
  PROVE  /\ ns' \in [Names -> Namespace] /\ ns'[n] = new
         /\ \A x \in Names : x \notin events'.ns => ns'[x] = ns[x]
         /\ events' \in [ns: SUBSET Names, sn: SUBSET Names]
         /\ events.ns \subseteq events'.ns /\ events'.sn = events.sn
         /\ sn' = sn
<1>1. ns \in [Names -> Namespace] /\ events \in [ns: SUBSET Names, sn: SUBSET Names]
  BY DEF TypeOK
<1>2. ns' = [ns EXCEPT ![n] = new] /\ sn' = sn
  BY DEF WriteNs
<1>3. CASE new = ns[n]
  BY <1>1, <1>2, <1>3 DEF WriteNs
<1>4. CASE new # ns[n]
  BY <1>1, <1>2, <1>4 DEF WriteNs
<1> QED
  BY <1>3, <1>4

LEMMA PropagateMetaFacts ==
  ASSUME TypeOK, NEW n \in Names, NEW from \in Names, NEW isSub,
         NEW labels \in PartialMap(Keys, Label), PropagateMeta(n, from, labels, isSub)
  PROVE  /\ Propagated(n, from, labels, isSub) \in Namespace
         /\ WriteNs(n, Propagated(n, from, labels, isSub))
  BY PropagatedType DEF PropagateMeta

LEMMA CacheFacts ==
  ASSUME TypeOK, NEW n \in Names
  PROVE  /\ nsCache[n] \in Namespace
         /\ nsCache[n].labels \in PartialMap(Keys, Label)
         /\ nsCache[n].parent \in Names \cup {Absent}
         /\ nsCache[n].template \in Names \cup {Absent}
  BY DEF TypeOK, Namespace

LEMMA ListBelowType ==
  ASSUME TypeOK, NEW n \in Names, NEW below \in {"parent", "template"}
  PROVE  ListBelow(n, below) \in Jobs
  BY CacheFacts DEF ListBelow, Jobs

-----------------------------------------------------------------------------
(* A reconciliation propagates to the namespace itself, or to nobody.      *)

LEMMA ReconcileTypes ==
  ASSUME TypeOK, NEW n \in Names, Reconcile(n)
  PROVE  TypeOK'
<1>1. queue' \subseteq Names /\ UNCHANGED <<nsCache, snCache, ops>>
  BY DEF TypeOK, Reconcile, ReconcileSub, ReconcileTop, Take
<1>2. job' \in Jobs \cup {NoJob}
  BY ListBelowType DEF Reconcile, ReconcileSub, ReconcileTop
<1> DEFINE Stored == /\ ns' \in [Names -> Namespace] /\ sn' = sn
                     /\ events' \in [ns: SUBSET Names, sn: SUBSET Names]
<1>3. Stored
  <2>1. ASSUME NEW from \in Names, PropagateMeta(n, from, nsCache[from].labels, TRUE)
        PROVE  Stored
    BY <2>1, CacheFacts, PropagateMetaFacts, WriteNsFacts
  <2>2. ASSUME NEW from \in Names, PropagateMeta(n, from, nsCache[from].labels, FALSE)
        PROVE  Stored
    BY <2>2, CacheFacts, PropagateMetaFacts, WriteNsFacts
  <2> HIDE DEF Stored
  <2>3. CASE ReconcileSub(n)
    <3>1. nsCache[n].parent \in Names
      BY <2>3, CacheFacts DEF ReconcileSub
    <3> QED
      BY <2>1, <2>3, <3>1 DEF ReconcileSub
  <2>4. CASE ReconcileTop(n) /\ nsCache[n].template # Absent
    <3>1. nsCache[n].template \in Names
      BY <2>4, CacheFacts
    <3> QED
      BY <2>2, <2>4, <3>1 DEF ReconcileTop
  <2>5. CASE ReconcileTop(n) /\ nsCache[n].template = Absent
    BY <2>5 DEF ReconcileTop, TypeOK, Stored
  <2> QED
    BY <2>3, <2>4, <2>5 DEF Reconcile
<1> QED
  BY <1>1, <1>2, <1>3 DEF TypeOK

LEMMA ListTypes == ASSUME TypeOK, List PROVE TypeOK'
<1>1. job \in Jobs
  BY DEF TypeOK, List
<1>2. ASSUME NEW todo \in SUBSET Names PROVE [job EXCEPT !.listed = TRUE, !.todo = todo] \in Jobs
  BY <1>1 DEF Jobs
<1>3. ChildrenOf(nsCache, job.name) \subseteq Names /\ InstancesOf(nsCache, job.name) \subseteq Names
  BY DEF TypeOK, ChildrenOf, InstancesOf
<1> QED
  BY <1>2, <1>3 DEF List, TypeOK

(* What PropagateBelow writes, and to whom.                                *)
LEMMA PropagateBelowFacts ==
  ASSUME TypeOK, PropagateBelow
  PROVE  /\ job \in Jobs
         /\ \/ /\ queue' = queue \cup {job.name} /\ job' = NoJob
               /\ UNCHANGED <<ns, sn, events>>
            \/ \E c \in job.todo :
                 /\ PropagateMeta(c, job.name, job.labels, job.below = "parent")
                 /\ job' = IF job.todo = {c} THEN NoJob ELSE [job EXCEPT !.todo = @ \ {c}]
                 /\ UNCHANGED queue
  BY DEF TypeOK, PropagateBelow

LEMMA PropagateBelowTypes == ASSUME TypeOK, PropagateBelow PROVE TypeOK'
<1>1. /\ job \in Jobs /\ job.name \in Names /\ job.todo \subseteq Names
      /\ job.labels \in PartialMap(Keys, Label)
  BY PropagateBelowFacts DEF Jobs
<1>2. UNCHANGED <<nsCache, snCache, ops>>
  BY DEF PropagateBelow
<1>3. CASE queue' = queue \cup {job.name} /\ job' = NoJob /\ UNCHANGED <<ns, sn, events>>
  BY <1>1, <1>2, <1>3 DEF TypeOK
<1>4. ASSUME NEW c \in job.todo,
             PropagateMeta(c, job.name, job.labels, job.below = "parent"),
             job' = IF job.todo = {c} THEN NoJob ELSE [job EXCEPT !.todo = @ \ {c}],
             UNCHANGED queue
      PROVE  TypeOK'
  <2>1. job' \in Jobs \cup {NoJob}
    BY <1>1, <1>4 DEF Jobs
  <2> DEFINE isSub == job.below = "parent"
  <2> HIDE DEF isSub
  <2>2. PropagateMeta(c, job.name, job.labels, isSub)
    BY <1>4 DEF isSub
  <2>3. /\ ns' \in [Names -> Namespace] /\ sn' = sn
        /\ events' \in [ns: SUBSET Names, sn: SUBSET Names]
    BY <1>1, <2>2, PropagateMetaFacts, WriteNsFacts
  <2> QED
    BY <1>2, <1>4, <2>1, <2>3 DEF TypeOK
<1> QED
  BY <1>3, <1>4, PropagateBelowFacts

LEMMA LabelWrites ==
  ASSUME TypeOK, NEW n \in Names, NEW key \in Keys
  PROVE  /\ \A v \in Values :
              [ns[n] EXCEPT !.labels = Put(@, key, [value |-> v, owners |-> {"users"}])] \in Namespace
         /\ [ns[n] EXCEPT !.labels = Drop(@, key)] \in Namespace
<1>1. ns[n] \in Namespace /\ ns[n].labels \in PartialMap(Keys, Label)
  BY DEF TypeOK, Namespace
<1>2. \A v \in Values : [value |-> v, owners |-> {"users"}] \in Label
  BY DEF Label
<1>3. \A v \in Values :
        Put(ns[n].labels, key, [value |-> v, owners |-> {"users"}]) \in PartialMap(Keys, Label)
  BY <1>1, <1>2, PutDropTypes
<1>4. Drop(ns[n].labels, key) \in PartialMap(Keys, Label)
  <2>1. DOMAIN ns[n].labels \subseteq Keys
        /\ ns[n].labels \in [DOMAIN ns[n].labels -> Label]
    BY <1>1, PartialMapFacts
  <2>2. Drop(ns[n].labels, key) \in [DOMAIN ns[n].labels \ {key} -> Label]
    BY <2>1 DEF Drop
  <2> QED
    BY <2>1, <2>2, PartialMapFacts
<1> QED
  BY <1>1, <1>3, <1>4 DEF Namespace

LEMMA RelabelType ==
  ASSUME TypeOK, NEW n \in Names, NEW type \in {Absent, NSTypeRoot, NSTypeTemplate},
         NEW parent \in Names \cup {Absent}, NEW template \in Names \cup {Absent}
  PROVE  [ns[n] EXCEPT !.type = type, !.parent = parent, !.template = template] \in Namespace
<1>1. ns[n] \in Namespace
  BY DEF TypeOK
<1> QED
  BY <1>1 DEF Namespace

(* A write of one namespace that leaves it where it is, or asks the        *)
(* webhook.                                                                *)
LabelsOrMoves(n, new) ==
  /\ WriteNs(n, new)
  /\ \/ /\ new.type = ns[n].type /\ new.parent = ns[n].parent
        /\ new.template = ns[n].template
     \/ /\ new.template # Absent =>
             ns[new.template].type = NSTypeTemplate /\ ns[n].parent = Absent
        /\ HandleUpdate(ns, n, new, ns[n])

OneWrite ==
  /\ Act
  /\ \/ \E n \in Names, new \in Namespace : LabelsOrMoves(n, new)
     \/ \E k \in SubNames, spec \in Specs : WriteSubNamespace(k, spec)
     \/ \E k \in SubNames : DeleteSubNamespace(k)

LEMMA UserStep == ASSUME TypeOK, Users PROVE OneWrite
<1>0. \A n \in Names : ns[n] \in Namespace
  BY DEF TypeOK
<1>1. ASSUME NEW n \in Names, NEW key \in Keys, RemoveLabel(n, key) PROVE OneWrite
  <2> DEFINE new == [ns[n] EXCEPT !.labels = Drop(@, key)]
  <2>1. new \in Namespace
    BY LabelWrites
  <2>2. new.type = ns[n].type /\ new.parent = ns[n].parent /\ new.template = ns[n].template
    BY <1>0 DEF Namespace
  <2>3. Act /\ WriteNs(n, new)
    BY <1>1 DEF RemoveLabel
  <2> HIDE DEF new
  <2> QED
    BY <2>1, <2>2, <2>3 DEF OneWrite, LabelsOrMoves
<1>2. ASSUME NEW n \in Names, NEW key \in Keys, NEW v \in Values, SetLabel(n, key, v)
      PROVE  OneWrite
  <2> DEFINE new == [ns[n] EXCEPT !.labels = Put(@, key, [value |-> v, owners |-> {"users"}])]
  <2>1. new \in Namespace
    BY LabelWrites
  <2>2. new.type = ns[n].type /\ new.parent = ns[n].parent /\ new.template = ns[n].template
    BY <1>0 DEF Namespace
  <2>3. Act /\ WriteNs(n, new)
    BY <1>2 DEF SetLabel
  <2> HIDE DEF new
  <2> QED
    BY <2>1, <2>2, <2>3 DEF OneWrite, LabelsOrMoves
<1>3. ASSUME NEW n \in Names, NEW type \in {Absent, NSTypeRoot, NSTypeTemplate},
             NEW parent \in Names \cup {Absent}, NEW template \in Names \cup {Absent},
             Relabel(n, type, parent, template)
      PROVE  OneWrite
  <2> DEFINE new == [ns[n] EXCEPT !.type = type, !.parent = parent, !.template = template]
  <2>1. new \in Namespace
    BY RelabelType
  <2>2. new.template = template
    BY <1>0 DEF Namespace
  <2>3. /\ Act /\ WriteNs(n, new) /\ HandleUpdate(ns, n, new, ns[n])
        /\ template # Absent => ns[template].type = NSTypeTemplate /\ ns[n].parent = Absent
    BY <1>3 DEF Relabel
  <2> HIDE DEF new
  <2> QED
    BY <2>1, <2>2, <2>3 DEF OneWrite, LabelsOrMoves
<1>4. ASSUME NEW k \in SubNames, NEW spec \in Specs, WriteSubNamespace(k, spec)
      PROVE  OneWrite
  BY <1>4 DEF WriteSubNamespace, OneWrite
<1>5. ASSUME NEW k \in SubNames, DeleteSubNamespace(k) PROVE OneWrite
  BY <1>5 DEF DeleteSubNamespace, OneWrite
<1> QED
  BY <1>1, <1>2, <1>3, <1>4, <1>5 DEF Users

LEMMA UserTypes == ASSUME TypeOK, Users PROVE TypeOK'
<1>1. UNCHANGED <<nsCache, snCache, queue, job>> /\ ops' \in 0..MaxOps
  BY UserStep, MaxOpsAssumption DEF OneWrite, Act, TypeOK
<1>2. ASSUME NEW n \in Names, NEW new \in Namespace, WriteNs(n, new) PROVE TypeOK'
  BY <1>1, <1>2, WriteNsFacts DEF TypeOK
<1>3. ASSUME NEW k \in SubNames, NEW spec \in Specs, WriteSubNamespace(k, spec) PROVE TypeOK'
  <2>1. DOMAIN sn' \subseteq SubNames /\ \A x \in DOMAIN sn' : sn'[x] \in Specs
    BY <1>3 DEF WriteSubNamespace, Put, TypeOK
  <2>2. k[2] \in Names
    BY DEF SubNames
  <2>3. events' \in [ns: SUBSET Names, sn: SUBSET Names] /\ ns' = ns
    BY <1>3, <2>2 DEF WriteSubNamespace, TypeOK
  <2> QED
    BY <1>1, <2>1, <2>3 DEF TypeOK
<1>4. ASSUME NEW k \in SubNames, DeleteSubNamespace(k) PROVE TypeOK'
  <2>1. DOMAIN sn' \subseteq SubNames /\ \A x \in DOMAIN sn' : sn'[x] \in Specs
    BY <1>4 DEF DeleteSubNamespace, Drop, TypeOK
  <2> QED
    BY <1>1, <1>4, <2>1 DEF DeleteSubNamespace, TypeOK
<1> QED
  BY <1>2, <1>3, <1>4, UserStep DEF OneWrite, LabelsOrMoves

LEMMA StepKeepsTypes == ASSUME TypeOK, [Next]_vars PROVE TypeOK'
<1>1. CASE SyncNs
  BY <1>1 DEF SyncNs, TypeOK
<1>2. CASE SyncSn
  BY <1>2 DEF SyncSn, TypeOK
<1>3. CASE Restart
  BY <1>3, MaxOpsAssumption DEF Restart, TypeOK
<1>4. CASE UNCHANGED vars
  BY <1>4 DEF vars, TypeOK
<1> QED
  BY <1>1, <1>2, <1>3, <1>4, ReconcileTypes, ListTypes, PropagateBelowTypes, UserTypes DEF Next

(* However far the caches lag, whatever the patterns of the configuration  *)
(* match: no label loses all its owners, and every reconciliation knows    *)
(* whom it writes to.                                                      *)
THEOREM TypeCorrect == Spec => []TypeOK
<1> QED
  BY InitTypes, StepKeepsTypes, PTL DEF Spec

-----------------------------------------------------------------------------
(* Labels in place.  The invariant says of a namespace without its labels  *)
(* what will put them there.                                               *)

Awaited == events.ns \cup queue

(* The reconciliation that goes on hands on what the namespace has, to     *)
(* those it is there for, or the namespace will be reconciled again.       *)
JobSound ==
  job # NoJob =>
    \/ job.name \in Awaited
    \/ /\ job.labels = ns[job.name].labels
       /\ job.below = "parent" <=> ns[job.name].type # NSTypeTemplate

(* n will be reconciled, or the namespace it is below, or that is just     *)
(* happening and n is still to come.                                       *)
Pending(n) ==
  \/ n \in Awaited \cup events.sn
  \/ Source(ns, n) \in Awaited
  \/ job # NoJob /\ job.name = Source(ns, n) /\ (job.listed => n \in job.todo)

NothingForgotten == \A n \in Below(ns) : InPlace(ns, sn, n) \/ Pending(n)

Inv == TypeOK /\ Rightful(ns) /\ JobSound /\ NothingForgotten

LEMMA InvInit == Init => Inv
<1> SUFFICES ASSUME Init PROVE Inv
  OBVIOUS
<1>1. TypeOK
  BY InitTypes
<1>2. Rightful(ns) /\ \A n \in Below(ns) : InPlace(ns, Nothing, n)
  BY StartsAssumption DEF Init
<1>3. sn = Nothing
  BY DEF Init, Nothing
<1> QED
  BY <1>1, <1>2, <1>3 DEF Inv, Init, JobSound, NothingForgotten

LEMMA InvAtRest == Inv => LabelsInPlace
<1> SUFFICES ASSUME Inv, AtRest, NEW n \in Below(ns) PROVE InPlace(ns, sn, n)
  BY DEF LabelsInPlace
<1>1. events.ns = {} /\ events.sn = {} /\ queue = {} /\ job = NoJob
  BY DEF AtRest, InSync
<1> QED
  BY <1>1 DEF Inv, NothingForgotten, Pending, Awaited

-----------------------------------------------------------------------------
(* Who may have whom below itself.                                         *)

LEMMA RolesStayRightful ==
  ASSUME ns \in [Names -> Namespace], Rightful(ns),
         NEW n \in Names, NEW new \in Namespace,
         new.type = ns[n].type, new.parent = ns[n].parent, new.template = ns[n].template
  PROVE  Rightful([ns EXCEPT ![n] = new])
<1> DEFINE view == [ns EXCEPT ![n] = new]
<1>1. \A x \in Names : /\ view[x].type = ns[x].type /\ view[x].parent = ns[x].parent
                       /\ view[x].template = ns[x].template
  OBVIOUS
<1>2. \A x \in Names : ns[x].parent \in Names \cup {Absent} /\ ns[x].template \in Names \cup {Absent}
  BY DEF Namespace
<1> HIDE DEF view
<1>3. Rightful(view)
  BY <1>1, <1>2 DEF Rightful
<1> QED
  BY <1>3 DEF view

LEMMA AdmittedIsRightful ==
  ASSUME ns \in [Names -> Namespace], Rightful(ns),
         NEW n \in Names, NEW new \in Namespace, HandleUpdate(ns, n, new, ns[n]),
         new.template # Absent => ns[new.template].type = NSTypeTemplate /\ ns[n].parent = Absent
  PROVE  Rightful([ns EXCEPT ![n] = new])
<1> DEFINE view == [ns EXCEPT ![n] = new]
<1>1. /\ view \in [Names -> Namespace] /\ view[n] = new
      /\ \A x \in Names \ {n} : view[x] = ns[x]
  OBVIOUS
<1>2. \A x \in Names : /\ ns[x].parent \in Names \cup {Absent}
                       /\ ns[x].template \in Names \cup {Absent}
                       /\ ns[x].type \in {Absent, NSTypeRoot, NSTypeTemplate}
  BY DEF Namespace
<1>3. /\ new.parent \in Names \cup {Absent} /\ new.template \in Names \cup {Absent}
      /\ new.type \in {Absent, NSTypeRoot, NSTypeTemplate}
  BY DEF Namespace
<1>4. /\ HandleCreate(ns, n, new)
      /\ Type(ns[n]) # Type(new) =>
           /\ Type(ns[n]) = NSTypeRoot => ChildrenOf(ns, n) = {}
           /\ Type(ns[n]) = NSTypeTemplate => InstancesOf(ns, n) = {}
      /\ GetParent(new) = "" /\ Parent(ns[n]) # "" /\ Type(new) # NSTypeRoot =>
           ChildrenOf(ns, n) = {}
  BY DEF HandleUpdate
<1>5. /\ new.parent # Absent =>
           /\ new.parent # n /\ new.type = Absent /\ new.template = Absent
           /\ ns[new.parent].type = NSTypeRoot \/ ns[new.parent].parent # Absent
      /\ new.template # Absent => new.template # n
  BY <1>2, <1>3, <1>4, NamesAssumption, TypesAssumption
  DEF HandleCreate, CheckParent, Parent, Template, Type, Value, NSTypeRoot, NSTypeTemplate
<1>6. ASSUME NEW m \in Names, m # n, ns[m].parent = n
      PROVE  new.type = NSTypeRoot \/ new.parent # Absent
  <2>1. m \in ChildrenOf(ns, n)
    BY <1>6, NamesAssumption DEF ChildrenOf, Parent, Value
  <2>2. ns[n].type = NSTypeRoot \/ ns[n].parent # Absent
    BY <1>6, NamesAssumption DEF Rightful
  <2>3. CASE ns[n].type = NSTypeRoot
    BY <1>3, <1>4, <2>1, <2>3, NamesAssumption, TypesAssumption DEF Type, Value, NSTypeRoot
  <2>4. CASE ns[n].parent # Absent
    BY <1>2, <1>3, <1>4, <2>1, <2>4, NamesAssumption, TypesAssumption
    DEF Type, Parent, GetParent, Template, Value, NSTypeRoot
  <2> QED
    BY <2>2, <2>3, <2>4
<1>7. ASSUME NEW m \in Names, m # n, ns[m].template = n
      PROVE  new.type = NSTypeTemplate
  <2>1. m \in InstancesOf(ns, n)
    BY <1>7, NamesAssumption DEF InstancesOf, Template, Value
  <2>2. ns[n].type = NSTypeTemplate
    BY <1>7, NamesAssumption DEF Rightful
  <2> QED
    BY <1>3, <1>4, <2>1, <2>2, NamesAssumption, TypesAssumption DEF Type, Value, NSTypeTemplate
<1> HIDE DEF view
<1>8. ASSUME NEW m \in Names
      PROVE  /\ view[m].parent # Absent =>
                  /\ view[m].type = Absent /\ view[m].template = Absent
                  /\ \/ view[view[m].parent].type = NSTypeRoot
                     \/ view[view[m].parent].parent # Absent
             /\ view[m].template # Absent => view[view[m].template].type = NSTypeTemplate
  <2>1. CASE m = n
    BY <1>1, <1>3, <1>5, <2>1
  <2>2. CASE m # n
    <3>1. view[m] = ns[m]
      BY <1>1, <2>2
    <3>2. ASSUME ns[m].parent # Absent
          PROVE  /\ ns[m].type = Absent /\ ns[m].template = Absent
                 /\ view[ns[m].parent].type = NSTypeRoot \/ view[ns[m].parent].parent # Absent
      BY <1>1, <1>2, <1>6, <2>2, <3>2 DEF Rightful
    <3>3. ASSUME ns[m].template # Absent PROVE view[ns[m].template].type = NSTypeTemplate
      BY <1>1, <1>2, <1>7, <2>2, <3>3 DEF Rightful
    <3> QED
      BY <3>1, <3>2, <3>3
  <2> QED
    BY <2>1, <2>2
<1>9. Rightful(view)
  BY <1>8 DEF Rightful
<1> QED
  BY <1>9 DEF view

-----------------------------------------------------------------------------
(* What a write leaves alone, and what it achieves.                        *)

LEMMA SourceFacts ==
  ASSUME ns \in [Names -> Namespace], NEW n \in Below(ns)
  PROVE  n \in Names /\ Source(ns, n) \in Names
  BY DEF Below, Source, Namespace

(* A namespace has its labels as long as it, the one it is below and the   *)
(* SubNamespaces stay the same.                                            *)
LEMMA InPlaceStays ==
  ASSUME NEW n, ns'[n] = ns[n], ns'[Source(ns, n)] = ns[Source(ns, n)], sn' = sn
  PROVE  /\ Source(ns', n) = Source(ns, n)
         /\ InPlace(ns', sn', n) <=> InPlace(ns, sn, n)
<1>1. Source(ns', n) = Source(ns, n)
  BY DEF Source
<1>2. ASSUME NEW key
      PROVE  /\ Given(ns', sn', n, key) <=> Given(ns, sn, n, key)
             /\ Inherited(ns', n, key) <=> Inherited(ns, n, key)
  BY <1>1 DEF Given, Inherited
<1>3. InPlace(ns', sn', n) <=> InPlace(ns, sn, n)
  BY <1>1, <1>2 DEF InPlace
<1> QED
  BY <1>1, <1>3

(* Who is not among the changed, nor below one of them.                    *)
LEMMA UnchangedStays ==
  ASSUME ns \in [Names -> Namespace], ns' \in [Names -> Namespace], sn' = sn,
         NEW changed, \A x \in Names : x \notin changed => ns'[x] = ns[x],
         NEW n, n \in Below(ns)', n \notin changed, Source(ns', n) \notin changed
  PROVE  /\ n \in Below(ns) /\ n \in Names /\ Source(ns, n) \in Names
         /\ Source(ns', n) = Source(ns, n)
         /\ InPlace(ns', sn', n) <=> InPlace(ns, sn, n)
<1>1. n \in Names /\ Source(ns', n) \in Names
  BY DEF Below, Source, Namespace
<1>2. ns'[n] = ns[n] /\ Source(ns', n) = Source(ns, n)
  BY <1>1 DEF Source
<1>3. ns'[Source(ns, n)] = ns[Source(ns, n)]
  BY <1>1, <1>2
<1>4. n \in Below(ns)
  BY <1>1, <1>2 DEF Below
<1> QED
  BY <1>1, <1>2, <1>3, <1>4, InPlaceStays

(* A step that announces all it changes and forgets nothing announced.     *)
LEMMA AnnouncedIsPending ==
  ASSUME Inv, ns' \in [Names -> Namespace], sn' = sn, job' = job,
         \A x \in Names : x \notin Awaited' => ns'[x] = ns[x],
         Awaited \subseteq Awaited',
         Awaited \cup events.sn \subseteq Awaited' \cup events'.sn
  PROVE  JobSound' /\ NothingForgotten'
<1>1. ns \in [Names -> Namespace] /\ job \in Jobs \cup {NoJob}
  BY DEF Inv, TypeOK
<1>2. JobSound'
  <2>1. job # NoJob => job.name \in Names
    BY <1>1 DEF Jobs
  <2> QED
    BY <2>1 DEF Inv, JobSound
<1>3. ASSUME NEW n \in Below(ns)'
      PROVE  InPlace(ns', sn', n) \/ Pending(n)'
  <2>1. CASE n \in Awaited' \/ Source(ns', n) \in Awaited'
    BY <2>1 DEF Pending
  <2>2. CASE n \notin Awaited' /\ Source(ns', n) \notin Awaited'
    <3>1. /\ n \in Below(ns) /\ Source(ns', n) = Source(ns, n)
          /\ InPlace(ns', sn', n) <=> InPlace(ns, sn, n)
      BY <1>1, <2>2, UnchangedStays
    <3>2. CASE Pending(n)
      BY <2>2, <3>1, <3>2 DEF Pending
    <3> QED
      BY <3>1, <3>2 DEF Inv, NothingForgotten
  <2> QED
    BY <2>1, <2>2
<1> QED
  BY <1>2, <1>3 DEF NothingForgotten

(* What is propagated from the namespace n is below puts the labels of n   *)
(* in place.                                                               *)
LEMMA PropagatedIsInPlace ==
  ASSUME TypeOK, NEW n \in Names, NEW from \in Names, from # n, NEW isSub \in BOOLEAN,
         snCache = sn, sn' = sn,
         ns' = [ns EXCEPT ![n] = Propagated(n, from, ns[from].labels, isSub)],
         Propagated(n, from, ns[from].labels, isSub) \in Namespace,
         isSub => ns[n].parent = from,
         ~isSub => ns[n].parent = Absent /\ ns[n].template = from
  PROVE  InPlace(ns', sn', n)
<1> DEFINE wanted == Wanted(n, from, ns[from].labels, isSub)
           new == Propagated(n, from, ns[from].labels, isSub)
<1>1. ns \in [Names -> Namespace] /\ ns[n] \in Namespace
  BY DEF TypeOK
<1>2. ns'[n] = new /\ ns'[from] = ns[from]
  BY <1>1
<1>3. /\ new.labels = Applied(ns[n].labels, wanted)
      /\ new.parent = ns[n].parent /\ new.template = ns[n].template
  BY <1>1 DEF Propagated, Namespace
<1>4. isSub <=> ns[n].parent # Absent
  BY NamesAssumption
<1>5. Source(ns', n) = from
  BY <1>2, <1>3, <1>4 DEF Source
<1> DEFINE given == {k \in Keys : Given(ns', sn', n, k)}
           inherited == {k \in Keys : Inherited(ns', n, k)}
           labels == ns[from].labels
           spec == IF isSub /\ <<from, n>> \in DOMAIN snCache THEN snCache[<<from, n>>]
                   ELSE Nothing
<1>6. DOMAIN labels \subseteq Keys
  BY <1>1, PartialMapFacts DEF Namespace
<1>7. \A k \in Keys : k \in given <=> k \in DOMAIN spec /\ MatchKey(k, SubNamespaceLabelKeys)
  <2>1. CASE isSub /\ <<from, n>> \in DOMAIN snCache
    BY <1>2, <1>3, <1>4, <2>1 DEF Given, MatchKey
  <2>2. CASE ~(isSub /\ <<from, n>> \in DOMAIN snCache)
    BY <1>2, <1>3, <1>4, <2>2 DEF Given, MatchKey, Nothing
  <2> QED
    BY <2>1, <2>2
<1>8. \A k \in Keys : k \in inherited <=> k \in DOMAIN labels /\ MatchKey(k, LabelKeys)
  BY <1>2, <1>5 DEF Inherited, MatchKey
<1>9. \A k \in Keys :
        /\ k \in DOMAIN wanted <=> k \in inherited \cup given
        /\ k \in given => wanted[k] = spec[k]
        /\ k \in inherited \ given => wanted[k] = labels[k].value
  <2> HIDE DEF given, inherited, spec
  <2>1. wanted = [k \in {x \in DOMAIN labels : MatchKey(x, LabelKeys)}
                          \cup {x \in DOMAIN spec : MatchKey(x, SubNamespaceLabelKeys)} |->
                    IF k \in {x \in DOMAIN spec : MatchKey(x, SubNamespaceLabelKeys)}
                    THEN spec[k] ELSE labels[k].value]
    BY DEF Wanted, spec
  <2> QED
    BY <1>7, <1>8, <2>1
<1>10. \A k \in given : spec[k] = sn[<<from, n>>][k]
  BY <1>2, <1>3, <1>4 DEF Given
<1>11. ASSUME NEW k \in Keys
       PROVE  /\ k \in DOMAIN wanted => /\ k \in DOMAIN new.labels
                                        /\ new.labels[k].value = wanted[k]
              /\ k \notin DOMAIN wanted /\ k \in DOMAIN new.labels =>
                   "accurate" \notin new.labels[k].owners
  <2> HIDE DEF wanted, new
  <2>1. CASE k \in DOMAIN wanted
    BY <1>3, <2>1 DEF Applied
  <2>2. CASE k \notin DOMAIN wanted /\ k \in DOMAIN new.labels
    <3>1. k \in DOMAIN ns[n].labels
      BY <1>3, <2>2 DEF Applied
    <3>2. ns[n].labels[k] \in Label
      BY <1>1, <3>1, PartialMapFacts DEF Namespace
    <3>3. new.labels[k] = [ns[n].labels[k] EXCEPT !.owners = @ \ {"accurate"}]
      BY <1>3, <2>2 DEF Applied
    <3>4. new.labels[k].owners = ns[n].labels[k].owners \ {"accurate"}
      BY <3>2, <3>3 DEF Label
    <3> QED
      BY <2>2, <3>4
  <2> QED
    BY <2>1, <2>2
<1> HIDE DEF wanted, new, spec
<1>12. ASSUME NEW k \in Keys
       PROVE  IF Given(ns', sn', n, k)
              THEN k \in DOMAIN ns'[n].labels
                   /\ ns'[n].labels[k].value = sn'[<<ns'[n].parent, n>>][k]
              ELSE IF Inherited(ns', n, k)
              THEN k \in DOMAIN ns'[n].labels
                   /\ ns'[n].labels[k].value = ns'[Source(ns', n)].labels[k].value
              ELSE k \in DOMAIN ns'[n].labels => "accurate" \notin ns'[n].labels[k].owners
  <2>1. CASE Given(ns', sn', n, k)
    <3>1. ns'[n].parent = from
      BY <1>2, <1>3, <1>4, <2>1 DEF Given
    <3> QED
      BY <1>2, <1>9, <1>10, <1>11, <2>1, <3>1
  <2>2. CASE ~Given(ns', sn', n, k) /\ Inherited(ns', n, k)
    BY <1>2, <1>5, <1>9, <1>11, <2>2
  <2>3. CASE ~Given(ns', sn', n, k) /\ ~Inherited(ns', n, k)
    BY <1>2, <1>9, <1>11, <2>3
  <2> QED
    BY <2>1, <2>2, <2>3
<1> QED
  BY <1>12 DEF InPlace

-----------------------------------------------------------------------------
(* The steps of the reconciler, with caches that are up to date.           *)

LEMMA FreshCaches ==
  ASSUME StaleNs = FALSE, StaleSn = FALSE, Ready
  PROVE  nsCache = ns /\ snCache = sn /\ events.ns = {} /\ events.sn = {}
  BY DEF Ready

LEMMA PropagatedRoles ==
  ASSUME TypeOK, NEW n \in Names, NEW from, NEW labels, NEW isSub
  PROVE  LET new == Propagated(n, from, labels, isSub)
         IN  /\ new.type = ns[n].type /\ new.template = ns[n].template
             /\ new.parent = IF isSub THEN from ELSE ns[n].parent
<1>1. ns[n] \in Namespace
  BY DEF TypeOK
<1> DEFINE l == Applied(ns[n].labels, Wanted(n, from, labels, isSub))
<1> HIDE DEF l
<1>2. LET new == [ns[n] EXCEPT !.labels = l, !.parent = IF isSub THEN from ELSE @]
      IN  /\ new.type = ns[n].type /\ new.template = ns[n].template
          /\ new.parent = IF isSub THEN from ELSE ns[n].parent
  BY <1>1 DEF Namespace
<1> QED
  BY <1>2 DEF Propagated, l

LEMMA PropagateMetaRightful ==
  ASSUME TypeOK, Rightful(ns), nsCache = ns, NEW n \in Names, NEW from \in Names,
         NEW labels \in PartialMap(Keys, Label), NEW isSub \in BOOLEAN,
         PropagateMeta(n, from, labels, isSub)
  PROVE  Rightful(ns') /\ (isSub => from # n)
<1> DEFINE new == Propagated(n, from, labels, isSub)
<1>1. /\ new.type = ns[n].type /\ new.template = ns[n].template
      /\ new.parent = IF isSub THEN from ELSE ns[n].parent
  BY PropagatedRoles
<1>2. new \in Namespace /\ HandleUpdate(ns, n, new, ns[n]) /\ ns' = [ns EXCEPT ![n] = new]
  BY PropagateMetaFacts DEF PropagateMeta, WriteNs
<1>3. ns \in [Names -> Namespace]
  BY DEF TypeOK
<1> HIDE DEF new
<1>4. CASE isSub
  <2>1. new.template = Absent /\ from # n
    BY <1>1, <1>2, <1>4, NamesAssumption DEF HandleUpdate, HandleCreate, Parent, Value
  <2> QED
    BY <1>2, <1>3, <2>1, AdmittedIsRightful
<1>5. CASE ~isSub
  BY <1>1, <1>2, <1>3, <1>5, RolesStayRightful
<1> QED
  BY <1>4, <1>5

(* After its own labels a reconciliation goes on to those below it.        *)
LEMMA OwnLabelsWritten ==
  ASSUME Inv, NEW n \in Names, job = NoJob, events.ns = {}, events.sn = {},
         queue' = queue \ {n}, ns' \in [Names -> Namespace], sn' = sn,
         \A x \in Names : x \notin events'.ns => ns'[x] = ns[x],
         n \in Below(ns)' /\ n \notin events'.ns => InPlace(ns', sn', n),
         \A m \in Below(ns)' : Source(ns', m) = n /\ n \notin events'.ns =>
                                 job' # NoJob /\ job'.name = n /\ ~job'.listed
  PROVE  NothingForgotten'
<1> SUFFICES ASSUME NEW m \in Below(ns)'
             PROVE  InPlace(ns', sn', m) \/ Pending(m)'
  BY DEF NothingForgotten
<1>1. CASE m \in events'.ns \/ Source(ns', m) \in events'.ns
  BY <1>1 DEF Pending, Awaited
<1>2. CASE m \notin events'.ns /\ Source(ns', m) \notin events'.ns
  <2>1. /\ m \in Below(ns) /\ Source(ns', m) = Source(ns, m)
        /\ InPlace(ns', sn', m) <=> InPlace(ns, sn, m)
    BY <1>2, UnchangedStays DEF Inv, TypeOK
  <2>2. CASE m = n
    BY <1>2, <2>2
  <2>3. CASE Source(ns', m) = n
    BY <1>2, <2>3 DEF Pending
  <2>4. CASE m # n /\ Source(ns', m) # n
    BY <2>1, <2>4 DEF Inv, NothingForgotten, Pending, Awaited
  <2> QED
    BY <2>2, <2>3, <2>4
<1> QED
  BY <1>1, <1>2

LEMMA ReconcileSubKeepsInv ==
  ASSUME StaleNs = FALSE, StaleSn = FALSE, Inv, NEW n \in Names, ReconcileSub(n)
  PROVE  Rightful(ns') /\ JobSound' /\ NothingForgotten'
<1>1. /\ nsCache = ns /\ snCache = sn /\ events.ns = {} /\ events.sn = {}
      /\ job = NoJob /\ queue' = queue \ {n}
  BY FreshCaches DEF ReconcileSub, Take
<1> DEFINE from == ns[n].parent
           new == Propagated(n, from, ns[from].labels, TRUE)
<1>2. TypeOK /\ Rightful(ns) /\ from \in Names
  BY <1>1, CacheFacts DEF Inv, ReconcileSub
<1>3. PropagateMeta(n, from, ns[from].labels, TRUE) /\ ns[from].labels \in PartialMap(Keys, Label)
  BY <1>1, <1>2, CacheFacts DEF ReconcileSub
<1> HIDE DEF from
<1>4. new \in Namespace /\ WriteNs(n, new)
  BY <1>2, <1>3, PropagateMetaFacts
<1>5. Rightful(ns') /\ from # n
  BY <1>1, <1>2, <1>3, PropagateMetaRightful
<1>6. /\ ns' \in [Names -> Namespace] /\ sn' = sn
      /\ \A x \in Names : x \notin events'.ns => ns'[x] = ns[x]
  BY <1>2, <1>4, WriteNsFacts
<1>7. ns' = [ns EXCEPT ![n] = new]
  BY <1>4 DEF WriteNs
<1>8. InPlace(ns', sn', n)
  BY <1>1, <1>2, <1>4, <1>5, <1>6, <1>7, PropagatedIsInPlace DEF from
<1>9. job' = ListBelow(n, "parent")
  BY DEF ReconcileSub
<1>10. job' # NoJob /\ job'.name = n /\ ~job'.listed /\ job'.below = "parent"
       /\ job'.labels = ns[n].labels
  BY <1>1, <1>2, <1>9, ListBelowType, NoJobAssumption DEF ListBelow
<1>11. JobSound'
  <2>1. CASE n \in events'.ns
    BY <1>10, <2>1 DEF JobSound, Awaited
  <2>2. CASE n \notin events'.ns
    <3>1. ns'[n] = ns[n] /\ ns[n].type = Absent
      BY <1>2, <1>6, <2>2, NamesAssumption DEF Rightful, from
    <3> QED
      BY <1>10, <3>1, TypesAssumption DEF JobSound
  <2> QED
    BY <2>1, <2>2
<1>12. NothingForgotten'
  BY <1>1, <1>6, <1>8, <1>10, OwnLabelsWritten
<1> QED
  BY <1>5, <1>11, <1>12

LEMMA ReconcileTopKeepsInv ==
  ASSUME StaleNs = FALSE, StaleSn = FALSE, Inv, NEW n \in Names, ReconcileTop(n), TypeOK'
  PROVE  Rightful(ns') /\ JobSound' /\ NothingForgotten'
<1>1. /\ nsCache = ns /\ snCache = sn /\ events.ns = {} /\ events.sn = {}
      /\ job = NoJob /\ queue' = queue \ {n} /\ ns[n].parent = Absent
  BY FreshCaches DEF ReconcileTop, Take
<1>2. TypeOK /\ Rightful(ns) /\ ns \in [Names -> Namespace] /\ ns' \in [Names -> Namespace]
  BY DEF Inv, TypeOK
<1>3. /\ Rightful(ns') /\ sn' = sn /\ \A x \in Names : x \notin events'.ns => ns'[x] = ns[x]
      /\ n \in Below(ns)' /\ n \notin events'.ns => InPlace(ns', sn', n)
  <2>1. CASE ns[n].template # Absent
    <3> DEFINE from == ns[n].template
               new == Propagated(n, from, ns[from].labels, FALSE)
    <3>1. from \in Names
      BY <1>1, <1>2, <2>1, CacheFacts
    <3>2. /\ PropagateMeta(n, from, ns[from].labels, FALSE)
          /\ ns[from].labels \in PartialMap(Keys, Label)
      BY <1>1, <1>2, <2>1, <3>1, CacheFacts DEF ReconcileTop
    <3>0. new.template = from
      <4> DEFINE isSub == FALSE
                 given == Propagated(n, from, ns[from].labels, isSub)
      <4>1. given.template = ns[n].template
        <5> HIDE DEF isSub
        <5> QED
          BY <1>2, PropagatedRoles
      <4> QED
        BY <4>1
    <3> HIDE DEF from
    <3>3. new \in Namespace /\ WriteNs(n, new) /\ ns' = [ns EXCEPT ![n] = new]
      BY <1>2, <3>1, <3>2, PropagateMetaFacts DEF WriteNs
    <3>4. Rightful(ns')
      BY <1>1, <1>2, <3>1, <3>2, PropagateMetaRightful
    <3>5. sn' = sn /\ \A x \in Names : x \notin events'.ns => ns'[x] = ns[x]
      BY <1>2, <3>3, WriteNsFacts
    <3>6. from # n
      <4>1. new.template = from
        BY <3>0
      <4>2. HandleCreate(ns, n, new)
        BY <1>1, <3>2 DEF PropagateMeta, HandleUpdate
      <4> HIDE DEF new
      <4> QED
        BY <3>1, <4>1, <4>2, NamesAssumption DEF HandleCreate, Template, Value
    <3>7. InPlace(ns', sn', n)
      BY <1>1, <1>2, <3>1, <3>3, <3>5, <3>6, PropagatedIsInPlace DEF from
    <3> QED
      BY <3>4, <3>5, <3>7
  <2>2. CASE ns[n].template = Absent
    <3>1. UNCHANGED <<ns, sn, events>>
      BY <1>1, <2>2 DEF ReconcileTop
    <3>2. n \notin Below(ns)
      BY <1>1, <2>2 DEF Below, Source
    <3> QED
      BY <1>2, <3>1, <3>2 DEF Below, Source
  <2> QED
    BY <2>1, <2>2
<1>4. job' = CASE ns[n].type = NSTypeRoot -> ListBelow(n, "parent")
               [] ns[n].type = NSTypeTemplate -> ListBelow(n, "template")
               [] OTHER -> NoJob
  BY <1>1 DEF ReconcileTop
<1>5. \/ ns[n].type = NSTypeRoot /\ job' = ListBelow(n, "parent")
      \/ ns[n].type = NSTypeTemplate /\ job' = ListBelow(n, "template")
      \/ ns[n].type \notin {NSTypeRoot, NSTypeTemplate} /\ job' = NoJob
  BY <1>4 DEF NSTypeRoot, NSTypeTemplate
<1>6. \A below \in {"parent", "template"} :
        LET l == ListBelow(n, below)
        IN  l # NoJob /\ l.name = n /\ ~l.listed /\ l.below = below /\ l.labels = ns[n].labels
  BY <1>1, <1>2, ListBelowType, NoJobAssumption DEF ListBelow
<1>7. JobSound'
  <2>1. CASE job' = NoJob
    BY <2>1 DEF JobSound
  <2>2. CASE job' # NoJob /\ n \in events'.ns
    BY <1>5, <1>6, <2>2 DEF JobSound, Awaited
  <2>3. CASE job' # NoJob /\ n \notin events'.ns
    BY <1>3, <1>5, <1>6, <2>3 DEF JobSound, NSTypeRoot, NSTypeTemplate
  <2> QED
    BY <2>1, <2>2, <2>3
<1>8. ASSUME NEW m \in Below(ns)', Source(ns', m) = n, n \notin events'.ns
      PROVE  job' # NoJob /\ job'.name = n /\ ~job'.listed
  <2>1. ns'[n] = ns[n]
    BY <1>3, <1>8
  <2>2. ns[n].type \in {NSTypeRoot, NSTypeTemplate}
    <3>1. ns'[n].parent = Absent
      BY <1>1, <2>1
    <3>2. ns'[n].type \in {NSTypeRoot, NSTypeTemplate}
      BY <1>2, <1>3, <1>8, <3>1 DEF Rightful, Below, Source
    <3> QED
      BY <2>1, <3>2
  <2> QED
    BY <1>5, <1>6, <2>2
<1>9. NothingForgotten'
  BY <1>1, <1>2, <1>3, <1>8, OwnLabelsWritten
<1> QED
  BY <1>3, <1>7, <1>9

(* A list by the right index shows everybody who waits for it.             *)
LEMMA ListKeepsInv ==
  ASSUME StaleNs = FALSE, StaleSn = FALSE, Inv, List
  PROVE  Rightful(ns') /\ JobSound' /\ NothingForgotten'
<1> DEFINE todo == IF job.below = "parent" THEN ChildrenOf(ns, job.name)
                   ELSE InstancesOf(ns, job.name)
<1>1. nsCache = ns /\ UNCHANGED <<ns, sn, events, queue>> /\ job # NoJob /\ ~job.listed
  BY FreshCaches DEF List
<1>2. job' = IF todo = {} THEN NoJob ELSE [job EXCEPT !.listed = TRUE, !.todo = todo]
  BY <1>1 DEF List
<1>3. job \in Jobs /\ ns \in [Names -> Namespace] /\ Rightful(ns)
  BY <1>1 DEF Inv, TypeOK
<1> HIDE DEF todo
<1>4. todo # {} =>
        /\ job' = [job EXCEPT !.listed = TRUE, !.todo = todo]
        /\ job'.name = job.name /\ job'.labels = job.labels /\ job'.below = job.below
        /\ job'.todo = todo
  BY <1>2, <1>3 DEF Jobs
<1>5. JobSound'
  BY <1>1, <1>2, <1>4 DEF Inv, JobSound, Awaited
<1>6. ASSUME NEW m \in Below(ns), Source(ns, m) = job.name, job.name \notin Awaited
      PROVE  m \in todo
  <2>1. job.below = "parent" <=> ns[job.name].type # NSTypeTemplate
    BY <1>1, <1>6 DEF Inv, JobSound
  <2>2. m \in Names /\ job.name \in Names
    BY <1>3, <1>6, SourceFacts
  <2>3. CASE ns[m].parent # Absent
    <3>1. ns[job.name].type = NSTypeRoot \/ ns[job.name].type = Absent
      BY <1>3, <1>6, <2>2, <2>3 DEF Rightful, Source
    <3>2. job.below = "parent"
      BY <2>1, <3>1, TypesAssumption DEF NSTypeRoot, NSTypeTemplate
    <3>3. m \in ChildrenOf(ns, job.name)
      BY <1>3, <1>6, <2>2, <2>3 DEF ChildrenOf, Parent, Value, Source
    <3> QED
      BY <3>2, <3>3 DEF todo
  <2>4. CASE ns[m].parent = Absent
    <3>1. ns[m].template = job.name /\ ns[m].template # Absent
      BY <1>6, <2>4 DEF Source, Below
    <3>2. ns[job.name].type = NSTypeTemplate
      BY <1>3, <2>2, <3>1 DEF Rightful
    <3>3. m \in InstancesOf(ns, job.name)
      BY <1>3, <2>2, <3>1 DEF InstancesOf, Template, Value
    <3> QED
      BY <2>1, <3>2, <3>3 DEF todo
  <2> QED
    BY <2>3, <2>4
<1>7. ASSUME NEW m \in Below(ns)
      PROVE  InPlace(ns, sn, m) \/ Pending(m)'
  <2>1. CASE m \in Awaited \cup events.sn \/ Source(ns, m) \in Awaited
    BY <1>1, <2>1 DEF Pending, Awaited
  <2>2. CASE job.name = Source(ns, m) /\ job.name \notin Awaited
    <3>1. m \in todo
      BY <1>6, <2>2
    <3>2. job' # NoJob /\ job'.name = job.name /\ m \in job'.todo
      <4>1. [job EXCEPT !.listed = TRUE, !.todo = todo].todo = todo
        BY <1>3 DEF Jobs
      <4>2. todo \subseteq Names
        BY <1>3 DEF todo, ChildrenOf, InstancesOf
      <4>3. [job EXCEPT !.listed = TRUE, !.todo = todo] \in Jobs
        BY <1>3, <4>2 DEF Jobs
      <4> QED
        BY <1>4, <3>1, <4>3, NoJobAssumption
    <3> QED
      BY <1>1, <2>2, <3>2 DEF Pending, Source
  <2> QED
    BY <2>1, <2>2 DEF Inv, NothingForgotten, Pending
<1>8. NothingForgotten'
  BY <1>1, <1>7 DEF NothingForgotten, Below, Source, InPlace, Given, Inherited
<1> QED
  BY <1>1, <1>3, <1>5, <1>8

(* A refused write has the namespace reconciled again; an admitted one     *)
(* gives a child of today its labels, and has one of yesterday reconciled. *)
LEMMA PropagateBelowKeepsInv ==
  ASSUME StaleNs = FALSE, StaleSn = FALSE, Inv, PropagateBelow
  PROVE  Rightful(ns') /\ JobSound' /\ NothingForgotten'
<1>1. nsCache = ns /\ snCache = sn /\ events.ns = {} /\ events.sn = {} /\ job # NoJob /\ job.listed
  BY FreshCaches DEF PropagateBelow
<1>2. /\ TypeOK /\ Rightful(ns) /\ ns \in [Names -> Namespace]
      /\ job \in Jobs /\ job.name \in Names /\ job.todo \subseteq Names
      /\ job.labels \in PartialMap(Keys, Label) /\ job.below \in {"parent", "template"}
  BY PropagateBelowFacts DEF Inv, TypeOK, Jobs
<1>3. CASE queue' = queue \cup {job.name} /\ job' = NoJob /\ UNCHANGED <<ns, sn, events>>
  <2>1. ASSUME NEW m \in Below(ns), Pending(m) PROVE Pending(m)'
    BY <1>3, <2>1 DEF Pending, Awaited, Source
  <2>2. \A m \in Below(ns) : InPlace(ns, sn, m) \/ Pending(m)'
    BY <2>1 DEF Inv, NothingForgotten
  <2>3. NothingForgotten'
    BY <1>3, <2>2 DEF NothingForgotten, Below, Source, InPlace, Given, Inherited
  <2> QED
    BY <1>2, <1>3, <2>3 DEF JobSound
<1>4. ASSUME NEW c \in job.todo,
             PropagateMeta(c, job.name, job.labels, job.below = "parent"),
             job' = IF job.todo = {c} THEN NoJob ELSE [job EXCEPT !.todo = @ \ {c}],
             UNCHANGED queue
      PROVE  Rightful(ns') /\ JobSound' /\ NothingForgotten'
  <2> DEFINE isSub == job.below = "parent"
             new == Propagated(c, job.name, job.labels, isSub)
  <2>1. isSub \in BOOLEAN /\ c \in Names
    BY <1>2
  <2>2. isSub <=> job.below = "parent"
    OBVIOUS
  <2>3. PropagateMeta(c, job.name, job.labels, isSub)
    BY <1>4
  <2> HIDE DEF isSub
  <2>4. Rightful(ns') /\ (isSub => job.name # c)
    BY <1>1, <1>2, <2>1, <2>3, PropagateMetaRightful
  <2>5. new \in Namespace /\ WriteNs(c, new) /\ ns' = [ns EXCEPT ![c] = new]
    BY <1>2, <2>1, <2>3, PropagateMetaFacts DEF WriteNs
  <2>6. /\ ns' \in [Names -> Namespace] /\ sn' = sn
        /\ \A x \in Names : x \notin events'.ns => ns'[x] = ns[x]
    BY <1>2, <2>1, <2>5, WriteNsFacts
  <2>7. job' # NoJob => /\ job'.name = job.name /\ job'.labels = job.labels
                        /\ job'.below = job.below /\ job'.listed
                        /\ job'.todo = job.todo \ {c}
    BY <1>1, <1>2, <1>4 DEF Jobs
  <2>8. job.todo # {c} => job' # NoJob
    <3>1. [job EXCEPT !.todo = job.todo \ {c}] \in Jobs
      BY <1>2 DEF Jobs
    <3> QED
      BY <1>4, <3>1, NoJobAssumption
  <2>9. JobSound'
    <3>1. job.name \notin events'.ns => ns'[job.name] = ns[job.name]
      BY <1>2, <2>6
    <3> QED
      BY <1>1, <1>4, <2>7, <3>1 DEF Inv, JobSound, Awaited
  <2>10. ASSUME c \in Below(ns), Source(ns, c) = job.name, job.name \notin Awaited, ns' = ns
         PROVE  InPlace(ns', sn', c)
    <3>1. job.labels = ns[job.name].labels /\ (isSub <=> ns[job.name].type # NSTypeTemplate)
      BY <1>1, <2>2, <2>10 DEF Inv, JobSound
    <3>2. isSub <=> ns[c].parent # Absent
      <4>1. CASE ns[c].parent # Absent
        <5>1. ns[job.name].type = NSTypeRoot \/ ns[job.name].type = Absent
          BY <1>2, <2>1, <2>10, <4>1 DEF Rightful, Source
        <5> QED
          BY <3>1, <4>1, <5>1, TypesAssumption DEF NSTypeRoot, NSTypeTemplate
      <4>2. CASE ns[c].parent = Absent
        <5>1. ns[c].template = job.name /\ ns[c].template # Absent
          BY <2>10, <4>2 DEF Source, Below
        <5>2. ns[job.name].type = NSTypeTemplate
          BY <1>2, <2>1, <5>1 DEF Rightful
        <5> QED
          BY <3>1, <4>2, <5>2
      <4> QED
        BY <4>1, <4>2
    <3>3. isSub => ns[c].parent = job.name
      BY <2>10, <3>2 DEF Source
    <3>4. ~isSub => ns[c].parent = Absent /\ ns[c].template = job.name
      BY <2>10, <3>2 DEF Source
    <3>5. job.name # c
      <4>1. CASE isSub
        BY <2>4, <4>1
      <4>2. CASE ~isSub
        <5>1. HandleCreate(ns, c, new)
          BY <1>1, <2>3 DEF PropagateMeta, HandleUpdate
        <5>2. new.template = ns[c].template
          BY <1>2, <2>1, PropagatedRoles
        <5>3. new.template = job.name
          BY <3>4, <4>2, <5>2
        <5> HIDE DEF new
        <5> QED
          BY <1>2, <5>1, <5>3, NamesAssumption DEF HandleCreate, Template, Value
      <4> QED
        BY <4>1, <4>2
    <3>6. new = Propagated(c, job.name, ns[job.name].labels, isSub)
      BY <3>1
    <3> QED
      BY <1>1, <1>2, <2>1, <2>5, <2>6, <3>3, <3>4, <3>5, <3>6, PropagatedIsInPlace
  <2>11. ASSUME NEW m \in Below(ns)'
         PROVE  InPlace(ns', sn', m) \/ Pending(m)'
    <3>1. CASE m \in events'.ns \/ Source(ns', m) \in events'.ns
      BY <3>1 DEF Pending, Awaited
    <3>2. CASE m \notin events'.ns /\ Source(ns', m) \notin events'.ns
      <4>1. /\ m \in Below(ns) /\ m \in Names /\ Source(ns', m) = Source(ns, m)
            /\ InPlace(ns', sn', m) <=> InPlace(ns, sn, m)
        BY <1>2, <2>6, <3>2, UnchangedStays
      <4>2. CASE m \in Awaited \/ Source(ns, m) \in Awaited
        BY <1>1, <1>4, <4>1, <4>2 DEF Pending, Awaited
      <4>3. CASE m \in job.todo /\ m # c /\ Source(ns, m) = job.name
        <5>1. job' # NoJob
          BY <2>8, <4>3
        <5> QED
          BY <2>7, <4>1, <4>3, <5>1 DEF Pending
      <4>4. CASE m = c /\ Source(ns, m) = job.name /\ job.name \notin Awaited
        <5>1. ns' = ns
          BY <1>2, <2>1, <2>5, <2>6, <3>2, <4>4
        <5> QED
          BY <2>10, <4>1, <4>4, <5>1
      <4> QED
        BY <1>1, <4>1, <4>2, <4>3, <4>4 DEF Inv, NothingForgotten, Pending
    <3> QED
      BY <3>1, <3>2
  <2> QED
    BY <2>4, <2>9, <2>11 DEF NothingForgotten
<1> QED
  BY <1>2, <1>3, <1>4, PropagateBelowFacts

-----------------------------------------------------------------------------
(* Everybody else announces what they change.                              *)

LEMMA UsersKeepInv ==
  ASSUME Inv, Users
  PROVE  Rightful(ns') /\ JobSound' /\ NothingForgotten'
<1>1. UNCHANGED <<nsCache, snCache, queue, job>>
  BY UserStep DEF Inv, OneWrite, Act
<1>2. TypeOK /\ Rightful(ns) /\ ns \in [Names -> Namespace]
  BY DEF Inv, TypeOK
<1>3. ASSUME NEW n \in Names, NEW new \in Namespace, LabelsOrMoves(n, new)
      PROVE  Rightful(ns') /\ JobSound' /\ NothingForgotten'
  <2>1. WriteNs(n, new) /\ ns' = [ns EXCEPT ![n] = new]
    BY <1>3 DEF LabelsOrMoves, WriteNs
  <2>2. Rightful(ns')
    BY <1>2, <1>3, <2>1, RolesStayRightful, AdmittedIsRightful DEF LabelsOrMoves
  <2>3. /\ ns' \in [Names -> Namespace] /\ sn' = sn
        /\ \A x \in Names : x \notin events'.ns => ns'[x] = ns[x]
        /\ events.ns \subseteq events'.ns /\ events'.sn = events.sn
    BY <1>2, <2>1, WriteNsFacts
  <2> QED
    BY <1>1, <2>2, <2>3, AnnouncedIsPending DEF Awaited
<1>4. ASSUME NEW k \in SubNames, sn' = sn \/ k[2] \in events'.sn \/ ns[k[2]].parent # k[1],
             \A x : x # k => (x \in DOMAIN sn' <=> x \in DOMAIN sn)
                             /\ (x \in DOMAIN sn => sn'[x] = sn[x]),
             ns' = ns, events'.ns = events.ns, events.sn \subseteq events'.sn
      PROVE  Rightful(ns') /\ JobSound' /\ NothingForgotten'
  <2>1. JobSound'
    BY <1>1, <1>4 DEF Inv, JobSound, Awaited
  <2>2. ASSUME NEW m \in Below(ns)
        PROVE  InPlace(ns', sn', m) \/ Pending(m)'
    <3>1. CASE Pending(m)
      BY <1>1, <1>4, <3>1 DEF Pending, Awaited, Source
    <3>2. CASE <<ns[m].parent, m>> = k /\ k[2] \in events'.sn
      BY <3>2 DEF Pending
    <3>3. CASE InPlace(ns, sn, m) /\ <<ns[m].parent, m>> # k
      <4>1. \A key : /\ Given(ns', sn', m, key) <=> Given(ns, sn, m, key)
                     /\ Inherited(ns', m, key) <=> Inherited(ns, m, key)
        BY <1>4, <3>3 DEF Given, Inherited, Source
      <4> QED
        BY <1>4, <3>3, <4>1 DEF InPlace, Given, Source
    <3>4. CASE InPlace(ns, sn, m) /\ sn' = sn
      BY <1>4, <3>4
    <3> QED
      BY <1>4, <3>1, <3>2, <3>3, <3>4 DEF Inv, NothingForgotten
  <2> QED
    BY <1>2, <1>4, <2>1, <2>2 DEF NothingForgotten, Below, Source
<1>5. ASSUME NEW k \in SubNames, NEW spec \in Specs, WriteSubNamespace(k, spec)
      PROVE  Rightful(ns') /\ JobSound' /\ NothingForgotten'
  <2>1. events \in [ns: SUBSET Names, sn: SUBSET Names]
    BY <1>2 DEF TypeOK
  <2>2. k[2] \in events'.sn /\ events'.ns = events.ns /\ events.sn \subseteq events'.sn /\ ns' = ns
    BY <1>5, <2>1 DEF WriteSubNamespace
  <2>3. \A x : x # k => (x \in DOMAIN sn' <=> x \in DOMAIN sn)
                        /\ (x \in DOMAIN sn => sn'[x] = sn[x])
    BY <1>5 DEF WriteSubNamespace, Put
  <2> QED
    BY <1>4, <2>2, <2>3
<1>6. ASSUME NEW k \in SubNames, DeleteSubNamespace(k)
      PROVE  Rightful(ns') /\ JobSound' /\ NothingForgotten'
  <2>1. ns' = ns /\ events' = events
    BY <1>6 DEF DeleteSubNamespace
  <2>2. ns[k[2]].parent # k[1]
    BY <1>6, NamesAssumption DEF DeleteSubNamespace, Parent, Value, SubNames
  <2>3. \A x : x # k => (x \in DOMAIN sn' <=> x \in DOMAIN sn)
                        /\ (x \in DOMAIN sn => sn'[x] = sn[x])
    BY <1>6 DEF DeleteSubNamespace, Drop
  <2> QED
    BY <1>4, <2>1, <2>2, <2>3
<1> QED
  BY <1>2, <1>3, <1>5, <1>6, UserStep DEF OneWrite

LEMMA StepKeepsInv ==
  ASSUME StaleNs = FALSE, StaleSn = FALSE, Inv, [Next]_vars
  PROVE  Inv'
<1>1. TypeOK'
  BY StepKeepsTypes DEF Inv
<1>2. /\ ns \in [Names -> Namespace] /\ Rightful(ns)
      /\ events \in [ns: SUBSET Names, sn: SUBSET Names]
  BY DEF Inv, TypeOK
<1>3. CASE SyncNs
  <2>1. ns' = ns /\ sn' = sn /\ job' = job /\ queue' = queue \cup events.ns
        /\ events'.ns = {} /\ events'.sn = events.sn
    BY <1>2, <1>3 DEF SyncNs
  <2>2. JobSound' /\ NothingForgotten'
    BY <1>2, <2>1, AnnouncedIsPending DEF Awaited
  <2> QED
    BY <1>1, <1>2, <2>1, <2>2 DEF Inv
<1>4. CASE SyncSn
  <2>1. ns' = ns /\ sn' = sn /\ job' = job /\ queue' = queue \cup events.sn
        /\ events'.ns = events.ns /\ events'.sn = {}
    BY <1>2, <1>4 DEF SyncSn
  <2>2. JobSound' /\ NothingForgotten'
    BY <1>2, <2>1, AnnouncedIsPending DEF Awaited
  <2> QED
    BY <1>1, <1>2, <2>1, <2>2 DEF Inv
<1>5. CASE Restart
  <2>1. job' = NoJob /\ queue' = Names /\ ns' = ns
    BY <1>5 DEF Restart
  <2> QED
    BY <1>1, <1>2, <2>1 DEF Inv, JobSound, NothingForgotten, Pending, Awaited, Below
<1>6. CASE UNCHANGED vars
  BY <1>6 DEF vars, Inv, TypeOK, Rightful, JobSound, NothingForgotten, Pending, Awaited,
              Below, Source, InPlace, Given, Inherited
<1>7. ASSUME NEW n \in Names, Reconcile(n) PROVE Inv'
  BY <1>1, <1>7, ReconcileSubKeepsInv, ReconcileTopKeepsInv DEF Reconcile, Inv
<1>8. CASE List
  BY <1>1, <1>8, ListKeepsInv DEF Inv
<1>9. CASE PropagateBelow
  BY <1>1, <1>9, PropagateBelowKeepsInv DEF Inv
<1>10. CASE Users
  BY <1>1, <1>10, UsersKeepInv DEF Inv
<1> QED
  BY <1>3, <1>4, <1>5, <1>6, <1>7, <1>8, <1>9, <1>10 DEF Next

(* With up-to-date caches no wake-up of the reconciler of Namespaces is    *)
(* lost: whenever it rests every sub-namespace and every instance has the  *)
(* labels it is to have, and no others of Accurate's, whatever users have  *)
(* labelled, moved and written, and wherever Accurate was restarted.       *)
THEOREM LabelsInPlaceWhenFresh ==
  ASSUME StaleNs = FALSE, StaleSn = FALSE
  PROVE  Spec => []LabelsInPlace
<1>1. Inv /\ [Next]_vars => Inv'
  BY StepKeepsInv
<1> QED
  BY InvInit, <1>1, InvAtRest, PTL DEF Spec
=============================================================================
