-------------------------- MODULE PropagationProofs --------------------------
(***************************************************************************)
(* What both controllers keep for any set of namespaces, any tree and any  *)
(* number of things that users do: the types of everything they write,     *)
(* that they do not touch what a user has made in a namespace that hangs   *)
(* below no other, and that, once they rest, every copy is in its place    *)
(* and none is where it does not belong.                                   *)
(***************************************************************************)
EXTENDS Propagation, PartialMapsProofs

NsTypes == ns \in Namespaces /\ nsEvents \subseteq Names

ObjTypes ==
  /\ obj \in Resources
  /\ objEvents \subseteq Names
  /\ DOMAIN obj \subseteq DOMAIN ns

CacheTypes == nsCache \in Namespaces /\ objCache \in Resources

WorkTypes ==
  /\ nsQueue \subseteq Names /\ objQueue \subseteq Names
  /\ nsJob \in NsJobs \cup {NoJob} /\ objJob \in ObjJobs \cup {NoJob}
  /\ ops \in 0..MaxOps /\ given \subseteq Modes

LEMMA TypeParts == TypeOK <=> NsTypes /\ ObjTypes /\ CacheTypes /\ WorkTypes
  BY DEF TypeOK, NsTypes, ObjTypes, CacheTypes, WorkTypes

-----------------------------------------------------------------------------
(* What writes preserve.                                                   *)

LEMMA MapFacts ==
  /\ \A f \in Namespaces : DOMAIN f \subseteq Names /\ f \in [DOMAIN f -> Namespace]
  /\ \A f \in Resources : DOMAIN f \subseteq Names /\ f \in [DOMAIN f -> Resource]
  BY PartialMapFacts DEF Namespaces, Resources

LEMMA WriteNsTypes ==
  ASSUME NsTypes, NEW new \in Namespaces, WriteNs(new)
  PROVE  NsTypes'
  BY MapFacts DEF NsTypes, WriteNs

LEMMA WriteObjTypes ==
  ASSUME ObjTypes, NEW new \in Resources, WriteObj(new),
         DOMAIN new \subseteq DOMAIN ns, ns' = ns
  PROVE  ObjTypes'
<1>1. DOMAIN obj \subseteq Names /\ DOMAIN new \subseteq Names
  BY MapFacts DEF ObjTypes
<1> QED
  BY <1>1 DEF ObjTypes, WriteObj

LEMMA PutObjTypes ==
  ASSUME NsTypes, ObjTypes, NEW n \in DOMAIN ns, NEW o \in Resource,
         WriteObj(Put(obj, n, o)), ns' = ns
  PROVE  ObjTypes'
<1>1. n \in Names
  BY MapFacts DEF NsTypes
<1>2. Put(obj, n, o) \in Resources
  BY <1>1, PutDropTypes DEF ObjTypes, Resources
<1>3. DOMAIN Put(obj, n, o) \subseteq DOMAIN ns
  BY DEF ObjTypes, Put
<1> QED
  BY <1>2, <1>3, WriteObjTypes

LEMMA DropObjTypes ==
  ASSUME ObjTypes, NEW n \in DOMAIN obj, WriteObj(Drop(obj, n)), ns' = ns
  PROVE  ObjTypes'
<1>1. n \in Names /\ obj[n] \in Resource
  BY MapFacts DEF ObjTypes
<1>2. Drop(obj, n) \in Resources
  BY <1>1, PutDropTypes DEF ObjTypes, Resources
<1>3. DOMAIN Drop(obj, n) \subseteq DOMAIN ns
  BY DEF ObjTypes, Drop
<1> QED
  BY <1>2, <1>3, WriteObjTypes

LEMMA ApplyTypes ==
  ASSUME NsTypes, ObjTypes, NEW n, NEW o \in Resource, MayApply(n), Apply(n, o), ns' = ns
  PROVE  ObjTypes'
<1>1. n \in DOMAIN ns
  BY DEF MayApply, MayCreate, ObjTypes
<1>2. PICK left \in SUBSET (IF n \in DOMAIN obj THEN obj[n].fields \ o.fields ELSE {}) :
        WriteObj(Put(obj, n, [o EXCEPT !.fields = @ \cup left]))
  BY DEF Apply
<1>3. left \subseteq Fields
  BY <1>2, MapFacts DEF ObjTypes, Resource
<1>4. [o EXCEPT !.fields = @ \cup left] \in Resource
  BY <1>3 DEF Resource
<1> QED
  BY <1>1, <1>2, <1>4, PutObjTypes

LEMMA CloneTypes ==
  ASSUME NEW o \in Resource, NEW p \in Names
  PROVE  Clone(o, p) \in Resource
  BY DEF Clone, Resource

(* A resource that the cache shows, copied from the namespace it is in.    *)
LEMMA CachedCloneTypes ==
  ASSUME CacheTypes, NEW p \in DOMAIN objCache
  PROVE  p \in Names /\ Clone(objCache[p], p) \in Resource
<1>1. p \in Names /\ objCache[p] \in Resource
  BY MapFacts DEF CacheTypes
<1> QED
  BY <1>1, CloneTypes

-----------------------------------------------------------------------------
(* Type correctness.                                                       *)

LEMMA ForChildrenTypes ==
  ASSUME NEW n \in Names, NEW kind, NEW o, NEW todo \in SUBSET Names,
         (kind = "delete" /\ o = Absent) \/ (kind \in Modes /\ o \in Resource),
         ForChildren(n, kind, o, todo)
  PROVE  objJob' \in ObjJobs \cup {NoJob}
  BY DEF ForChildren, ObjJobs

LEMMA GetChildrenTypes == ASSUME CacheTypes, NEW n PROVE GetChildren(n) \in SUBSET Names
<1>1. DOMAIN nsCache \subseteq Names
  BY MapFacts DEF CacheTypes
<1> QED
  BY <1>1 DEF GetChildren, ChildrenOf, InstancesOf

LEMMA JobFacts ==
  ASSUME WorkTypes, objJob # NoJob
  PROVE  /\ objJob.ns \in Names /\ objJob.todo \in SUBSET Names
         /\ \/ objJob.kind = "delete" /\ objJob.res = Absent
            \/ objJob.kind \in Modes /\ objJob.res \in Resource
  BY DEF WorkTypes, ObjJobs

LEMMA ReconcileObjTypes ==
  ASSUME NsTypes, ObjTypes, CacheTypes, WorkTypes, NEW n \in Names, ReconcileObj(n)
  PROVE  NsTypes' /\ ObjTypes' /\ CacheTypes' /\ WorkTypes'
<1>1. TakeObj(n)
  BY DEF ReconcileObj, HandleDeleteNowhere, HandleDeleteRecreate, HandleDeleteCascade,
         DeleteOrphan, FollowParent, HandOn
<1>2. NsTypes' /\ CacheTypes' /\ ns' = ns
  BY <1>1 DEF TakeObj, NsTypes, CacheTypes, nsVars, caches
<1>3. ASSUME UNCHANGED objVars PROVE ObjTypes'
  BY <1>2, <1>3 DEF ObjTypes, objVars
<1>4. ASSUME objJob' \in ObjJobs \cup {NoJob} PROVE WorkTypes'
  BY <1>1, <1>4 DEF TakeObj, WorkTypes, done
<1>5. CASE HandleDeleteNowhere(n)
  BY <1>2, <1>3, <1>4, <1>5 DEF HandleDeleteNowhere, WorkTypes
<1>6. CASE HandleDeleteRecreate(n)
  <2>1. WorkTypes'
    BY <1>4, <1>6 DEF HandleDeleteRecreate, WorkTypes
  <2>2. CASE UNCHANGED objVars
    BY <1>2, <1>3, <2>1, <2>2
  <2>3. CASE MayCreate(n) /\ WriteObj(Put(obj, n, Clone(objCache[SupportOf(n)], SupportOf(n))))
    <3>1. n \in DOMAIN ns /\ SupportOf(n) \in DOMAIN objCache
      BY <1>6, <2>3 DEF HandleDeleteRecreate, MayCreate, Supported
    <3> QED
      BY <1>2, <2>1, <2>3, <3>1, CachedCloneTypes, PutObjTypes
  <2> QED
    BY <1>6, <2>2, <2>3 DEF HandleDeleteRecreate
<1>7. CASE HandleDeleteCascade(n)
  <2>1. objJob' \in ObjJobs \cup {NoJob}
    BY <1>7, GetChildrenTypes, ForChildrenTypes DEF HandleDeleteCascade
  <2> QED
    BY <1>2, <1>3, <1>4, <1>7, <2>1 DEF HandleDeleteCascade
<1>8. CASE DeleteOrphan(n)
  BY <1>2, <1>4, <1>8, DropObjTypes DEF DeleteOrphan, WorkTypes
<1>9. CASE FollowParent(n)
  <2>1. From(n) \in DOMAIN objCache
    BY <1>9 DEF FollowParent, Has
  <2>2. MayApply(n) /\ Apply(n, Clone(objCache[From(n)], From(n)))
    BY <1>9 DEF FollowParent
  <2>3. ObjTypes'
    BY <1>2, <2>1, <2>2, CachedCloneTypes, ApplyTypes
  <2> QED
    BY <1>2, <1>4, <1>9, <2>3 DEF FollowParent, WorkTypes
<1>10. CASE HandOn(n)
  <2>1. objCache[n] \in Resource
    BY <1>10, MapFacts DEF HandOn, CacheTypes
  <2>2. objJob' \in ObjJobs \cup {NoJob}
    <3>1. CASE objCache[n].mode \in Modes
      <4>1. ForChildren(n, objCache[n].mode, objCache[n], GetChildren(n))
        BY <1>10, <3>1 DEF HandOn
      <4> QED
        BY <2>1, <3>1, <4>1, GetChildrenTypes, ForChildrenTypes
    <3>2. CASE objCache[n].mode \notin Modes
      BY <1>10, <3>2 DEF HandOn, WorkTypes
    <3> QED
      BY <3>1, <3>2
  <2> QED
    BY <1>2, <1>3, <1>4, <1>10, <2>2 DEF HandOn
<1> QED
  BY <1>5, <1>6, <1>7, <1>8, <1>9, <1>10 DEF ReconcileObj

LEMMA CopyStepTypes ==
  ASSUME NsTypes, ObjTypes, CacheTypes, WorkTypes, CopyStep
  PROVE  NsTypes' /\ ObjTypes' /\ CacheTypes' /\ WorkTypes'
<1>1. PICK c \in Names : SkipChild(c) \/ CreateCopy(c) \/ ApplyCopy(c) \/ DeleteCopy(c)
  BY DEF CopyStep
<1>2. AtChild(c)
  BY <1>1 DEF SkipChild, CreateCopy, ApplyCopy, DeleteCopy
<1>3. NsTypes' /\ CacheTypes' /\ ns' = ns
  BY <1>2 DEF AtChild, NsTypes, CacheTypes, nsVars, caches
<1>4. ASSUME UNCHANGED objVars PROVE ObjTypes'
  BY <1>3, <1>4 DEF ObjTypes, objVars
<1>5. ASSUME objJob' \in ObjJobs \cup {NoJob}, objQueue' \subseteq Names PROVE WorkTypes'
  BY <1>2, <1>5 DEF AtChild, WorkTypes, done
<1>6. ASSUME NextChild(c) PROVE WorkTypes'
  <2>1. objJob' \in ObjJobs \cup {NoJob}
    <3>1. objJob.todo \ {c} \in SUBSET Names
      BY <1>2, JobFacts DEF AtChild
    <3> QED
      BY <1>2, <1>6, <3>1, JobFacts, ForChildrenTypes DEF AtChild, NextChild
  <2> QED
    BY <1>5, <1>6, <2>1 DEF NextChild, WorkTypes
<1>7. ASSUME Retry PROVE ObjTypes' /\ WorkTypes'
  BY <1>2, <1>4, <1>5, <1>7, JobFacts DEF AtChild, Retry, WorkTypes
<1>8. ASSUME objJob.kind \in Modes PROVE Clone(objJob.res, objJob.ns) \in Resource
  BY <1>2, <1>8, JobFacts, CloneTypes DEF AtChild, Modes, PropagateCreate, PropagateUpdate
<1>9. CASE SkipChild(c)
  BY <1>3, <1>4, <1>6, <1>9 DEF SkipChild
<1>10. CASE CreateCopy(c)
  <2>1. CASE MayCreate(c)
    <3>1. /\ WriteObj(Put(obj, c, Clone(objJob.res, objJob.ns)))
          /\ NextChild(c)
          /\ objJob.kind \in Modes
          /\ c \in DOMAIN ns
      BY <1>10, <2>1 DEF CreateCopy, MayCreate
    <3> QED
      BY <1>3, <1>6, <1>8, <3>1, PutObjTypes
  <2>2. CASE ~MayCreate(c) /\ IsTerminating(c)
    BY <1>3, <1>4, <1>5, <1>10, <2>2 DEF CreateCopy, WorkTypes
  <2>3. CASE ~MayCreate(c) /\ ~IsTerminating(c)
    BY <1>3, <1>7, <1>10, <2>3 DEF CreateCopy
  <2> QED
    BY <2>1, <2>2, <2>3
<1>11. CASE ApplyCopy(c)
  <2>1. CASE MayApply(c)
    <3>1. Apply(c, Clone(objJob.res, objJob.ns)) /\ NextChild(c) /\ objJob.kind \in Modes
      BY <1>11, <2>1 DEF ApplyCopy, Modes
    <3> QED
      BY <1>3, <1>6, <1>8, <2>1, <3>1, ApplyTypes
  <2>2. CASE ~MayApply(c)
    BY <1>3, <1>7, <1>11, <2>2 DEF ApplyCopy
  <2> QED
    BY <2>1, <2>2
<1>12. CASE DeleteCopy(c)
  BY <1>3, <1>6, <1>7, <1>12, DropObjTypes DEF DeleteCopy
<1> QED
  BY <1>1, <1>9, <1>10, <1>11, <1>12

LEMMA ReconcileNsTypes ==
  ASSUME NsTypes, ObjTypes, CacheTypes, WorkTypes, NEW n \in Names, ReconcileNs(n)
  PROVE  NsTypes' /\ ObjTypes' /\ CacheTypes' /\ WorkTypes'
<1>1. TakeNs(n)
  BY DEF ReconcileNs, IgnoreNs, BeginPropagate, DeletePropagated
<1>2. NsTypes' /\ CacheTypes' /\ ns' = ns
  BY <1>1 DEF TakeNs, NsTypes, CacheTypes, nsVars, caches
<1>3. ASSUME UNCHANGED objVars PROVE ObjTypes'
  BY <1>2, <1>3 DEF ObjTypes, objVars
<1>4. ASSUME nsJob' \in NsJobs \cup {NoJob} PROVE WorkTypes'
  BY <1>1, <1>4 DEF TakeNs, WorkTypes, done
<1>5. CASE IgnoreNs(n)
  BY <1>2, <1>3, <1>4, <1>5 DEF IgnoreNs, WorkTypes
<1>6. CASE BeginPropagate(n)
  <2>1. SupportOf(n) \in Names
    BY <1>6, MapFacts DEF BeginPropagate, CacheTypes
  <2>2. nsJob' \in NsJobs
    BY <1>6, <2>1 DEF BeginPropagate, NsJobs
  <2> QED
    BY <1>2, <1>3, <1>4, <1>6, <2>2 DEF BeginPropagate
<1>7. CASE DeletePropagated(n)
  <2>1. nsJob' \in NsJobs \cup {NoJob}
    BY <1>7 DEF DeletePropagated, WorkTypes
  <2>2. ObjTypes'
    BY <1>2, <1>3, <1>7, DropObjTypes DEF DeletePropagated
  <2> QED
    BY <1>2, <1>4, <2>1, <2>2
<1> QED
  BY <1>5, <1>6, <1>7 DEF ReconcileNs

LEMMA PropagateStepTypes ==
  ASSUME NsTypes, ObjTypes, CacheTypes, WorkTypes, PropagateStep
  PROVE  NsTypes' /\ ObjTypes' /\ CacheTypes' /\ WorkTypes'
<1>1. /\ nsJob # NoJob
      /\ UNCHANGED <<nsVars, caches, objQueue, objJob, done>>
  BY DEF PropagateStep, PropagateCreatePhase, PropagateUpdatePhase, SweepPhase, InPhase
<1>2. NsTypes' /\ CacheTypes' /\ ns' = ns
  BY <1>1 DEF NsTypes, CacheTypes, nsVars, caches
<1>3. ASSUME UNCHANGED objVars PROVE ObjTypes'
  BY <1>2, <1>3 DEF ObjTypes, objVars
<1>4. nsJob \in NsJobs /\ nsJob.ns \in Names /\ nsJob.parent \in Names
  BY <1>1 DEF WorkTypes, NsJobs
<1>5. ASSUME nsJob' \in NsJobs \cup {NoJob}, nsQueue' \subseteq Names PROVE WorkTypes'
  BY <1>1, <1>5 DEF WorkTypes, done
<1>6. /\ [nsJob EXCEPT !.phase = "update"] \in NsJobs
      /\ \A present \in BOOLEAN :
           [nsJob EXCEPT !.phase = "sweep", !.present = present] \in NsJobs
  BY <1>4 DEF NsJobs
<1>7. ASSUME NEW o \in Resource, NEW next \in NsJobs, CreateOrRetry(nsJob.ns, o, next)
      PROVE  ObjTypes' /\ WorkTypes'
  <2>1. CASE MayCreate(nsJob.ns)
    <3>1. /\ WriteObj(Put(obj, nsJob.ns, o))
          /\ nsJob' = next /\ nsQueue' = nsQueue
          /\ nsJob.ns \in DOMAIN ns
      BY <1>7, <2>1 DEF CreateOrRetry, MayCreate
    <3> QED
      BY <1>2, <1>5, <3>1, PutObjTypes DEF WorkTypes
  <2>2. CASE ~MayCreate(nsJob.ns)
    BY <1>3, <1>4, <1>5, <1>7, <2>2 DEF CreateOrRetry, WorkTypes
  <2> QED
    BY <2>1, <2>2
<1>8. CASE PropagateCreatePhase
  <2>1. CASE Has(objCache, nsJob.parent, PropagateCreate) /\ nsJob.ns \notin DOMAIN objCache
    <3>1. Clone(objCache[nsJob.parent], nsJob.parent) \in Resource
      BY <2>1, CachedCloneTypes DEF Has
    <3> QED
      BY <1>2, <1>6, <1>7, <1>8, <2>1, <3>1 DEF PropagateCreatePhase
  <2>2. CASE ~(Has(objCache, nsJob.parent, PropagateCreate) /\ nsJob.ns \notin DOMAIN objCache)
    BY <1>2, <1>3, <1>5, <1>6, <1>8, <2>2 DEF PropagateCreatePhase, WorkTypes
  <2> QED
    BY <2>1, <2>2
<1>9. CASE PropagateUpdatePhase
  <2> DEFINE n == nsJob.ns
             p == nsJob.parent
             present == Has(objCache, p, PropagateUpdate)
             next == [nsJob EXCEPT !.phase = "sweep", !.present = present]
  <2>1. next \in NsJobs
    BY <1>6 DEF Has
  <2>2. CASE nsJob' = next /\ UNCHANGED <<objVars, nsQueue>>
    BY <1>2, <1>3, <1>5, <2>1, <2>2 DEF WorkTypes
  <2>3. CASE nsJob' = NoJob /\ nsQueue' = nsQueue \cup {n} /\ UNCHANGED objVars
    BY <1>2, <1>3, <1>4, <1>5, <2>3 DEF WorkTypes
  <2>4. CASE present /\ CreateOrRetry(n, Clone(objCache[p], p), next)
    <3>1. Clone(objCache[p], p) \in Resource
      BY <2>4, CachedCloneTypes DEF Has
    <3> QED
      BY <1>2, <1>7, <2>1, <2>4, <3>1
  <2>5. CASE present /\ MayApply(n) /\ Apply(n, Clone(objCache[p], p)) /\ nsJob' = next
             /\ UNCHANGED nsQueue
    <3>1. Clone(objCache[p], p) \in Resource
      BY <2>5, CachedCloneTypes DEF Has
    <3> QED
      BY <1>2, <1>5, <2>1, <2>5, <3>1, ApplyTypes DEF WorkTypes
  <2> QED
    BY <1>9, <2>2, <2>3, <2>4, <2>5 DEF PropagateUpdatePhase
<1>10. CASE SweepPhase
  <2>1. WorkTypes'
    BY <1>4, <1>5, <1>10 DEF SweepPhase, WorkTypes
  <2>2. ObjTypes'
    BY <1>2, <1>3, <1>10, DropObjTypes DEF SweepPhase
  <2> QED
    BY <1>2, <2>1, <2>2
<1> QED
  BY <1>8, <1>9, <1>10 DEF PropagateStep

LEMMA UsersTypes ==
  ASSUME NsTypes, ObjTypes, CacheTypes, WorkTypes, Users
  PROVE  NsTypes' /\ ObjTypes' /\ CacheTypes' /\ WorkTypes'
<1>1. Act
  BY DEF Users, CreateResource, EditResource, DeleteResource, Relabel, DeleteNamespace
<1>2. CacheTypes' /\ WorkTypes'
  <2>1. given' \subseteq Modes
    BY DEF Users, CreateResource, EditResource, DeleteResource, Relabel, DeleteNamespace,
           WorkTypes
  <2> QED
    BY <1>1, <2>1, PropagationMaxOpsAssumption DEF Act, CacheTypes, WorkTypes, caches
<1>3. ASSUME UNCHANGED nsVars PROVE NsTypes' /\ ns' = ns
  BY <1>3 DEF NsTypes, nsVars
<1>4. ASSUME UNCHANGED objVars, DOMAIN ns' = DOMAIN ns PROVE ObjTypes'
  BY <1>4 DEF ObjTypes, objVars
<1>5. ASSUME NEW n \in Names, NEW mode \in Modes \cup {Absent}, NEW fields \in SUBSET Fields,
             CreateResource(n, mode, fields)
      PROVE  NsTypes' /\ ObjTypes'
  <2>1. [from |-> Absent, mode |-> mode, fields |-> fields] \in Resource
    BY DEF Resource
  <2> QED
    BY <1>3, <1>5, <2>1, PutObjTypes DEF CreateResource, MayCreate
<1>6. ASSUME NEW n \in Names, NEW mode \in Modes \cup {Absent}, NEW fields \in SUBSET Fields,
             EditResource(n, mode, fields)
      PROVE  NsTypes' /\ ObjTypes'
  <2> DEFINE o == [obj[n] EXCEPT !.mode = mode, !.fields = fields]
  <2>1. n \in DOMAIN obj /\ obj[n] \in Resource
    BY <1>6, MapFacts DEF EditResource, ObjTypes
  <2>2. o \in Resource
    BY <2>1 DEF Resource
  <2>3. [obj EXCEPT ![n] = o] \in Resources
    BY <2>1, <2>2, ExceptTypes DEF ObjTypes, Resources
  <2>4. WriteObj([obj EXCEPT ![n] = o]) /\ UNCHANGED nsVars
    BY <1>6 DEF EditResource
  <2> QED
    BY <1>3, <2>3, <2>4, WriteObjTypes DEF ObjTypes
<1>7. ASSUME NEW n \in Names, DeleteResource(n) PROVE NsTypes' /\ ObjTypes'
  BY <1>3, <1>7, DropObjTypes DEF DeleteResource
<1>8. ASSUME NEW n \in DOMAIN ns, NEW new \in Namespace, WriteNs([ns EXCEPT ![n] = new]),
             UNCHANGED objVars
      PROVE  NsTypes' /\ ObjTypes'
  <2>1. [ns EXCEPT ![n] = new] \in Namespaces
    BY <1>8, ExceptTypes DEF NsTypes, Namespaces
  <2> QED
    BY <1>4, <1>8, <2>1, WriteNsTypes DEF WriteNs
<1>9. ASSUME NEW n \in Names, NEW type \in {Absent, NSTypeRoot},
             NEW parent \in Names \cup {Absent}, Relabel(n, type, parent)
      PROVE  NsTypes' /\ ObjTypes'
  <2>1. n \in DOMAIN ns /\ ns[n] \in Namespace
    BY <1>9, MapFacts DEF Relabel, NsTypes
  <2>2. [ns[n] EXCEPT !.type = type, !.parent = parent] \in Namespace
    BY <2>1 DEF Namespace
  <2> QED
    BY <1>8, <1>9, <2>1, <2>2 DEF Relabel
<1>10. ASSUME NEW n \in Names, DeleteNamespace(n) PROVE NsTypes' /\ ObjTypes'
  <2>1. n \in DOMAIN ns /\ ns[n] \in Namespace
    BY <1>10, MapFacts DEF DeleteNamespace, NsTypes
  <2>2. [ns[n] EXCEPT !.terminating = TRUE] \in Namespace
    BY <2>1 DEF Namespace
  <2> QED
    BY <1>8, <1>10, <2>1, <2>2 DEF DeleteNamespace
<1> QED
  BY <1>2, <1>5, <1>6, <1>7, <1>9, <1>10 DEF Users

LEMMA KubernetesTypes ==
  ASSUME NsTypes, ObjTypes, CacheTypes, WorkTypes, Kubernetes
  PROVE  NsTypes' /\ ObjTypes' /\ CacheTypes' /\ WorkTypes'
<1>1. PICK n \in Names : EmptyNamespace(n) \/ FinalizeNamespace(n)
  BY DEF Kubernetes
<1>2. CacheTypes' /\ WorkTypes'
  BY <1>1 DEF EmptyNamespace, FinalizeNamespace, CacheTypes, WorkTypes, caches, done
<1>3. CASE EmptyNamespace(n)
  BY <1>2, <1>3, DropObjTypes DEF EmptyNamespace, NsTypes, nsVars
<1>4. CASE FinalizeNamespace(n)
  <2>1. n \in DOMAIN ns /\ n \notin DOMAIN obj /\ WriteNs(Drop(ns, n)) /\ UNCHANGED objVars
    BY <1>4 DEF FinalizeNamespace, IsTerminating
  <2>2. ns[n] \in Namespace
    BY <2>1, MapFacts DEF NsTypes
  <2>3. Drop(ns, n) \in Namespaces
    BY <2>2, PutDropTypes DEF NsTypes, Namespaces
  <2>4. NsTypes'
    BY <2>1, <2>3, WriteNsTypes
  <2>5. ObjTypes'
    BY <2>1 DEF ObjTypes, objVars, WriteNs, Drop
  <2> QED
    BY <1>2, <2>4, <2>5
<1> QED
  BY <1>1, <1>3, <1>4

LEMMA StepKeepsTypes == TypeOK /\ [Next]_vars => TypeOK'
<1> SUFFICES ASSUME NsTypes, ObjTypes, CacheTypes, WorkTypes, [Next]_vars
             PROVE  NsTypes' /\ ObjTypes' /\ CacheTypes' /\ WorkTypes'
  BY TypeParts DEF TypeOK, NsTypes, ObjTypes, CacheTypes, WorkTypes
<1>1. CASE SyncNs
  BY <1>1 DEF SyncNs, NsTypes, ObjTypes, CacheTypes, WorkTypes, objVars, done
<1>2. CASE SyncObj
  BY <1>2 DEF SyncObj, NsTypes, ObjTypes, CacheTypes, WorkTypes, nsVars, done
<1>3. CASE Restart
  <2>1. DOMAIN ns \subseteq Names /\ DOMAIN obj \subseteq Names
    BY MapFacts DEF NsTypes, ObjTypes
  <2>2. {n \in DOMAIN obj : Watched(obj, n)} \subseteq Names
    BY <2>1
  <2>3. nsQueue' \subseteq Names /\ objQueue' \subseteq Names
    BY <1>3, <2>1, <2>2 DEF Restart
  <2> QED
    BY <1>3, <2>3, PropagationMaxOpsAssumption
       DEF Restart, NsTypes, ObjTypes, CacheTypes, WorkTypes
<1>4. CASE UNCHANGED vars
  BY <1>4 DEF vars, done, nsVars, objVars, caches, NsTypes, ObjTypes, CacheTypes, WorkTypes
<1> QED
  BY <1>1, <1>2, <1>3, <1>4, ReconcileObjTypes, ReconcileNsTypes, CopyStepTypes,
     PropagateStepTypes, UsersTypes, KubernetesTypes DEF Next, Controllers

(* Whatever the caches show, whatever users do and whenever Accurate       *)
(* restarts, all that is written is well formed and nothing is written to  *)
(* a namespace that is not there.                                          *)
THEOREM TypeCorrect == Spec => []TypeOK
<1>1. Init => TypeOK
  <2> SUFFICES ASSUME Init PROVE TypeOK
    OBVIOUS
  <2>1. ns \in Namespaces
    BY TreesAssumption DEF Init
  <2>2. {} \subseteq Names /\ obj \in [{} -> Resource]
    BY DEF Init
  <2>3. obj \in Resources
    BY <2>2, PartialMapFacts DEF Resources
  <2> QED
    BY <2>1, <2>3, PropagationMaxOpsAssumption DEF Init, TypeOK
<1> QED
  BY <1>1, StepKeepsTypes, PTL DEF Spec

-----------------------------------------------------------------------------
(***************************************************************************)
(* Origins.  From here on the caches are up to date, and namespaces are    *)
(* relabelled only while Accurate rests: a resource that the cache shows   *)
(* as a copy is one, and the namespaces that a reconciliation has yet to   *)
(* write to still hang below another.                                      *)
(***************************************************************************)

Calm == Stale = FALSE /\ AnyTime = FALSE

Hangs(n) == n \in DOMAIN ns => GetParent(ns[n]) # ""

JobsBelow ==
  /\ objJob # NoJob => \A c \in objJob.todo : Hangs(c)
  /\ nsJob # NoJob => Hangs(nsJob.ns)

(* No namespace appears, and each hangs below the one it hung below.       *)
SameParents ==
  \A n \in DOMAIN ns' : n \in DOMAIN ns /\ GetParent(ns'[n]) = GetParent(ns[n])

LEMMA SameParentsKeepHangs ==
  ASSUME SameParents, NEW n, Hangs(n)
  PROVE  Hangs(n)'
  BY DEF SameParents, Hangs

(* Only users move namespaces, and then there are no jobs.                 *)
LEMMA StepKeepsParents ==
  ASSUME Calm, TypeOK, [Next]_vars
  PROVE  SameParents \/ (objJob' = NoJob /\ nsJob' = NoJob)
<1>1. ASSUME ns' = ns PROVE SameParents
  BY <1>1 DEF SameParents
<1>2. ASSUME NEW n \in Names, ReconcileObj(n) PROVE ns' = ns
  BY <1>2 DEF ReconcileObj, HandleDeleteNowhere, HandleDeleteRecreate, HandleDeleteCascade,
              DeleteOrphan, FollowParent, HandOn, TakeObj, nsVars
<1>3. ASSUME NEW n \in Names, ReconcileNs(n) PROVE ns' = ns
  BY <1>3 DEF ReconcileNs, IgnoreNs, BeginPropagate, DeletePropagated, TakeNs, nsVars
<1>4. ASSUME CopyStep PROVE ns' = ns
  BY <1>4 DEF CopyStep, SkipChild, CreateCopy, ApplyCopy, DeleteCopy, AtChild, nsVars
<1>5. ASSUME PropagateStep PROVE ns' = ns
  BY <1>5 DEF PropagateStep, PropagateCreatePhase, PropagateUpdatePhase, SweepPhase, InPhase,
              nsVars
<1>6. ASSUME NEW n \in Names, EmptyNamespace(n) PROVE ns' = ns
  BY <1>6 DEF EmptyNamespace, nsVars
<1>7. ASSUME NEW n \in Names, FinalizeNamespace(n) PROVE SameParents
  BY <1>7 DEF FinalizeNamespace, WriteNs, Drop, SameParents
<1>8. ASSUME NEW n \in Names, DeleteNamespace(n) PROVE SameParents
  <2>1. n \in DOMAIN ns /\ ns[n] \in Namespace
    BY <1>8, MapFacts DEF DeleteNamespace, TypeOK
  <2>2. ns' = [ns EXCEPT ![n] = [ns[n] EXCEPT !.terminating = TRUE]]
    BY <1>8 DEF DeleteNamespace, WriteNs
  <2>3. GetParent([ns[n] EXCEPT !.terminating = TRUE]) = GetParent(ns[n])
    BY <2>1 DEF GetParent, Parent, Template, Namespace
  <2> QED
    BY <2>1, <2>2, <2>3 DEF SameParents
<1>9. ASSUME Users, ~\E n \in Names : DeleteNamespace(n)
      PROVE  ns' = ns \/ (objJob' = NoJob /\ nsJob' = NoJob)
  BY <1>9 DEF Users, CreateResource, EditResource, DeleteResource, Relabel, Act, AtRest, Calm,
              nsVars
<1> QED
  BY <1>1, <1>2, <1>3, <1>4, <1>5, <1>6, <1>7, <1>8, <1>9
     DEF Next, Controllers, Kubernetes, SyncNs, SyncObj, Restart, vars, nsVars

(* Who is listed as a child hangs below the namespace it is listed for.    *)
LEMMA ChildrenHang ==
  ASSUME TypeOK, InSync, NEW n \in DOMAIN ns
  PROVE  \A c \in GetChildren(n) : Hangs(c)
<1>1. n # "" /\ nsCache = ns
  BY MapFacts, NamesAssumption DEF TypeOK, InSync
<1> QED
  BY <1>1 DEF GetChildren, ChildrenOf, InstancesOf, Hangs, GetParent

LEMMA StepKeepsJobsBelow ==
  ASSUME Calm, TypeOK, JobsBelow, [Next]_vars
  PROVE  JobsBelow'
<1>1. CASE objJob' = NoJob /\ nsJob' = NoJob
  BY <1>1 DEF JobsBelow
<1>2. CASE SameParents
  <2> DEFINE ObjJobBelow == objJob # NoJob => \A c \in objJob.todo : Hangs(c)
             NsJobBelow == nsJob # NoJob => Hangs(nsJob.ns)
  <2>1. ASSUME objJob' = objJob PROVE ObjJobBelow'
    BY <1>2, <2>1, SameParentsKeepHangs DEF JobsBelow
  <2>2. ASSUME nsJob' = nsJob PROVE NsJobBelow'
    BY <1>2, <2>2, SameParentsKeepHangs DEF JobsBelow
  <2>3. ASSUME NEW n, NEW kind, NEW o, NEW todo, ForChildren(n, kind, o, todo),
               \A c \in todo : Hangs(c)
        PROVE  ObjJobBelow'
    <3>1. \A c \in todo : Hangs(c)'
      BY <1>2, <2>3, SameParentsKeepHangs
    <3>2. CASE objJob' = NoJob
      BY <3>2
    <3>3. CASE objJob'.todo = todo
      BY <3>1, <3>3
    <3> QED
      BY <2>3, <3>2, <3>3 DEF ForChildren
  <2>4. ASSUME NEW n \in Names, ReconcileObj(n) PROVE ObjJobBelow' /\ NsJobBelow'
    <3>1. TakeObj(n)
      BY <2>4 DEF ReconcileObj, HandleDeleteNowhere, HandleDeleteRecreate,
                  HandleDeleteCascade, DeleteOrphan, FollowParent, HandOn
    <3>2. NsJobBelow' /\ InSync
      BY <2>2, <3>1 DEF TakeObj, Ready, Calm
    <3>3. ASSUME NEW kind, NEW o, ForChildren(n, kind, o, GetChildren(n)), n \in DOMAIN nsCache
          PROVE  ObjJobBelow'
      <4>1. n \in DOMAIN ns
        BY <3>2, <3>3 DEF InSync
      <4> QED
        BY <2>3, <3>2, <3>3, <4>1, ChildrenHang
    <3>4. CASE HandleDeleteCascade(n)
      BY <3>2, <3>3, <3>4 DEF HandleDeleteCascade
    <3>5. CASE HandOn(n)
      BY <2>1, <3>2, <3>3, <3>5 DEF HandOn
    <3> QED
      BY <2>1, <2>4, <3>2, <3>4, <3>5
         DEF ReconcileObj, HandleDeleteNowhere, HandleDeleteRecreate, DeleteOrphan, FollowParent
  <2>5. ASSUME CopyStep PROVE ObjJobBelow' /\ NsJobBelow'
    <3>1. PICK c \in Names : SkipChild(c) \/ CreateCopy(c) \/ ApplyCopy(c) \/ DeleteCopy(c)
      BY <2>5 DEF CopyStep
    <3>2. AtChild(c)
      BY <3>1 DEF SkipChild, CreateCopy, ApplyCopy, DeleteCopy
    <3>3. NsJobBelow'
      BY <2>2, <3>2 DEF AtChild
    <3>4. ASSUME NextChild(c) PROVE ObjJobBelow'
      BY <2>3, <3>2, <3>4 DEF NextChild, AtChild, JobsBelow
    <3>5. objJob' = NoJob \/ NextChild(c)
      BY <3>1 DEF SkipChild, CreateCopy, ApplyCopy, DeleteCopy, Retry
    <3> QED
      BY <3>3, <3>4, <3>5
  <2>6. ASSUME NEW n \in Names, ReconcileNs(n) PROVE ObjJobBelow' /\ NsJobBelow'
    <3>1. TakeNs(n)
      BY <2>6 DEF ReconcileNs, IgnoreNs, BeginPropagate, DeletePropagated
    <3>2. ObjJobBelow' /\ InSync
      BY <2>1, <3>1 DEF TakeNs, Ready, Calm
    <3>3. CASE BeginPropagate(n)
      <4>1. n \in DOMAIN ns /\ SupportOf(n) \in DOMAIN ns /\ nsCache = ns
        BY <3>2, <3>3 DEF BeginPropagate, InSync
      <4>2. SupportOf(n) # ""
        BY <4>1, MapFacts, NamesAssumption DEF TypeOK
      <4>3. GetParent(ns[n]) # ""
        BY <4>1, <4>2 DEF SupportOf, GetParent, Parent, Template, Value
      <4>4. nsJob'.ns = n
        BY <3>3 DEF BeginPropagate
      <4>5. Hangs(n)'
        BY <1>2, <4>3, SameParentsKeepHangs DEF Hangs
      <4> QED
        BY <3>2, <4>4, <4>5
    <3> QED
      BY <2>2, <2>6, <3>2, <3>3 DEF ReconcileNs, IgnoreNs, DeletePropagated
  <2>7. ASSUME PropagateStep PROVE ObjJobBelow' /\ NsJobBelow'
    <3>1. objJob' = objJob /\ nsJob # NoJob
      BY <2>7 DEF PropagateStep, PropagateCreatePhase, PropagateUpdatePhase, SweepPhase, InPhase
    <3>2. nsJob \in NsJobs
      BY <3>1 DEF TypeOK
    <3>3. nsJob' = NoJob \/ nsJob'.ns = nsJob.ns
      BY <2>7, <3>2 DEF PropagateStep, PropagateCreatePhase, PropagateUpdatePhase, SweepPhase,
                        CreateOrRetry, NsJobs
    <3> PICK n : n = nsJob.ns
      OBVIOUS
    <3>4. Hangs(n)'
      BY <1>2, <3>1, SameParentsKeepHangs DEF JobsBelow
    <3>5. CASE nsJob' = NoJob
      BY <2>1, <3>1, <3>5
    <3>6. CASE nsJob'.ns = nsJob.ns
      BY <2>1, <3>1, <3>4, <3>6
    <3> QED
      BY <3>3, <3>5, <3>6
  <2>8. ASSUME UNCHANGED <<objJob, nsJob>> PROVE ObjJobBelow' /\ NsJobBelow'
    BY <2>1, <2>2, <2>8
  <2>9. ASSUME SyncNs \/ SyncObj \/ Kubernetes \/ Users \/ UNCHANGED vars
        PROVE  UNCHANGED <<objJob, nsJob>>
    BY <2>9 DEF SyncNs, SyncObj, Kubernetes, EmptyNamespace, FinalizeNamespace, Users,
                CreateResource, EditResource, DeleteResource, Relabel, DeleteNamespace, Act, vars
  <2>10. CASE Restart
    BY <2>10 DEF Restart, JobsBelow
  <2> HIDE DEF ObjJobBelow, NsJobBelow
  <2>11. ASSUME ObjJobBelow', NsJobBelow' PROVE JobsBelow'
    BY <2>11 DEF ObjJobBelow, NsJobBelow, JobsBelow
  <2> QED
    BY <2>4, <2>5, <2>6, <2>7, <2>8, <2>9, <2>10, <2>11 DEF Next, Controllers
<1> QED
  BY <1>1, <1>2, StepKeepsParents

(* What is neither dropped nor put anew stays as it is.                    *)
Untouched(n) == n \in DOMAIN obj' /\ obj'[n] = obj[n]

LEMMA OthersUntouched ==
  ASSUME NEW n \in DOMAIN obj, NEW m, n # m
  PROVE  /\ WriteObj(Drop(obj, m)) => Untouched(n)
         /\ \A o : WriteObj(Put(obj, m, o)) => Untouched(n)
         /\ \A o : Apply(m, o) => Untouched(n)
  BY DEF WriteObj, Drop, Put, Apply, Untouched

(* A resource that a user has made, in a namespace that hangs below none   *)
(* and is not on its way out.                                              *)
Origin(n) ==
  /\ n \in DOMAIN obj
  /\ obj[n].from = Absent
  /\ GetParent(ns[n]) = "" /\ ~ns[n].terminating

LEMMA StepKeepsOrigins ==
  ASSUME Calm, TypeOK, JobsBelow, [Next]_vars, ops' = ops, NEW n, Origin(n)
  PROVE  Untouched(n)
<1>1. n \in DOMAIN obj /\ n \in DOMAIN ns /\ ~Hangs(n)
  BY DEF Origin, TypeOK, Hangs
<1>2. ASSUME UNCHANGED objVars PROVE Untouched(n)
  BY <1>1, <1>2 DEF objVars, Untouched
<1>3. ASSUME NEW m \in Names, ReconcileObj(m) PROVE Untouched(n)
  <2>1. TakeObj(m)
    BY <1>3 DEF ReconcileObj, HandleDeleteNowhere, HandleDeleteRecreate, HandleDeleteCascade,
                DeleteOrphan, FollowParent, HandOn
  <2>2. objCache = obj
    BY <2>1 DEF TakeObj, Ready, Calm, InSync
  <2>3. CASE HandleDeleteRecreate(m)
    BY <1>1, <1>2, <2>2, <2>3, OthersUntouched DEF HandleDeleteRecreate
  <2>4. CASE DeleteOrphan(m)
    BY <1>1, <2>2, <2>4, OthersUntouched DEF DeleteOrphan, From, Origin
  <2>5. CASE FollowParent(m)
    <3>1. Absent \notin DOMAIN obj
      BY MapFacts, NamesAssumption DEF TypeOK
    <3>2. m # n
      BY <2>2, <2>5, <3>1 DEF FollowParent, Has, From, Origin
    <3> QED
      BY <1>1, <2>5, <3>2, OthersUntouched DEF FollowParent
  <2> QED
    BY <1>2, <1>3, <2>3, <2>4, <2>5
       DEF ReconcileObj, HandleDeleteNowhere, HandleDeleteCascade, HandOn
<1>4. CASE CopyStep
  <2>1. PICK c \in Names : SkipChild(c) \/ CreateCopy(c) \/ ApplyCopy(c) \/ DeleteCopy(c)
    BY <1>4 DEF CopyStep
  <2>2. n # c
    BY <1>1, <2>1 DEF SkipChild, CreateCopy, ApplyCopy, DeleteCopy, AtChild, JobsBelow
  <2>3. \/ UNCHANGED objVars
        \/ WriteObj(Drop(obj, c))
        \/ \E o : WriteObj(Put(obj, c, o))
        \/ \E o : Apply(c, o)
    BY <2>1 DEF SkipChild, CreateCopy, ApplyCopy, DeleteCopy, Retry
  <2> QED
    BY <1>1, <1>2, <2>2, <2>3, OthersUntouched
<1>5. ASSUME NEW m \in Names, ReconcileNs(m) PROVE Untouched(n)
  <2>1. TakeNs(m)
    BY <1>5 DEF ReconcileNs, IgnoreNs, BeginPropagate, DeletePropagated
  <2>2. objCache = obj
    BY <2>1 DEF TakeNs, Ready, Calm, InSync
  <2>3. CASE DeletePropagated(m)
    <3>1. CASE Has(objCache, m, PropagateUpdate) /\ objCache[m].from # Absent
      BY <1>1, <2>2, <2>3, <3>1, OthersUntouched DEF DeletePropagated, Origin
    <3>2. CASE ~(Has(objCache, m, PropagateUpdate) /\ objCache[m].from # Absent)
      BY <1>2, <2>3, <3>2 DEF DeletePropagated
    <3> QED
      BY <3>1, <3>2
  <2> QED
    BY <1>2, <1>5, <2>3 DEF ReconcileNs, IgnoreNs, BeginPropagate
<1>6. CASE PropagateStep
  <2>1. nsJob # NoJob
    BY <1>6 DEF PropagateStep, PropagateCreatePhase, PropagateUpdatePhase, SweepPhase, InPhase
  <2>2. n # nsJob.ns
    BY <1>1, <2>1 DEF JobsBelow
  <2>3. \/ UNCHANGED objVars
        \/ WriteObj(Drop(obj, nsJob.ns))
        \/ \E o : WriteObj(Put(obj, nsJob.ns, o))
        \/ \E o : Apply(nsJob.ns, o)
    BY <1>6 DEF PropagateStep, PropagateCreatePhase, PropagateUpdatePhase, SweepPhase,
                CreateOrRetry
  <2> QED
    BY <1>1, <1>2, <2>2, <2>3, OthersUntouched
<1>7. ASSUME NEW m \in Names, EmptyNamespace(m) \/ FinalizeNamespace(m) PROVE Untouched(n)
  <2>1. CASE EmptyNamespace(m)
    BY <1>1, <2>1, OthersUntouched DEF EmptyNamespace, IsTerminating, Origin
  <2>2. CASE FinalizeNamespace(m)
    BY <1>2, <2>2 DEF FinalizeNamespace
  <2> QED
    BY <1>7, <2>1, <2>2
<1>8. ops \in Nat
  BY PropagationMaxOpsAssumption DEF TypeOK
<1>9. ASSUME Users \/ Restart PROVE FALSE
  <2>1. ops' = ops + 1
    BY <1>9 DEF Users, CreateResource, EditResource, DeleteResource, Relabel, DeleteNamespace,
                Act, Restart
  <2> QED
    BY <1>8, <2>1
<1>10. CASE SyncNs \/ SyncObj \/ UNCHANGED vars
  BY <1>1, <1>10 DEF SyncNs, SyncObj, vars, objVars, Untouched
<1> QED
  BY <1>3, <1>4, <1>5, <1>6, <1>7, <1>9, <1>10 DEF Next, Controllers, Kubernetes

(* With fresh caches, and namespaces that users move only while Accurate   *)
(* rests, no controller deletes or overwrites what a user has made in a    *)
(* namespace that hangs below no other ("don't delete origins").           *)
THEOREM OriginsKeptWhenCalm == ASSUME Calm PROVE Spec => OriginsKept
<1>1. Init => JobsBelow
  BY DEF Init, JobsBelow
<1>2. TypeOK /\ JobsBelow /\ [Next]_vars => JobsBelow'
  BY StepKeepsJobsBelow
<1>3. TypeOK /\ JobsBelow /\ [Next]_vars =>
        [\A n \in DOMAIN obj :
           /\ ops' = ops /\ obj[n].from = Absent
           /\ GetParent(ns[n]) = "" /\ ~ns[n].terminating
           => n \in DOMAIN obj' /\ obj'[n] = obj[n]]_vars
  BY StepKeepsOrigins DEF Origin, Untouched
<1> QED
  BY <1>1, <1>2, <1>3, TypeCorrect, PTL DEF Spec, OriginsKept
-----------------------------------------------------------------------------
(***************************************************************************)
(* Copies are where they belong when Accurate rests.  Behind it is an      *)
(* invariant that holds while Accurate is busy, too: whatever is wrong     *)
(* with a copy, something is on its way to put it right, an event, a key   *)
(* in a queue or what is left of a reconciliation.  This asks for users    *)
(* who are as careful as in the run prop_fresh, and for a tree that the    *)
(* webhook would have let them make.                                       *)
(***************************************************************************)

Careful == Calm /\ MayDelete = FALSE /\ Careless = FALSE

WellFormed(f) ==
  \A n \in DOMAIN f :
    /\ ~f[n].terminating
    /\ f[n].parent # Absent =>
         /\ f[n].type = Absent /\ f[n].template = Absent
         /\ f[n].parent \in DOMAIN f
         /\ f[f[n].parent].type = NSTypeRoot \/ f[f[n].parent].parent # Absent
    /\ f[n].template # Absent =>
         f[n].template \in DOMAIN f /\ f[f[n].template].type = NSTypeTemplate

Below(n, c) == c \in DOMAIN ns /\ GetParent(ns[c]) = n

(* What is on its way.                                                     *)
ObjPending == objQueue \cup objEvents
NsPending == nsQueue \cup nsEvents
HandingOn(n, c, kind) ==
  objJob # NoJob /\ objJob.ns = n /\ objJob.kind = kind /\ c \in objJob.todo
Looking(c, phases) == nsJob # NoJob /\ nsJob.ns = c /\ nsJob.phase \in phases

(* The copy of a resource of n is not in its child c.                      *)
Missing(n, c) == n \in DOMAIN obj /\ Below(n, c) /\ obj[n].mode \in Modes /\ c \notin DOMAIN obj

MissingPending(n, c) ==
  \/ n \in ObjPending \/ c \in ObjPending \/ c \in NsPending
  \/ \E kind \in Modes : HandingOn(n, c, kind)
  \/ Looking(c, {"create"})
  \/ Looking(c, {"update"}) /\ obj[n].mode = PropagateUpdate

(* It is there, but different.                                             *)
Different(n, c) ==
  /\ n \in DOMAIN obj /\ Below(n, c) /\ obj[n].mode = PropagateUpdate
  /\ c \in DOMAIN obj /\ obj[c].from # Absent
  /\ ~Derives(Clone(obj[n], n), obj[c])

DifferentPending(n, c) ==
  \/ n \in ObjPending \/ (c \in ObjPending /\ obj[c].from = n) \/ c \in NsPending
  \/ HandingOn(n, c, PropagateUpdate)
  \/ Looking(c, {"create", "update"})

(* It has outlived what it was copied from.                                *)
Orphan(n, c) ==
  /\ n \notin DOMAIN obj /\ Below(n, c)
  /\ c \in DOMAIN obj /\ obj[c].mode = PropagateUpdate /\ obj[c].from = n

OrphanPending(n, c) ==
  \/ n \in ObjPending \/ c \in ObjPending \/ c \in NsPending
  \/ HandingOn(n, c, "delete")
  \/ Looking(c, {"create", "update"})
  \/ Looking(c, {"sweep"}) /\ ~nsJob.present

(* It is where its namespace no longer hangs below.                        *)
Stray(c) ==
  /\ c \in DOMAIN obj /\ obj[c].mode = PropagateUpdate
  /\ obj[c].from # Absent /\ obj[c].from # GetParent(ns[c])

StrayPending(c) == c \in NsPending \/ Looking(c, {"create", "update", "sweep"})

(* A loop over children is over children, with what the resource is still, *)
(* and a look at a namespace is at one below the parent it has still.      *)
ObjJobCurrent ==
  objJob # NoJob =>
    /\ \A c \in objJob.todo : Below(objJob.ns, c)
    /\ objJob.kind \in Modes =>
         /\ objJob.res.mode = objJob.kind /\ objJob.kind \in given
         /\ \/ objJob.ns \in ObjPending
            \/ objJob.ns \in DOMAIN obj /\ obj[objJob.ns] = objJob.res

NsJobCurrent ==
  nsJob # NoJob =>
    nsJob.ns \in DOMAIN ns /\ nsJob.parent = GetParent(ns[nsJob.ns]) /\ nsJob.parent # ""

(* Modes come from users, and copies have one.                             *)
ModesGiven ==
  \A n \in DOMAIN obj :
    obj[n].mode \in given \cup {Absent} /\ (obj[n].from # Absent => obj[n].mode # Absent)

MissingInv == \A n, c \in Names : Missing(n, c) => MissingPending(n, c)
DifferentInv == \A n, c \in Names : Different(n, c) => DifferentPending(n, c)
OrphanInv == \A n, c \in Names : Orphan(n, c) => OrphanPending(n, c)
StrayInv == PropagateCreate \notin given => \A c \in Names : Stray(c) => StrayPending(c)

InPlaceInv ==
  /\ WellFormed(ns)
  /\ ObjJobCurrent
  /\ NsJobCurrent
  /\ ModesGiven
  /\ MissingInv
  /\ DifferentInv
  /\ OrphanInv
  /\ StrayInv

-----------------------------------------------------------------------------
(* The tree.                                                               *)

(* The namespace c hangs below its parent, or else its template, or none.  *)
LEMMA ParentFacts ==
  ASSUME TypeOK, WellFormed(ns), NEW c \in DOMAIN ns
  PROVE  /\ c \in Names
         /\ ~IsTerminating(c)
         /\ GetParent(ns[c]) \in DOMAIN ns \cup {""}
         /\ GetParent(ns[c]) # Absent
         /\ nsCache = ns => SupportOf(c) = GetParent(ns[c])
         /\ ns[c].parent # Absent \/ ns[c].template # Absent <=> GetParent(ns[c]) # ""
<1>1. /\ DOMAIN ns \subseteq Names /\ "" \notin Names /\ Absent \notin Names /\ Absent # ""
      /\ ns[c].parent \in Names \cup {Absent} /\ ns[c].template \in Names \cup {Absent}
  BY MapFacts, NamesAssumption DEF TypeOK, Namespace
<1>2. /\ ~ns[c].terminating
      /\ ns[c].parent # Absent => ns[c].parent \in DOMAIN ns
      /\ ns[c].template # Absent => ns[c].template \in DOMAIN ns
  BY DEF WellFormed
<1> QED
  BY <1>1, <1>2 DEF GetParent, Parent, Template, Value, SupportOf, IsTerminating

(* Whoever is listed as a child of n hangs below n, and nobody else does.  *)
LEMMA ChildrenAreBelow ==
  ASSUME TypeOK, WellFormed(ns), nsCache = ns, NEW n \in DOMAIN ns
  PROVE  \A c : c \in GetChildren(n) <=> Below(n, c)
<1> SUFFICES ASSUME NEW c \in DOMAIN ns
             PROVE  c \in GetChildren(n) <=> GetParent(ns[c]) = n
  BY DEF GetChildren, ChildrenOf, InstancesOf, Below
<1>1. /\ n \in Names /\ "" \notin Names /\ Absent \notin Names /\ Absent # ""
      /\ ns[c] \in Namespace /\ ns[n] \in Namespace
  BY MapFacts, NamesAssumption DEF TypeOK
<1>2. /\ Parent(ns[c]) = n => Type(ns[n]) = NSTypeRoot \/ Parent(ns[n]) # ""
      /\ Parent(ns[c]) # "" => Template(ns[c]) = ""
      /\ Template(ns[c]) = n => Type(ns[n]) # NSTypeRoot /\ Parent(ns[n]) = ""
  <2>1. ns[c].parent = n => ns[n].type = NSTypeRoot \/ ns[n].parent # Absent
    BY <1>1 DEF WellFormed
  <2>2. ns[c].parent # Absent => ns[c].template = Absent
    BY DEF WellFormed
  <2>3. ns[c].template = n => ns[n].type = NSTypeTemplate /\ ns[n].parent = Absent
    BY <1>1, AbsentAssumption DEF WellFormed, NSTypeTemplate
  <2> QED
    BY <1>1, <2>1, <2>2, <2>3, AbsentAssumption
       DEF Parent, Type, Template, Value, Namespace, NSTypeRoot, NSTypeTemplate
<1> QED
  BY <1>1, <1>2 DEF GetChildren, ChildrenOf, InstancesOf, GetParent

(* The webhook keeps the tree well formed.                                 *)
LEMMA RelabelKeepsWellFormed ==
  ASSUME TypeOK, WellFormed(ns), NEW n \in Names, NEW type \in {Absent, NSTypeRoot},
         NEW parent \in Names \cup {Absent}, Careful, Relabel(n, type, parent)
  PROVE  WellFormed(ns')
<1> DEFINE new == [ns[n] EXCEPT !.type = type, !.parent = parent]
<1>1. /\ n \in DOMAIN ns /\ HandleUpdate(ns, n, new, ns[n])
      /\ parent \in DOMAIN ns => ~ns[parent].terminating
      /\ ns' = [ns EXCEPT ![n] = new]
  BY DEF Relabel, WriteNs
<1>2. /\ "" \notin Names /\ Absent \notin Names /\ Absent # ""
      /\ \A x \in DOMAIN ns : x \in Names /\ ns[x] \in Namespace
  BY MapFacts, NamesAssumption DEF TypeOK
<1>3. /\ new.type = type /\ new.parent = parent /\ new.template = ns[n].template
      /\ new.terminating = ns[n].terminating
  BY <1>1, <1>2 DEF Namespace
<1> HIDE DEF new
<1>4. HandleCreate(ns, n, new)
  BY <1>1 DEF HandleUpdate
<1>5. parent # Absent =>
        /\ type = Absent /\ new.template = Absent /\ parent \in DOMAIN ns \ {n}
        /\ ns[parent].type = NSTypeRoot \/ ns[parent].parent # Absent
  BY <1>2, <1>3, <1>4 DEF HandleCreate, CheckParent, Parent, Type, Value, NSTypeRoot
<1>6. ns[n].template # Absent => ns[n].template # n
  BY <1>1, <1>2, <1>3, <1>4 DEF HandleCreate, Template, Value, Namespace
<1>7. ASSUME NEW x \in DOMAIN ns, ns[x].parent = n
      PROVE  type = NSTypeRoot \/ parent # Absent
  <2>1. x \in ChildrenOf(ns, n)
    BY <1>2, <1>7 DEF ChildrenOf, Parent, Value
  <2>2. /\ Type(ns[n]) = NSTypeRoot /\ Type(new) # NSTypeRoot => FALSE
        /\ GetParent(new) = "" /\ Parent(ns[n]) # "" /\ Type(new) # NSTypeRoot => FALSE
    BY <1>1, <2>1 DEF HandleUpdate
  <2>3. ns[n].type = NSTypeRoot \/ (ns[n].parent # Absent /\ ns[n].template = Absent)
    BY <1>1, <1>2, <1>7 DEF WellFormed
  <2> QED
    BY <1>1, <1>2, <1>3, <2>2, <2>3
       DEF Type, Parent, Template, GetParent, Value, NSTypeRoot, Namespace
<1>8. ASSUME NEW x \in DOMAIN ns, ns[x].template = n PROVE FALSE
  <2>1. x \in InstancesOf(ns, n)
    BY <1>2, <1>8 DEF InstancesOf, Template, Value
  <2>2. ns[n].type = NSTypeTemplate
    BY <1>1, <1>2, <1>8 DEF WellFormed
  <2>3. Type(ns[n]) = NSTypeTemplate /\ Type(new) # NSTypeTemplate
    BY <1>1, <1>3, <2>2, AbsentAssumption DEF Type, Value, NSTypeTemplate, NSTypeRoot
  <2> QED
    BY <1>1, <2>1, <2>3 DEF HandleUpdate
<1>9. DOMAIN ns' = DOMAIN ns /\ ns'[n] = new /\ \A x \in DOMAIN ns \ {n} : ns'[x] = ns[x]
  BY <1>1
<1> SUFFICES ASSUME NEW x \in DOMAIN ns
             PROVE  /\ ~ns'[x].terminating
                    /\ ns'[x].parent # Absent =>
                         /\ ns'[x].type = Absent /\ ns'[x].template = Absent
                         /\ ns'[x].parent \in DOMAIN ns
                         /\ \/ ns'[ns'[x].parent].type = NSTypeRoot
                            \/ ns'[ns'[x].parent].parent # Absent
                    /\ ns'[x].template # Absent =>
                         /\ ns'[x].template \in DOMAIN ns
                         /\ ns'[ns'[x].template].type = NSTypeTemplate
  BY <1>9 DEF WellFormed
<1>10. /\ ~ns[x].terminating
       /\ ns[x].parent # Absent =>
            /\ ns[x].type = Absent /\ ns[x].template = Absent
            /\ ns[x].parent \in DOMAIN ns
            /\ ns[ns[x].parent].type = NSTypeRoot \/ ns[ns[x].parent].parent # Absent
       /\ ns[x].template # Absent =>
            ns[x].template \in DOMAIN ns /\ ns[ns[x].template].type = NSTypeTemplate
  BY DEF WellFormed
<1>11. CASE x = n
  BY <1>3, <1>5, <1>6, <1>9, <1>10, <1>11
<1>12. CASE x # n
  <2>1. /\ ~ns'[x].terminating
        /\ ns'[x].parent # Absent =>
             ns'[x].type = Absent /\ ns'[x].template = Absent /\ ns'[x].parent \in DOMAIN ns
    BY <1>9, <1>10, <1>12
  <2>2. ns'[x].parent # Absent =>
          ns'[ns'[x].parent].type = NSTypeRoot \/ ns'[ns'[x].parent].parent # Absent
    BY <1>3, <1>7, <1>9, <1>10, <1>12
  <2>3. ns'[x].template # Absent =>
          ns'[x].template \in DOMAIN ns /\ ns'[ns'[x].template].type = NSTypeTemplate
    BY <1>8, <1>9, <1>10, <1>12
  <2> QED
    BY <2>1, <2>2, <2>3
<1> QED
  BY <1>11, <1>12

-----------------------------------------------------------------------------
(* What a write does to the copies, whoever makes it.                      *)

Same(n) ==
  /\ n \in DOMAIN obj' <=> n \in DOMAIN obj
  /\ n \in DOMAIN obj => obj'[n] = obj[n]

(* Nothing but the resource of x is written, the event about it is not     *)
(* lost, and it becomes a copy of what its namespace hangs below, or stays *)
(* a copy of what it has been.                                             *)
Wrote(x) ==
  /\ \A m : m # x => Same(m)
  /\ objEvents \subseteq objEvents'
  /\ given \subseteq given'
  /\ x \in DOMAIN obj' =>
       /\ obj'[x].mode \in given' \cup {Absent}
       /\ obj'[x].from # Absent =>
            /\ obj'[x].mode # Absent
            /\ \/ Below(obj'[x].from, x)
               \/ x \in DOMAIN obj /\ obj'[x].from = obj[x].from
       /\ ~Same(x) /\ (obj'[x].from # Absent \/ obj'[x].mode # Absent) => x \in objEvents'
  /\ x \in DOMAIN obj =>
       /\ x \notin DOMAIN obj' => x \in objEvents'
       /\ ~Same(x) /\ obj[x].mode # Absent => x \in objEvents'

LEMMA NothingWritten ==
  ASSUME ModesGiven, UNCHANGED objVars, given \subseteq given'
  PROVE  \A m : Same(m) /\ Wrote(m)
  BY DEF ModesGiven, objVars, Same, Wrote

LEMMA DropWrites ==
  ASSUME NEW x \in DOMAIN obj, Watched(obj, x), WriteObj(Drop(obj, x)), given \subseteq given'
  PROVE  x \notin DOMAIN obj' /\ Wrote(x)
<1>1. /\ DOMAIN obj' = DOMAIN obj \ {x}
      /\ \A m \in DOMAIN obj \ {x} : obj'[m] = obj[m]
      /\ objEvents \subseteq objEvents' /\ x \in objEvents'
  BY DEF WriteObj, Drop
<1> QED
  BY <1>1 DEF Same, Wrote

LEMMA PutWrites ==
  ASSUME NEW x, NEW o, WriteObj(Put(obj, x, o)), given \subseteq given',
         o.mode \in given' \cup {Absent},
         o.from # Absent => o.mode # Absent /\ Below(o.from, x)
  PROVE  x \in DOMAIN obj' /\ obj'[x] = o /\ Wrote(x)
<1>1. /\ DOMAIN obj' = DOMAIN obj \cup {x} /\ obj'[x] = o
      /\ \A m \in DOMAIN obj \ {x} : obj'[m] = obj[m]
      /\ objEvents \subseteq objEvents'
      /\ ~Same(x) => x \in {n \in DOMAIN obj \cup DOMAIN obj' :
                              ~(n \in DOMAIN obj /\ n \in DOMAIN obj' /\ obj[n] = obj'[n])}
  BY DEF WriteObj, Put, Same
<1>2. ~Same(x) /\ (Watched(obj, x) \/ Watched(obj', x)) => x \in objEvents'
  BY <1>1 DEF WriteObj
<1> QED
  BY <1>1, <1>2 DEF Same, Wrote, Watched

(* A copy that is applied where it is different is changed.                *)
LEMMA ApplyWrites ==
  ASSUME NEW x \in DOMAIN obj, NEW o \in Resource, Apply(x, o), given \subseteq given',
         ~Derives(o, obj[x]), o.mode \in given', o.mode # Absent, o.from # Absent,
         o.from = obj[x].from \/ Below(o.from, x)
  PROVE  /\ x \in DOMAIN obj' /\ x \in objEvents' /\ Wrote(x)
         /\ obj'[x].from = o.from /\ Derives(o, obj'[x])
<1>1. PICK left \in SUBSET (obj[x].fields \ o.fields) :
        WriteObj(Put(obj, x, [o EXCEPT !.fields = @ \cup left]))
  BY DEF Apply
<1> DEFINE new == [o EXCEPT !.fields = @ \cup left]
<1>2. new.from = o.from /\ new.mode = o.mode /\ new.fields = o.fields \cup left
  BY DEF Resource
<1> HIDE DEF new
<1>3. Derives(o, new) /\ new # obj[x]
  BY <1>2 DEF Derives
<1>4. WriteObj(Put(obj, x, new))
  BY <1>1 DEF new
<1>5. /\ DOMAIN obj' = DOMAIN obj \cup {x} /\ obj'[x] = new
      /\ \A m \in DOMAIN obj \ {x} : obj'[m] = obj[m]
      /\ objEvents \subseteq objEvents'
  BY <1>4 DEF WriteObj, Put
<1>6. Watched(obj', x)
  BY <1>2, <1>5 DEF Watched
<1>7. x \in objEvents'
  BY <1>3, <1>4, <1>5, <1>6 DEF WriteObj
<1> QED
  BY <1>2, <1>3, <1>5, <1>7 DEF Same, Wrote

(* What is wrong after a write was wrong before, or the write has told the *)
(* propagate controller of it.                                             *)
LEMMA WrongAfterWrite ==
  ASSUME TypeOK, ModesGiven, NEW x, Wrote(x), ns' = ns, NEW n \in Names, NEW c \in Names
  PROVE  /\ Missing(n, c)' =>
              \/ n \in objEvents' \/ c \in objEvents'
              \/ Missing(n, c) /\ obj'[n].mode = obj[n].mode
         /\ Different(n, c)' =>
              \/ n \in objEvents' \/ (c \in objEvents' /\ obj'[c].from = n)
              \/ Different(n, c) /\ (obj[c].from = n => obj'[c].from = n)
         /\ Orphan(n, c)' => n \in objEvents' \/ c \in objEvents' \/ Orphan(n, c)
         /\ Stray(c)' /\ PropagateCreate \notin given' =>
              Stray(c) /\ PropagateCreate \notin given
<1>1. n # Absent /\ Absent \notin Modes
  BY NamesAssumption, AbsentAssumption
<1>3. (\A y \in Names : Below(n, y)' <=> Below(n, y)) /\ ns'[c] = ns[c]
  BY DEF Below
<1>4. Missing(n, c)' =>
        \/ n \in objEvents' \/ c \in objEvents'
        \/ Missing(n, c) /\ obj'[n].mode = obj[n].mode
  <2> SUFFICES ASSUME Missing(n, c)', n \notin objEvents', c \notin objEvents'
               PROVE  Missing(n, c) /\ obj'[n].mode = obj[n].mode
    OBVIOUS
  <2>1. n \in DOMAIN obj' /\ obj'[n].mode \in Modes /\ c \notin DOMAIN obj' /\ Below(n, c)
    BY <1>3 DEF Missing
  <2>2. Same(n)
    BY <1>1, <2>1 DEF Wrote
  <2>3. c \notin DOMAIN obj
    BY <2>1 DEF Wrote, Same
  <2> QED
    BY <2>1, <2>2, <2>3 DEF Missing, Same
<1>5. Different(n, c)' =>
        \/ n \in objEvents' \/ (c \in objEvents' /\ obj'[c].from = n)
        \/ Different(n, c) /\ (obj[c].from = n => obj'[c].from = n)
  <2> SUFFICES ASSUME Different(n, c)', n \notin objEvents',
                      ~(c \in objEvents' /\ obj'[c].from = n)
               PROVE  Different(n, c) /\ (obj[c].from = n => obj'[c].from = n)
    OBVIOUS
  <2>1. /\ n \in DOMAIN obj' /\ Below(n, c) /\ obj'[n].mode = PropagateUpdate
        /\ c \in DOMAIN obj' /\ obj'[c].from # Absent
        /\ ~Derives(Clone(obj'[n], n), obj'[c])
    BY <1>3 DEF Different, Clone, Derives
  <2>2. Same(n)
    BY <1>1, <2>1 DEF Wrote, Modes
  <2>3. n \in DOMAIN obj /\ obj[n] = obj'[n]
    BY <2>1, <2>2 DEF Same
  <2>4. CASE Same(c)
    BY <2>1, <2>3, <2>4 DEF Same, Different
  <2>5. CASE ~Same(c)
    <3>1. c = x /\ c \in objEvents' /\ obj'[c].from # n
      BY <2>1, <2>5 DEF Wrote
    <3>2. ~Below(obj'[c].from, c)
      BY <2>1, <3>1 DEF Below
    <3>3. c \in DOMAIN obj /\ obj[c].from = obj'[c].from
      BY <2>1, <3>1, <3>2 DEF Wrote
    <3>4. ~Derives(Clone(obj[n], n), obj[c])
      <4>1. Clone(obj[n], n).from = n \/ ~Derives(Clone(obj[n], n), obj[c])
        BY DEF Clone, Derives
      <4> QED
        BY <3>1, <3>3, <4>1 DEF Derives
    <3> QED
      BY <2>1, <2>3, <3>1, <3>3, <3>4 DEF Different
  <2> QED
    BY <2>4, <2>5
<1>6. Orphan(n, c)' => n \in objEvents' \/ c \in objEvents' \/ Orphan(n, c)
  BY <1>1, <1>3 DEF Orphan, Wrote, Same
<1>7. Stray(c)' /\ PropagateCreate \notin given' => Stray(c) /\ PropagateCreate \notin given
  <2> SUFFICES ASSUME Stray(c)', PropagateCreate \notin given'
               PROVE  Stray(c)
    BY DEF Wrote
  <2>1. /\ c \in DOMAIN obj' /\ obj'[c].mode = PropagateUpdate /\ obj'[c].from # Absent
        /\ obj'[c].from # GetParent(ns[c])
    BY <1>3 DEF Stray
  <2>2. CASE Same(c)
    BY <2>1, <2>2 DEF Stray, Same
  <2>3. CASE ~Same(c)
    <3>1. c \in DOMAIN obj /\ obj[c].from = obj'[c].from
      BY <2>1, <2>3 DEF Wrote, Below
    <3>2. obj[c].mode \in given /\ given \subseteq {PropagateUpdate}
      BY <2>1, <3>1 DEF ModesGiven, Wrote, TypeOK, Modes
    <3> QED
      BY <2>1, <3>1, <3>2 DEF Stray
  <2> QED
    BY <2>2, <2>3
<1> QED
  BY <1>4, <1>5, <1>6, <1>7

-----------------------------------------------------------------------------
(* What is on its way stays on its way until nothing is wrong.             *)

MissingCarried ==
  \A n, c \in Names :
    Missing(n, c) /\ Missing(n, c)' /\ obj'[n].mode = obj[n].mode /\ MissingPending(n, c)
      => MissingPending(n, c)'

DifferentCarried ==
  \A n, c \in Names :
    /\ Different(n, c) /\ Different(n, c)' /\ (obj[c].from = n => obj'[c].from = n)
    /\ DifferentPending(n, c)
    => DifferentPending(n, c)'

OrphanCarried ==
  \A n, c \in Names :
    Orphan(n, c) /\ Orphan(n, c)' /\ OrphanPending(n, c) => OrphanPending(n, c)'

StrayCarried == \A c \in Names : Stray(c) /\ Stray(c)' /\ StrayPending(c) => StrayPending(c)'

Carried == MissingCarried /\ DifferentCarried /\ OrphanCarried /\ StrayCarried

(* A step that moves no namespace keeps the invariant if it makes one      *)
(* write at most and carries what is on its way.                           *)
StepInPlace ==
  /\ ns' = ns
  /\ \E x : Wrote(x)
  /\ objEvents' \subseteq ObjPending'
  /\ Carried
  /\ ObjJobCurrent'
  /\ NsJobCurrent'

LEMMA StepInPlaceKeeps ==
  ASSUME TypeOK, InPlaceInv, StepInPlace
  PROVE  InPlaceInv'
<1>1. PICK x : Wrote(x)
  BY DEF StepInPlace
<1>2. /\ ns' = ns /\ objEvents' \subseteq ObjPending' /\ Carried
      /\ ObjJobCurrent' /\ NsJobCurrent'
  BY DEF StepInPlace
<1>3. ModesGiven /\ MissingInv /\ DifferentInv /\ OrphanInv /\ StrayInv /\ WellFormed(ns)
  BY DEF InPlaceInv
<1>4. WellFormed(ns)'
  BY <1>2, <1>3 DEF WellFormed
<1>5. ModesGiven'
  <2> SUFFICES ASSUME NEW m \in DOMAIN obj'
               PROVE  /\ obj'[m].mode \in given' \cup {Absent}
                      /\ obj'[m].from # Absent => obj'[m].mode # Absent
    BY DEF ModesGiven
  <2>1. CASE m = x
    BY <1>1, <2>1 DEF Wrote
  <2>2. CASE m # x
    BY <1>1, <1>3, <2>2 DEF Wrote, Same, ModesGiven
  <2> QED
    BY <2>1, <2>2
<1>6. MissingInv'
  <2> SUFFICES ASSUME NEW n \in Names, NEW c \in Names, Missing(n, c)'
               PROVE  MissingPending(n, c)'
    BY DEF MissingInv
  <2>1. CASE n \in objEvents' \/ c \in objEvents'
    BY <1>2, <2>1 DEF MissingPending
  <2>2. CASE Missing(n, c) /\ obj'[n].mode = obj[n].mode
    BY <1>2, <1>3, <2>2 DEF MissingInv, Carried, MissingCarried
  <2> QED
    BY <1>1, <1>2, <1>3, <2>1, <2>2, WrongAfterWrite
<1>7. DifferentInv'
  <2> SUFFICES ASSUME NEW n \in Names, NEW c \in Names, Different(n, c)'
               PROVE  DifferentPending(n, c)'
    BY DEF DifferentInv
  <2>1. CASE n \in objEvents' \/ (c \in objEvents' /\ obj'[c].from = n)
    BY <1>2, <2>1 DEF DifferentPending
  <2>2. CASE Different(n, c) /\ (obj[c].from = n => obj'[c].from = n)
    BY <1>2, <1>3, <2>2 DEF DifferentInv, Carried, DifferentCarried
  <2> QED
    BY <1>1, <1>2, <1>3, <2>1, <2>2, WrongAfterWrite
<1>8. OrphanInv'
  <2> SUFFICES ASSUME NEW n \in Names, NEW c \in Names, Orphan(n, c)'
               PROVE  OrphanPending(n, c)'
    BY DEF OrphanInv
  <2>1. CASE n \in objEvents' \/ c \in objEvents'
    BY <1>2, <2>1 DEF OrphanPending
  <2>2. CASE Orphan(n, c)
    BY <1>2, <1>3, <2>2 DEF OrphanInv, Carried, OrphanCarried
  <2> QED
    BY <1>1, <1>2, <1>3, <2>1, <2>2, WrongAfterWrite
<1>9. StrayInv'
  <2> SUFFICES ASSUME NEW c \in Names, PropagateCreate \notin given', Stray(c)'
               PROVE  StrayPending(c)'
    BY DEF StrayInv
  <2>1. Stray(c) /\ PropagateCreate \notin given
    BY <1>1, <1>2, <1>3, WrongAfterWrite
  <2> QED
    BY <1>2, <1>3, <2>1 DEF StrayInv, Carried, StrayCarried
<1> QED
  BY <1>2, <1>4, <1>5, <1>6, <1>7, <1>8, <1>9 DEF InPlaceInv

(* The halves of what is on its way: in the propagate controller, and in   *)
(* the Namespace reconciler.                                               *)
ObjSideKept == ObjPending \subseteq ObjPending' /\ objJob' = objJob
NsSideKept == NsPending \subseteq NsPending' /\ nsJob' = nsJob

LEMMA KeptIsCarried == ASSUME ObjSideKept, NsSideKept PROVE Carried
<1>1. \A n, c, kind : HandingOn(n, c, kind)' <=> HandingOn(n, c, kind)
  BY DEF ObjSideKept, HandingOn
<1>2. \A c, phases : Looking(c, phases)' <=> Looking(c, phases)
  BY DEF NsSideKept, Looking
<1>3. MissingCarried
  BY <1>1, <1>2 DEF ObjSideKept, NsSideKept, MissingCarried, MissingPending
<1>4. DifferentCarried
  BY <1>1, <1>2 DEF ObjSideKept, NsSideKept, DifferentCarried, DifferentPending
<1>5. OrphanCarried
  BY <1>1, <1>2 DEF ObjSideKept, NsSideKept, OrphanCarried, OrphanPending
<1>6. StrayCarried
  BY <1>2 DEF NsSideKept, StrayCarried, StrayPending
<1> QED
  BY <1>3, <1>4, <1>5, <1>6 DEF Carried

LEMMA ObjJobStaysCurrent ==
  ASSUME ObjJobCurrent, ObjSideKept, ns' = ns, NEW x, Wrote(x), objEvents' \subseteq ObjPending'
  PROVE  ObjJobCurrent'
<1> SUFFICES ASSUME objJob # NoJob
             PROVE  /\ \A c \in objJob.todo : Below(objJob.ns, c)'
                    /\ objJob.kind \in Modes =>
                         /\ objJob.res.mode = objJob.kind /\ objJob.kind \in given'
                         /\ \/ objJob.ns \in ObjPending'
                            \/ objJob.ns \in DOMAIN obj' /\ obj'[objJob.ns] = objJob.res
  BY DEF ObjJobCurrent, ObjSideKept
<1>1. ASSUME objJob.kind \in Modes, objJob.ns \notin ObjPending'
      PROVE  objJob.ns \in DOMAIN obj' /\ obj'[objJob.ns] = objJob.res
  <2>1. /\ objJob.ns \in DOMAIN obj /\ obj[objJob.ns] = objJob.res
        /\ obj[objJob.ns].mode # Absent
    BY <1>1, AbsentAssumption DEF ObjJobCurrent, ObjSideKept
  <2>2. Same(objJob.ns)
    BY <1>1, <2>1 DEF Wrote
  <2> QED
    BY <2>1, <2>2 DEF Same
<1> QED
  BY <1>1 DEF ObjJobCurrent, ObjSideKept, Wrote, Below

LEMMA NsJobStaysCurrent ==
  ASSUME NsJobCurrent, nsJob' = nsJob, ns' = ns
  PROVE  NsJobCurrent'
  BY DEF NsJobCurrent

LEMMA ReadyIsInSync ==
  ASSUME Careful, Ready
  PROVE  nsCache = ns /\ objCache = obj /\ nsEvents = {} /\ objEvents = {}
  BY DEF Careful, Calm, Ready, InSync

(* Each reconciliation of the propagate controller hands on what it takes  *)
(* from its queue.                                                         *)
LEMMA ReconcileObjInPlace ==
  ASSUME Careful, TypeOK, InPlaceInv, NEW x \in Names, ReconcileObj(x)
  PROVE  StepInPlace
<1>1. TakeObj(x)
  BY DEF ReconcileObj, HandleDeleteNowhere, HandleDeleteRecreate, HandleDeleteCascade,
         DeleteOrphan, FollowParent, HandOn
<1>2. nsCache = ns /\ objCache = obj /\ nsEvents = {} /\ objEvents = {}
  BY <1>1, ReadyIsInSync DEF TakeObj
<1>3. /\ ns' = ns /\ given' = given /\ objJob = NoJob /\ NsSideKept /\ nsJob' = nsJob
      /\ objQueue' = objQueue \ {x}
  BY <1>1 DEF TakeObj, nsVars, done, NsSideKept, NsPending
<1>4. /\ WellFormed(ns) /\ ObjJobCurrent /\ NsJobCurrent /\ ModesGiven
  BY DEF InPlaceInv
<1>5. objEvents' \subseteq ObjPending' /\ NsJobCurrent'
  BY <1>3, <1>4, NsJobStaysCurrent DEF ObjPending
<1>6. Absent \notin Names /\ "" \notin Names /\ Absent \notin Modes /\ DOMAIN obj \subseteq Names
  BY NamesAssumption, AbsentAssumption, MapFacts DEF TypeOK
<1>7. ASSUME NEW n \in Names, Below(n, x)
      PROVE  x \in DOMAIN ns /\ SupportOf(x) = n
  BY <1>2, <1>4, <1>7, ParentFacts DEF Below
<1>8. ASSUME Wrote(x), x \in objEvents', objJob' = objJob PROVE StepInPlace
  <2>1. ObjSideKept
    BY <1>2, <1>3, <1>8 DEF ObjSideKept, ObjPending
  <2>2. Carried /\ ObjJobCurrent'
    BY <1>3, <1>4, <1>5, <1>8, <2>1, KeptIsCarried, ObjJobStaysCurrent
  <2> QED
    BY <1>3, <1>5, <1>8, <2>2 DEF StepInPlace
<1>9. ASSUME UNCHANGED objVars PROVE Wrote(x)
  BY <1>3, <1>4, <1>9, NothingWritten
<1>10. CASE HandleDeleteNowhere(x)
  <2>1. x \notin DOMAIN ns /\ x \notin DOMAIN obj /\ UNCHANGED objVars /\ objJob' = NoJob
    BY <1>2, <1>3, <1>10 DEF HandleDeleteNowhere
  <2>2. \A n, c \in Names : Below(n, c) => n # x /\ c # x
    <3> SUFFICES ASSUME NEW n \in Names, NEW c \in Names, Below(n, c) PROVE n # x /\ c # x
      OBVIOUS
    <3>1. c \in DOMAIN ns /\ GetParent(ns[c]) = n /\ n \in DOMAIN ns \cup {""}
      BY <1>4, ParentFacts DEF Below
    <3> QED
      BY <1>6, <2>1, <3>1
  <2>3. /\ \A m \in ObjPending : m # x => m \in ObjPending'
        /\ \A n, c, kind : HandingOn(n, c, kind) => FALSE
        /\ \A c, phases : Looking(c, phases)' <=> Looking(c, phases)
        /\ NsPending \subseteq NsPending' /\ nsJob' = nsJob
    BY <1>3, <2>1 DEF ObjPending, objVars, HandingOn, NsSideKept, Looking
  <2>4. MissingCarried
    BY <2>2, <2>3 DEF MissingCarried, Missing, MissingPending
  <2>5. DifferentCarried
    BY <2>2, <2>3 DEF DifferentCarried, Different, DifferentPending
  <2>6. OrphanCarried
    BY <2>2, <2>3 DEF OrphanCarried, Orphan, OrphanPending
  <2>7. StrayCarried
    BY <2>3 DEF StrayCarried, StrayPending
  <2> QED
    BY <1>3, <1>5, <1>9, <2>1, <2>4, <2>5, <2>6, <2>7 DEF StepInPlace, Carried, ObjJobCurrent
<1>11. CASE HandleDeleteRecreate(x)
  <2> DEFINE p == SupportOf(x)
             o == Clone(obj[p], p)
  <2>1. /\ x \notin DOMAIN obj /\ x \in DOMAIN ns /\ p \in DOMAIN ns /\ p \in DOMAIN obj
        /\ obj[p].mode \in Modes /\ UNCHANGED objJob
        /\ IsTerminating(x) \/ WriteObj(Put(obj, x, o))
    BY <1>2, <1>11 DEF HandleDeleteRecreate, Supported
  <2>2. ~IsTerminating(x) /\ Below(p, x)
    BY <1>2, <1>4, <2>1, ParentFacts DEF Below
  <2>3. obj[p] \in Resource /\ p \in Names
    BY <2>1, MapFacts DEF TypeOK
  <2>4. o.from = p /\ o.mode = obj[p].mode /\ o.mode \in given
    BY <1>4, <1>6, <2>1, <2>3 DEF Clone, Resource, ModesGiven
  <2>5. x \in DOMAIN obj' /\ obj'[x] = o /\ Wrote(x)
    BY <1>3, <1>6, <2>1, <2>2, <2>3, <2>4, PutWrites
  <2>6. x \in objEvents'
    BY <1>6, <2>1, <2>3, <2>4, <2>5 DEF Wrote, Same
  <2> QED
    BY <1>8, <2>1, <2>5, <2>6
<1>12. CASE HandleDeleteCascade(x)
  <2>1. /\ x \notin DOMAIN obj /\ x \in DOMAIN ns /\ UNCHANGED objVars
        /\ ~(SupportOf(x) \in DOMAIN obj /\ obj[SupportOf(x)].mode \in Modes)
        /\ ForChildren(x, "delete", Absent, GetChildren(x))
    BY <1>2, <1>12 DEF HandleDeleteCascade, Supported
  <2>2. \A c : c \in GetChildren(x) <=> Below(x, c)
    BY <1>2, <1>4, <2>1, ChildrenAreBelow
  <2>3. ObjJobCurrent'
    BY <1>3, <2>1, <2>2 DEF ForChildren, ObjJobCurrent, Below, Modes, PropagateCreate,
       PropagateUpdate
  <2>4. \A c \in Names : Below(x, c) => HandingOn(x, c, "delete")'
    <3> SUFFICES ASSUME NEW c \in Names, Below(x, c) PROVE HandingOn(x, c, "delete")'
      OBVIOUS
    <3>1. GetChildren(x) # {} /\ c \in GetChildren(x) /\ GetChildren(x) \subseteq Names
      BY <2>2, GetChildrenTypes, TypeParts
    <3>2. objJob' = [ns |-> x, kind |-> "delete", res |-> Absent, todo |-> GetChildren(x)]
      BY <2>1, <3>1 DEF ForChildren
    <3>3. objJob' \in ObjJobs
      BY <3>1, <3>2 DEF ObjJobs
    <3> QED
      BY <3>1, <3>2, <3>3, NoJobAssumption DEF HandingOn
  <2>5. /\ \A m \in ObjPending : m # x => m \in ObjPending'
        /\ \A n, c, kind : HandingOn(n, c, kind) => FALSE
        /\ \A c, phases : Looking(c, phases)' <=> Looking(c, phases)
        /\ NsPending \subseteq NsPending' /\ nsJob' = nsJob
    BY <1>3, <2>1 DEF ObjPending, objVars, HandingOn, NsSideKept, Looking
  <2>6. MissingCarried
    <3> SUFFICES ASSUME NEW n \in Names, NEW c \in Names, Missing(n, c), MissingPending(n, c),
                        obj'[n].mode = obj[n].mode
                 PROVE  MissingPending(n, c)'
      BY DEF MissingCarried
    <3>1. n # x /\ c # x
      BY <1>7, <2>1 DEF Missing
    <3> QED
      BY <2>5, <3>1 DEF MissingPending
  <2>7. DifferentCarried
    BY <2>1, <2>5 DEF DifferentCarried, Different, DifferentPending
  <2>8. OrphanCarried
    <3> SUFFICES ASSUME NEW n \in Names, NEW c \in Names, Orphan(n, c), OrphanPending(n, c)
                 PROVE  OrphanPending(n, c)'
      BY DEF OrphanCarried
    <3>1. CASE n = x
      BY <2>4, <3>1 DEF Orphan, OrphanPending
    <3>2. CASE n # x
      BY <2>1, <2>5, <3>2 DEF Orphan, OrphanPending
    <3> QED
      BY <3>1, <3>2
  <2>9. StrayCarried
    BY <2>5 DEF StrayCarried, StrayPending
  <2> QED
    BY <1>3, <1>5, <1>9, <2>1, <2>3, <2>6, <2>7, <2>8, <2>9 DEF StepInPlace, Carried
<1>13. CASE DeleteOrphan(x)
  <2>1. x \in DOMAIN obj /\ obj[x].from # Absent /\ WriteObj(Drop(obj, x)) /\ UNCHANGED objJob
    BY <1>2, <1>13 DEF DeleteOrphan, From
  <2>2. x \notin DOMAIN obj' /\ Wrote(x)
    BY <1>3, <2>1, DropWrites DEF Watched
  <2> QED
    BY <1>8, <2>1, <2>2 DEF Wrote
<1>14. CASE FollowParent(x)
  <2> DEFINE p == obj[x].from
             o == Clone(obj[p], p)
  <2>1. /\ x \in DOMAIN obj /\ p \in DOMAIN obj /\ obj[p].mode = PropagateUpdate
        /\ ~Derives(o, obj[x]) /\ Apply(x, o) /\ UNCHANGED objJob
    BY <1>2, <1>14 DEF FollowParent, Has, From
  <2>2. obj[p] \in Resource /\ p \in Names
    BY <2>1, MapFacts DEF TypeOK
  <2>3. /\ o.from = p /\ o.mode = PropagateUpdate /\ o.mode \in given /\ o \in Resource
        /\ o.mode # Absent /\ o.from # Absent
    BY <1>4, <1>6, <2>1, <2>2, CloneTypes DEF Clone, Resource, ModesGiven, Modes
  <2>4. x \in objEvents' /\ Wrote(x)
    <3> HIDE DEF o
    <3> QED
      BY <1>3, <2>1, <2>3, ApplyWrites
  <2> QED
    BY <1>8, <2>1, <2>4
<1>15. CASE HandOn(x)
  <2>1. /\ x \in DOMAIN obj /\ UNCHANGED objVars
        /\ IF obj[x].from \in DOMAIN obj /\ obj[obj[x].from].mode = PropagateUpdate
           THEN Derives(Clone(obj[obj[x].from], obj[x].from), obj[x])
           ELSE \/ obj[x].from = Absent \/ obj[x].from \in DOMAIN obj
                \/ obj[x].mode # PropagateUpdate
        /\ IF obj[x].mode \in Modes
           THEN x \in DOMAIN ns /\ ForChildren(x, obj[x].mode, obj[x], GetChildren(x))
           ELSE UNCHANGED objJob
    BY <1>2, <1>15 DEF HandOn, Has, From
  <2>2. x \in DOMAIN ns
    BY <2>1 DEF TypeOK
  <2>3. \A c : c \in GetChildren(x) <=> Below(x, c)
    BY <1>2, <1>4, <2>2, ChildrenAreBelow
  <2>4. ObjJobCurrent'
    <3>1. CASE objJob' = NoJob
      BY <3>1 DEF ObjJobCurrent
    <3>2. CASE objJob' # NoJob
      <4>1. /\ obj[x].mode \in Modes
            /\ objJob' = [ns |-> x, kind |-> obj[x].mode, res |-> obj[x], todo |-> GetChildren(x)]
        BY <1>3, <2>1, <3>2 DEF ForChildren
      <4>2. obj[x].mode \in given /\ obj' = obj
        BY <1>4, <1>6, <2>1, <4>1 DEF ModesGiven, objVars
      <4> QED
        BY <1>3, <2>1, <2>3, <4>1, <4>2 DEF ObjJobCurrent, Below
    <3> QED
      BY <3>1, <3>2
  <2>5. ASSUME obj[x].mode \in Modes
        PROVE  \A c \in Names : Below(x, c) => HandingOn(x, c, obj[x].mode)'
    <3> SUFFICES ASSUME NEW c \in Names, Below(x, c) PROVE HandingOn(x, c, obj[x].mode)'
      OBVIOUS
    <3>1. GetChildren(x) # {} /\ c \in GetChildren(x) /\ GetChildren(x) \subseteq Names
      BY <2>3, GetChildrenTypes, TypeParts
    <3>2. objJob' = [ns |-> x, kind |-> obj[x].mode, res |-> obj[x], todo |-> GetChildren(x)]
      BY <2>1, <2>5, <3>1 DEF ForChildren
    <3>3. objJob' \in ObjJobs
      BY <2>1, <2>5, <3>1, <3>2, MapFacts DEF ObjJobs, TypeOK
    <3> QED
      BY <2>1, <3>1, <3>2, <3>3, NoJobAssumption DEF HandingOn, objVars
  <2>6. /\ \A m \in ObjPending : m # x => m \in ObjPending'
        /\ \A n, c, kind : HandingOn(n, c, kind) => FALSE
        /\ \A c, phases : Looking(c, phases)' <=> Looking(c, phases)
        /\ NsPending \subseteq NsPending' /\ nsJob' = nsJob
        /\ obj' = obj
    BY <1>3, <2>1 DEF ObjPending, objVars, HandingOn, NsSideKept, Looking
  <2>7. MissingCarried
    <3> SUFFICES ASSUME NEW n \in Names, NEW c \in Names, Missing(n, c), MissingPending(n, c)
                 PROVE  MissingPending(n, c)'
      BY DEF MissingCarried
    <3>1. c # x
      BY <2>1 DEF Missing
    <3>2. CASE n = x
      BY <2>1, <2>5, <2>6, <3>2 DEF Missing, MissingPending
    <3>3. CASE n # x
      BY <2>6, <3>1, <3>3 DEF MissingPending
    <3> QED
      BY <3>2, <3>3
  <2>8. DifferentCarried
    <3> SUFFICES ASSUME NEW n \in Names, NEW c \in Names, Different(n, c),
                        DifferentPending(n, c)
                 PROVE  DifferentPending(n, c)'
      BY DEF DifferentCarried
    <3>1. CASE n = x
      BY <2>1, <2>5, <2>6, <3>1 DEF Different, DifferentPending, Modes
    <3>2. CASE n # x
      <4>1. ~(c = x /\ obj[c].from = n)
        BY <2>1 DEF Different
      <4> QED
        BY <2>6, <3>2, <4>1 DEF DifferentPending
    <3> QED
      BY <3>1, <3>2
  <2>9. OrphanCarried
    <3> SUFFICES ASSUME NEW n \in Names, NEW c \in Names, Orphan(n, c), OrphanPending(n, c)
                 PROVE  OrphanPending(n, c)'
      BY DEF OrphanCarried
    <3>1. n # x /\ c # x
      BY <1>6, <2>1 DEF Orphan
    <3> QED
      BY <2>6, <3>1 DEF OrphanPending
  <2>10. StrayCarried
    BY <2>6 DEF StrayCarried, StrayPending
  <2> QED
    BY <1>3, <1>5, <1>9, <2>1, <2>4, <2>7, <2>8, <2>9, <2>10 DEF StepInPlace, Carried
<1> QED
  BY <1>10, <1>11, <1>12, <1>13, <1>14, <1>15 DEF ReconcileObj

(* One child of a loop gets what the loop hands on.                        *)
LEMMA CopyStepInPlace ==
  ASSUME Careful, TypeOK, InPlaceInv, CopyStep
  PROVE  StepInPlace
<1> DEFINE n0 == objJob.ns
           clone == Clone(objJob.res, n0)
<1>1. PICK c0 \in Names : SkipChild(c0) \/ CreateCopy(c0) \/ ApplyCopy(c0) \/ DeleteCopy(c0)
  BY DEF CopyStep
<1>2. AtChild(c0)
  BY <1>1 DEF SkipChild, CreateCopy, ApplyCopy, DeleteCopy
<1>3. nsCache = ns /\ objCache = obj /\ nsEvents = {} /\ objEvents = {}
  BY <1>2, ReadyIsInSync DEF AtChild
<1>4. /\ ns' = ns /\ given' = given /\ objJob # NoJob /\ c0 \in objJob.todo /\ nsJob' = nsJob
      /\ NsPending' = NsPending
  BY <1>2 DEF AtChild, nsVars, done, NsPending
<1>5. WellFormed(ns) /\ ObjJobCurrent /\ NsJobCurrent /\ ModesGiven
  BY DEF InPlaceInv
<1>6. Absent \notin Names /\ Absent \notin Modes /\ DOMAIN obj \subseteq Names
  BY NamesAssumption, AbsentAssumption, MapFacts DEF TypeOK
<1>7. /\ n0 \in Names /\ objJob.todo \in SUBSET Names
      /\ \/ objJob.kind = "delete" /\ objJob.res = Absent
         \/ objJob.kind \in Modes /\ objJob.res \in Resource
  BY <1>4, JobFacts, TypeParts
<1>8. Below(n0, c0) /\ ~IsTerminating(c0) /\ (c0 \notin DOMAIN obj => MayCreate(c0))
  BY <1>4, <1>5, ParentFacts DEF ObjJobCurrent, Below, MayCreate, IsTerminating
<1>9. objJob.kind \in Modes =>
        /\ objJob.res.mode = objJob.kind /\ objJob.kind \in given
        /\ n0 \in ObjPending \/ (n0 \in DOMAIN obj /\ obj[n0] = objJob.res)
  BY <1>4, <1>5 DEF ObjJobCurrent
<1>10. objJob.kind \in Modes =>
         /\ clone \in Resource /\ clone.from = n0 /\ clone.mode = objJob.kind
         /\ clone.from # Absent /\ clone.mode # Absent /\ clone.mode \in given'
  BY <1>4, <1>6, <1>7, <1>9, CloneTypes DEF Clone, Resource, Modes, PropagateCreate,
     PropagateUpdate
<1> HIDE DEF clone
(* The step has this much in common, whatever it writes.                   *)
<1>11. ASSUME NextChild(c0), Wrote(c0),
              ~Same(c0) => c0 \in objEvents',
              objJob.kind \in Modes => c0 \in DOMAIN obj',
              objJob.kind = PropagateUpdate /\ c0 \in DOMAIN obj =>
                Derives(clone, obj[c0]) \/ (c0 \in objEvents' /\ obj'[c0].from = n0),
              objJob.kind = "delete" /\ c0 \in DOMAIN obj' => obj'[c0].mode # PropagateUpdate
       PROVE  StepInPlace
  <2>1. objQueue' = objQueue /\ objEvents \subseteq objEvents' /\ ObjPending \subseteq ObjPending'
    BY <1>11 DEF NextChild, Wrote, ObjPending
  <2>2. \A n, kind : \A c \in objJob.todo \ {c0} :
          HandingOn(n, c, kind) => HandingOn(n, c, kind)'
    <3> SUFFICES ASSUME NEW n, NEW kind, NEW c \in objJob.todo \ {c0}, HandingOn(n, c, kind)
                 PROVE  HandingOn(n, c, kind)'
      OBVIOUS
    <3>1. objJob' = [ns |-> n0, kind |-> objJob.kind, res |-> objJob.res,
                     todo |-> objJob.todo \ {c0}]
      BY <1>11 DEF NextChild, ForChildren
    <3>2. objJob' \in ObjJobs
      BY <1>7, <3>1 DEF ObjJobs
    <3> QED
      BY <3>1, <3>2, NoJobAssumption DEF HandingOn
  <2>3. \A n, c, kind :
          HandingOn(n, c, kind) =>
            HandingOn(n, c, kind)' \/ (n = n0 /\ c = c0 /\ kind = objJob.kind)
    BY <2>2 DEF HandingOn
  <2>4. \A c, phases : Looking(c, phases)' <=> Looking(c, phases)
    BY <1>4 DEF Looking
  <2>5. MissingCarried
    BY <1>4, <1>11, <2>1, <2>3, <2>4 DEF MissingCarried, Missing, MissingPending
  <2>6. DifferentCarried
    <3> SUFFICES ASSUME NEW n \in Names, NEW c \in Names, Different(n, c),
                        obj[c].from = n => obj'[c].from = n, DifferentPending(n, c)
                 PROVE  DifferentPending(n, c)'
      BY DEF DifferentCarried
    <3>1. CASE HandingOn(n, c, PropagateUpdate) /\ ~HandingOn(n, c, PropagateUpdate)'
      <4>1. n = n0 /\ c = c0 /\ objJob.kind = PropagateUpdate /\ c0 \in DOMAIN obj
        BY <2>3, <3>1 DEF Different
      <4>2. Derives(clone, obj[c0]) => n0 \in ObjPending
        BY <1>9, <4>1 DEF Different, Modes, clone
      <4> QED
        BY <1>11, <2>1, <4>1, <4>2 DEF DifferentPending, ObjPending
    <3> QED
      BY <1>4, <2>1, <2>4, <3>1 DEF DifferentPending
  <2>7. OrphanCarried
    BY <1>4, <1>11, <2>1, <2>3, <2>4 DEF OrphanCarried, Orphan, OrphanPending
  <2>8. StrayCarried
    BY <1>4, <2>4 DEF StrayCarried, StrayPending
  <2>9. ObjJobCurrent'
    <3> SUFFICES ASSUME objJob' # NoJob
                 PROVE  ObjJobCurrent'
      BY DEF ObjJobCurrent
    <3>1. objJob' = [ns |-> n0, kind |-> objJob.kind, res |-> objJob.res,
                     todo |-> objJob.todo \ {c0}]
      BY <1>11 DEF NextChild, ForChildren
    <3>2. ASSUME objJob.kind \in Modes, n0 \notin ObjPending'
          PROVE  n0 \in DOMAIN obj' /\ obj'[n0] = objJob.res
      <4>1. n0 \in DOMAIN obj /\ obj[n0] = objJob.res /\ n0 \notin objEvents'
        BY <1>9, <2>1, <3>2 DEF ObjPending
      <4>2. Same(n0)
        BY <1>11, <4>1 DEF Wrote
      <4> QED
        BY <4>1, <4>2 DEF Same
    <3> QED
      BY <1>4, <1>5, <1>9, <3>1, <3>2 DEF ObjJobCurrent, Below
  <2> QED
    BY <1>4, <1>5, <1>11, <2>5, <2>6, <2>7, <2>8, <2>9, NsJobStaysCurrent
       DEF StepInPlace, Carried, ObjPending
<1>12. CASE SkipChild(c0)
  <2>1. UNCHANGED objVars /\ NextChild(c0)
    BY <1>12 DEF SkipChild
  <2>2. Same(c0) /\ Wrote(c0)
    BY <1>4, <1>5, <2>1, NothingWritten
  <2> QED
    BY <1>3, <1>11, <1>12, <2>1, <2>2
       DEF SkipChild, Same, Has, Modes, PropagateCreate, PropagateUpdate, clone
<1>13. CASE CreateCopy(c0)
  <2>1. /\ objJob.kind \in Modes /\ c0 \notin DOMAIN obj /\ NextChild(c0)
        /\ WriteObj(Put(obj, c0, clone))
    BY <1>3, <1>8, <1>13 DEF CreateCopy, clone
  <2>2. c0 \in DOMAIN obj' /\ obj'[c0] = clone /\ Wrote(c0)
    BY <1>4, <1>8, <1>10, <2>1, PutWrites
  <2>3. c0 \in objEvents'
    BY <1>10, <2>1, <2>2 DEF Wrote, Same
  <2> QED
    BY <1>11, <2>1, <2>2, <2>3 DEF Modes, PropagateCreate, PropagateUpdate
<1>14. CASE ApplyCopy(c0)
  <2>1. /\ objJob.kind = PropagateUpdate /\ c0 \in DOMAIN obj /\ NextChild(c0)
        /\ ~Derives(clone, obj[c0]) /\ Apply(c0, clone)
    BY <1>3, <1>14 DEF ApplyCopy, MayApply, clone
  <2>2. /\ c0 \in DOMAIN obj' /\ c0 \in objEvents' /\ Wrote(c0) /\ obj'[c0].from = n0
    BY <1>4, <1>8, <1>10, <2>1, ApplyWrites DEF Modes
  <2> QED
    BY <1>11, <2>1, <2>2 DEF PropagateUpdate
<1>15. CASE DeleteCopy(c0)
  <2>1. /\ objJob.kind = "delete" /\ c0 \in DOMAIN obj /\ obj[c0].mode = PropagateUpdate
        /\ NextChild(c0) /\ WriteObj(Drop(obj, c0))
    BY <1>3, <1>15 DEF DeleteCopy, Has
  <2>2. c0 \notin DOMAIN obj' /\ Wrote(c0)
    BY <1>4, <2>1, DropWrites, AbsentAssumption DEF Watched, Modes
  <2> QED
    BY <1>11, <2>1, <2>2 DEF Wrote, Modes, PropagateCreate, PropagateUpdate
<1> QED
  BY <1>1, <1>12, <1>13, <1>14, <1>15

(* The Namespace reconciler starts to look at what it takes from its queue.*)
LEMMA ReconcileNsInPlace ==
  ASSUME Careful, TypeOK, InPlaceInv, NEW x \in Names, ReconcileNs(x)
  PROVE  StepInPlace
<1>1. TakeNs(x)
  BY DEF ReconcileNs, IgnoreNs, BeginPropagate, DeletePropagated
<1>2. nsCache = ns /\ objCache = obj /\ nsEvents = {} /\ objEvents = {}
  BY <1>1, ReadyIsInSync DEF TakeNs
<1>3. /\ ns' = ns /\ given' = given /\ objJob' = objJob /\ objQueue' = objQueue
      /\ nsJob = NoJob
      /\ \A c \in NsPending : c # x => c \in NsPending'
  BY <1>1 DEF TakeNs, nsVars, done, NsPending
<1>4. WellFormed(ns) /\ ObjJobCurrent /\ NsJobCurrent /\ ModesGiven
  BY DEF InPlaceInv
<1>5. "" \notin Names /\ DOMAIN obj \subseteq DOMAIN ns
  BY NamesAssumption DEF TypeOK
<1>6. ASSUME Wrote(x), NsJobCurrent',
             \/ Looking(x, {"create"})'
             \/ ~Stray(x)' /\ \A n \in Names : ~Below(n, x)
      PROVE  StepInPlace
  <2>1. ObjSideKept /\ objEvents' \subseteq ObjPending'
    BY <1>3, <1>6 DEF ObjSideKept, ObjPending, Wrote
  <2>2. ObjJobCurrent'
    BY <1>3, <1>4, <1>6, <2>1, ObjJobStaysCurrent
  <2>3. \A n, c, kind : HandingOn(n, c, kind)' <=> HandingOn(n, c, kind)
    BY <1>3 DEF HandingOn
  <2>4. \A c, phases : ~Looking(c, phases)
    BY <1>3 DEF Looking
  <2>5. ASSUME NEW phases, "create" \in phases, Looking(x, {"create"})'
        PROVE  Looking(x, phases)'
    BY <2>5 DEF Looking
  <2>6. MissingCarried
    BY <1>3, <1>6, <2>1, <2>3, <2>4 DEF MissingCarried, Missing, MissingPending, ObjSideKept
  <2>7. DifferentCarried
    BY <1>3, <1>6, <2>1, <2>3, <2>4, <2>5
       DEF DifferentCarried, Different, DifferentPending, ObjSideKept
  <2>8. OrphanCarried
    BY <1>3, <1>6, <2>1, <2>3, <2>4, <2>5
       DEF OrphanCarried, Orphan, OrphanPending, ObjSideKept
  <2>9. StrayCarried
    BY <1>3, <1>6, <2>4, <2>5 DEF StrayCarried, StrayPending
  <2> QED
    BY <1>3, <1>6, <2>1, <2>2, <2>6, <2>7, <2>8, <2>9 DEF StepInPlace, Carried
<1>7. ASSUME UNCHANGED objVars PROVE Wrote(x) /\ obj' = obj
  BY <1>3, <1>4, <1>7, NothingWritten DEF objVars
<1>8. CASE IgnoreNs(x)
  <2>1. x \notin DOMAIN ns
    BY <1>2, <1>4, <1>8 DEF IgnoreNs, WellFormed
  <2> QED
    BY <1>3, <1>4, <1>5, <1>6, <1>7, <1>8, <2>1, NsJobStaysCurrent
       DEF IgnoreNs, Stray, Below
<1>9. CASE BeginPropagate(x)
  <2>1. /\ x \in DOMAIN ns /\ UNCHANGED objVars
        /\ nsJob' = [ns |-> x, parent |-> SupportOf(x), phase |-> "create", present |-> FALSE]
        /\ SupportOf(x) \in DOMAIN ns
    BY <1>2, <1>9 DEF BeginPropagate
  <2>2. SupportOf(x) = GetParent(ns[x]) /\ SupportOf(x) \in Names
    BY <1>2, <1>4, <2>1, ParentFacts, MapFacts DEF TypeOK
  <2>3. nsJob' \in NsJobs
    BY <2>1, <2>2 DEF NsJobs
  <2>4. Looking(x, {"create"})' /\ NsJobCurrent'
    BY <1>3, <1>5, <2>1, <2>2, <2>3, NoJobAssumption DEF Looking, NsJobCurrent
  <2> QED
    BY <1>6, <1>7, <2>1, <2>4
<1>10. CASE DeletePropagated(x)
  <2>1. /\ x \in DOMAIN ns /\ nsJob' = nsJob
        /\ ns[x].parent = Absent /\ ns[x].template = Absent
        /\ IF x \in DOMAIN obj /\ obj[x].mode = PropagateUpdate /\ obj[x].from # Absent
           THEN WriteObj(Drop(obj, x)) ELSE UNCHANGED objVars
    BY <1>2, <1>10 DEF DeletePropagated, Has
  <2>2. \A n \in Names : ~Below(n, x)
    BY <1>4, <1>5, <2>1, ParentFacts DEF Below
  <2>3. Wrote(x) /\ ~Stray(x)'
    <3>1. CASE x \in DOMAIN obj /\ obj[x].mode = PropagateUpdate /\ obj[x].from # Absent
      BY <1>3, <2>1, <3>1, DropWrites DEF Watched, Stray
    <3>2. CASE ~(x \in DOMAIN obj /\ obj[x].mode = PropagateUpdate /\ obj[x].from # Absent)
      BY <1>7, <2>1, <3>2 DEF Stray
    <3> QED
      BY <3>1, <3>2
  <2> QED
    BY <1>3, <1>4, <1>6, <2>1, <2>2, <2>3, NsJobStaysCurrent
<1> QED
  BY <1>8, <1>9, <1>10 DEF ReconcileNs

(* A look at a namespace puts right what is wrong with its copy, or leaves *)
(* it to the next look.                                                    *)
LEMMA PropagateStepInPlace ==
  ASSUME Careful, TypeOK, InPlaceInv, PropagateStep
  PROVE  StepInPlace
<1>1. Ready /\ nsJob # NoJob /\ UNCHANGED <<nsVars, caches, objQueue, objJob, done>>
  BY DEF PropagateStep, PropagateCreatePhase, PropagateUpdatePhase, SweepPhase, InPhase
<1>2. nsCache = ns /\ objCache = obj /\ nsEvents = {} /\ objEvents = {}
  BY <1>1, ReadyIsInSync
<1>3. ns' = ns /\ given' = given /\ objJob' = objJob /\ objQueue' = objQueue
      /\ nsEvents' = nsEvents
  BY <1>1 DEF nsVars, done
<1>4. WellFormed(ns) /\ ObjJobCurrent /\ NsJobCurrent /\ ModesGiven
  BY DEF InPlaceInv
<1>5. Absent \notin Names /\ "" \notin Names /\ Absent \notin Modes
  BY NamesAssumption, AbsentAssumption
<1>6. PICK c0 \in Names, p \in Names : nsJob \in NsJobs /\ nsJob.ns = c0 /\ nsJob.parent = p
  BY <1>1 DEF TypeOK, NsJobs
<1> DEFINE clone == Clone(obj[p], p)
<1>7. /\ c0 \in DOMAIN ns /\ p = GetParent(ns[c0]) /\ Below(p, c0)
      /\ \A n : Below(n, c0) => n = p
      /\ ~IsTerminating(c0)
  BY <1>1, <1>4, <1>6, ParentFacts DEF NsJobCurrent, Below
<1>8. c0 \notin DOMAIN obj => MayCreate(c0)
  BY <1>7 DEF MayCreate, IsTerminating
<1>9. p \in DOMAIN obj /\ obj[p].mode # Absent =>
        /\ clone \in Resource /\ clone.from = p /\ clone.mode = obj[p].mode
        /\ clone.mode \in given' /\ clone.from # Absent
  <2> SUFFICES ASSUME p \in DOMAIN obj, obj[p].mode # Absent
               PROVE  /\ clone \in Resource /\ clone.from = p /\ clone.mode = obj[p].mode
                      /\ clone.mode \in given' /\ clone.from # Absent
    OBVIOUS
  <2>1. obj[p] \in Resource
    BY MapFacts DEF TypeOK
  <2> QED
    BY <1>3, <1>4, <1>5, <1>6, <2>1, CloneTypes DEF Clone, Resource, ModesGiven
<1> HIDE DEF clone
(* The step has this much in common, whatever it writes.                   *)
<1>10. ASSUME Wrote(c0), nsQueue' = nsQueue, NsJobCurrent',
              Missing(p, c0) /\ Missing(p, c0)' /\ obj'[p].mode = obj[p].mode /\
              (Looking(c0, {"create"}) \/ (Looking(c0, {"update"}) /\ obj[p].mode = PropagateUpdate))
                => MissingPending(p, c0)',
              Different(p, c0) /\ Different(p, c0)' /\ Looking(c0, {"create", "update"})
                => DifferentPending(p, c0)',
              Orphan(p, c0) /\ Orphan(p, c0)' /\
              (Looking(c0, {"create", "update"}) \/ (Looking(c0, {"sweep"}) /\ ~nsJob.present))
                => OrphanPending(p, c0)',
              Stray(c0) /\ Stray(c0)' => StrayPending(c0)'
       PROVE  StepInPlace
  <2>1. /\ ObjSideKept /\ objEvents' \subseteq ObjPending' /\ NsPending' = NsPending
    BY <1>3, <1>10 DEF ObjSideKept, ObjPending, NsPending, Wrote
  <2>2. ObjJobCurrent'
    BY <1>3, <1>4, <1>10, <2>1, ObjJobStaysCurrent
  <2>3. \A n, c, kind : HandingOn(n, c, kind)' <=> HandingOn(n, c, kind)
    BY <1>3 DEF HandingOn
  <2>4. \A c, phases : Looking(c, phases) => c = c0
    BY <1>6 DEF Looking
  <2>5. MissingCarried
    <3> SUFFICES ASSUME NEW n \in Names, NEW c \in Names, Missing(n, c), Missing(n, c)',
                        obj'[n].mode = obj[n].mode, MissingPending(n, c)
                 PROVE  MissingPending(n, c)'
      BY DEF MissingCarried
    <3>1. CASE \/ Looking(c, {"create"})
               \/ Looking(c, {"update"}) /\ obj[n].mode = PropagateUpdate
      <4>1. c = c0 /\ n = p
        BY <1>7, <2>4, <3>1 DEF Missing
      <4> QED
        BY <1>10, <3>1, <4>1
    <3> QED
      BY <2>1, <2>3, <3>1 DEF MissingPending, ObjSideKept
  <2>6. DifferentCarried
    <3> SUFFICES ASSUME NEW n \in Names, NEW c \in Names, Different(n, c), Different(n, c)',
                        obj[c].from = n => obj'[c].from = n, DifferentPending(n, c)
                 PROVE  DifferentPending(n, c)'
      BY DEF DifferentCarried
    <3>1. CASE Looking(c, {"create", "update"})
      <4>1. c = c0 /\ n = p
        BY <1>7, <2>4, <3>1 DEF Different
      <4> QED
        BY <1>10, <3>1, <4>1
    <3> QED
      BY <2>1, <2>3, <3>1 DEF DifferentPending, ObjSideKept
  <2>7. OrphanCarried
    <3> SUFFICES ASSUME NEW n \in Names, NEW c \in Names, Orphan(n, c), Orphan(n, c)',
                        OrphanPending(n, c)
                 PROVE  OrphanPending(n, c)'
      BY DEF OrphanCarried
    <3>1. CASE \/ Looking(c, {"create", "update"})
               \/ Looking(c, {"sweep"}) /\ ~nsJob.present
      <4>1. c = c0 /\ n = p
        BY <1>7, <2>4, <3>1 DEF Orphan
      <4> QED
        BY <1>10, <3>1, <4>1
    <3> QED
      BY <2>1, <2>3, <3>1 DEF OrphanPending, ObjSideKept
  <2>8. StrayCarried
    BY <1>10, <2>1, <2>4 DEF StrayCarried, StrayPending
  <2> QED
    BY <1>3, <1>10, <2>1, <2>2, <2>5, <2>6, <2>7, <2>8 DEF StepInPlace, Carried
<1>11. ASSUME UNCHANGED objVars PROVE Wrote(c0) /\ obj' = obj
  BY <1>3, <1>4, <1>11, NothingWritten DEF objVars
<1>12. ASSUME c0 \notin DOMAIN obj, p \in DOMAIN obj, obj[p].mode \in Modes,
              NEW next, CreateOrRetry(c0, clone, next)
       PROVE  nsJob' = next /\ nsQueue' = nsQueue /\ c0 \in DOMAIN obj' /\ Wrote(c0)
  <2>1. WriteObj(Put(obj, c0, clone)) /\ nsJob' = next /\ nsQueue' = nsQueue
    BY <1>8, <1>12 DEF CreateOrRetry
  <2> QED
    BY <1>3, <1>5, <1>7, <1>9, <1>12, <2>1, PutWrites
(* The job that is left is at the next look.                               *)
<1>13. ASSUME NEW phase \in {"update", "sweep"}, NEW present \in BOOLEAN,
              nsJob' = [nsJob EXCEPT !.phase = phase, !.present = present]
       PROVE  /\ \A phases : phase \in phases => Looking(c0, phases)'
              /\ nsJob'.present = present /\ NsJobCurrent'
  <2>1. nsJob' \in NsJobs /\ nsJob'.ns = c0 /\ nsJob'.parent = p /\ nsJob'.phase = phase
        /\ nsJob'.present = present
    BY <1>6, <1>13 DEF NsJobs
  <2> QED
    BY <1>1, <1>3, <1>4, <1>6, <2>1, NoJobAssumption DEF Looking, NsJobCurrent
<1>14. CASE PropagateCreatePhase
  <2> DEFINE next == [nsJob EXCEPT !.phase = "update"]
  <2>1. IF p \in DOMAIN obj /\ obj[p].mode = PropagateCreate /\ c0 \notin DOMAIN obj
        THEN CreateOrRetry(c0, clone, next)
        ELSE nsJob' = next /\ UNCHANGED <<objVars, nsQueue>>
    BY <1>2, <1>6, <1>14 DEF PropagateCreatePhase, Has, clone
  <2>2. next = [nsJob EXCEPT !.phase = "update", !.present = nsJob.present]
        /\ nsJob.present \in BOOLEAN
    BY <1>6 DEF NsJobs
  <2>3. /\ nsJob' = next /\ nsQueue' = nsQueue /\ Wrote(c0)
        /\ p \in DOMAIN obj /\ obj[p].mode = PropagateCreate => c0 \in DOMAIN obj'
    BY <1>11, <1>12, <2>1 DEF Modes
  <2>4. /\ \A phases : "update" \in phases => Looking(c0, phases)'
        /\ NsJobCurrent'
    BY <1>13, <2>2, <2>3
  <2>5. Missing(p, c0) /\ Missing(p, c0)' /\ obj'[p].mode = obj[p].mode => MissingPending(p, c0)'
    BY <2>3, <2>4 DEF Missing, MissingPending, Modes
  <2>6. DifferentPending(p, c0)' /\ OrphanPending(p, c0)' /\ StrayPending(c0)'
    BY <2>4 DEF DifferentPending, OrphanPending, StrayPending
  <2> QED
    BY <1>10, <2>3, <2>4, <2>5, <2>6
<1>15. CASE PropagateUpdatePhase
  <2> DEFINE present == p \in DOMAIN obj /\ obj[p].mode = PropagateUpdate
             next == [nsJob EXCEPT !.phase = "sweep", !.present = present]
  <2>1. IF ~present THEN nsJob' = next /\ UNCHANGED <<objVars, nsQueue>>
        ELSE IF c0 \notin DOMAIN obj THEN CreateOrRetry(c0, clone, next)
        ELSE IF Derives(clone, obj[c0]) THEN nsJob' = next /\ UNCHANGED <<objVars, nsQueue>>
        ELSE Apply(c0, clone) /\ nsJob' = next /\ UNCHANGED nsQueue
    BY <1>2, <1>6, <1>15 DEF PropagateUpdatePhase, Has, MayApply, clone
  <2>2. /\ nsJob' = next /\ nsQueue' = nsQueue /\ Wrote(c0)
        /\ present => c0 \in DOMAIN obj'
        /\ present /\ c0 \in DOMAIN obj /\ ~Derives(clone, obj[c0]) =>
             c0 \in objEvents' /\ obj'[c0].from = p
    <3>1. CASE ~present \/ (c0 \in DOMAIN obj /\ Derives(clone, obj[c0]))
      BY <1>11, <2>1, <3>1
    <3>2. CASE present /\ c0 \notin DOMAIN obj
      BY <1>12, <2>1, <3>2 DEF Modes
    <3>3. CASE present /\ c0 \in DOMAIN obj /\ ~Derives(clone, obj[c0])
      BY <1>3, <1>5, <1>7, <1>9, <2>1, <3>3, ApplyWrites DEF Modes
    <3> QED
      BY <3>1, <3>2, <3>3
  <2>3. /\ \A phases : "sweep" \in phases => Looking(c0, phases)'
        /\ nsJob'.present = present /\ NsJobCurrent'
    BY <1>13, <2>2
  <2>4. ~Looking(c0, {"create"})
    BY <1>15 DEF PropagateUpdatePhase, InPhase, Looking
  <2>5. Missing(p, c0) /\ Missing(p, c0)' /\ obj[p].mode = PropagateUpdate => FALSE
    BY <2>2 DEF Missing
  <2>6. Different(p, c0) => DifferentPending(p, c0)'
    BY <2>2 DEF Different, DifferentPending, ObjPending, clone
  <2>7. Orphan(p, c0) => OrphanPending(p, c0)'
    BY <2>3 DEF Orphan, OrphanPending
  <2>8. StrayPending(c0)'
    BY <2>3 DEF StrayPending
  <2> QED
    BY <1>10, <2>2, <2>3, <2>4, <2>5, <2>6, <2>7, <2>8
<1>16. CASE SweepPhase
  <2> DEFINE stale == /\ c0 \in DOMAIN obj /\ obj[c0].mode = PropagateUpdate
                      /\ obj[c0].from # Absent
                      /\ ~(obj[c0].from = p /\ nsJob.present)
  <2>1. /\ nsJob.phase = "sweep" /\ nsJob' = NoJob
        /\ IF stale THEN WriteObj(Drop(obj, c0)) /\ UNCHANGED nsQueue
                    ELSE UNCHANGED <<objVars, nsQueue>>
    BY <1>2, <1>6, <1>16 DEF SweepPhase, InPhase, Has
  <2>2. Wrote(c0) /\ nsQueue' = nsQueue /\ (stale => c0 \notin DOMAIN obj')
    <3>1. CASE stale
      BY <1>3, <2>1, <3>1, DropWrites DEF Watched
    <3>2. CASE ~stale
      BY <1>11, <2>1, <3>2
    <3> QED
      BY <3>1, <3>2
  <2>3. ~Looking(c0, {"create"}) /\ ~Looking(c0, {"update"}) /\ ~Looking(c0, {"create", "update"})
    BY <2>1 DEF Looking
  <2>4. Orphan(p, c0) /\ ~nsJob.present => ~Orphan(p, c0)'
    BY <1>5, <1>6, <2>2 DEF Orphan
  <2>5. Stray(c0) => ~Stray(c0)'
    BY <1>7, <2>2 DEF Stray
  <2>6. NsJobCurrent'
    BY <2>1 DEF NsJobCurrent
  <2> QED
    BY <1>10, <2>2, <2>3, <2>4, <2>5, <2>6
<1> QED
  BY <1>14, <1>15, <1>16 DEF PropagateStep

(* What users do to the resource is on its way to the propagate controller.*)
LEMMA UserWritesInPlace ==
  ASSUME Careful, TypeOK, InPlaceInv, NEW x \in Names,
         \/ \E mode \in Modes \cup {Absent}, fields \in SUBSET Fields :
              CreateResource(x, mode, fields) \/ EditResource(x, mode, fields)
         \/ DeleteResource(x)
  PROVE  StepInPlace
<1>1. Act /\ UNCHANGED nsVars /\ given \subseteq given'
  BY DEF CreateResource, EditResource, DeleteResource
<1>2. /\ ns' = ns /\ NsSideKept /\ nsJob' = nsJob /\ objJob' = objJob /\ objQueue' = objQueue
  BY <1>1 DEF Act, nsVars, NsSideKept, NsPending
<1>3. ObjJobCurrent /\ NsJobCurrent /\ ModesGiven
  BY DEF InPlaceInv
<1>4. ASSUME NEW mode \in Modes \cup {Absent}, NEW fields \in SUBSET Fields,
             CreateResource(x, mode, fields)
      PROVE  Wrote(x)
  <2> DEFINE o == [from |-> Absent, mode |-> mode, fields |-> fields]
  <2>1. WriteObj(Put(obj, x, o)) /\ given' = given \cup ({mode} \ {Absent})
    BY <1>4 DEF CreateResource
  <2>2. o.mode \in given' \cup {Absent} /\ o.from = Absent
    BY <2>1
  <2> QED
    BY <1>1, <2>1, <2>2, PutWrites
<1>5. ASSUME NEW mode \in Modes \cup {Absent}, NEW fields \in SUBSET Fields,
             EditResource(x, mode, fields)
      PROVE  Wrote(x)
  <2> DEFINE o == [obj[x] EXCEPT !.mode = mode, !.fields = fields]
  <2>1. /\ x \in DOMAIN obj
        /\ obj[x].from = Absent \/ obj[x].mode = mode
        /\ o # obj[x] /\ WriteObj([obj EXCEPT ![x] = o])
        /\ given' = given \cup ({mode} \ {Absent})
    BY <1>5 DEF EditResource, Careful
  <2>2. obj[x] \in Resource
    BY <2>1, MapFacts DEF TypeOK
  <2>3. o.from = obj[x].from /\ o.mode = mode
    BY <2>2 DEF Resource
  <2> HIDE DEF o
  <2>4. /\ DOMAIN obj' = DOMAIN obj /\ obj'[x] = o
        /\ \A m \in DOMAIN obj \ {x} : obj'[m] = obj[m]
        /\ objEvents \subseteq objEvents'
    BY <2>1 DEF WriteObj
  <2>5. Watched(obj, x) \/ Watched(obj', x) => x \in objEvents'
    BY <2>1, <2>4 DEF WriteObj
  <2>6. mode \in given' \cup {Absent} /\ (o.from # Absent => mode # Absent)
    BY <1>3, <2>1, <2>3 DEF ModesGiven
  <2> QED
    BY <1>1, <2>1, <2>3, <2>4, <2>5, <2>6 DEF Wrote, Same, Watched
<1>6. ASSUME DeleteResource(x) PROVE Wrote(x)
  BY <1>1, <1>6, DropWrites DEF DeleteResource, Careful
<1>7. Wrote(x)
  BY <1>4, <1>5, <1>6
<1>8. ObjSideKept /\ objEvents' \subseteq ObjPending'
  BY <1>2, <1>7 DEF ObjSideKept, ObjPending, Wrote
<1> QED
  BY <1>2, <1>3, <1>7, <1>8, KeptIsCarried, ObjJobStaysCurrent, NsJobStaysCurrent
     DEF StepInPlace

(* Nothing is wrong when Accurate rests, so that at most the copies in the *)
(* namespace that is moved are wrong afterwards.                           *)
LEMMA RelabelInPlace ==
  ASSUME Careful, TypeOK, InPlaceInv, NEW x \in Names, NEW type \in {Absent, NSTypeRoot},
         NEW parent \in Names \cup {Absent}, Relabel(x, type, parent)
  PROVE  InPlaceInv'
<1>1. WellFormed(ns) /\ ModesGiven /\ MissingInv /\ DifferentInv /\ OrphanInv /\ StrayInv
  BY DEF InPlaceInv
<1>2. /\ objQueue = {} /\ objEvents = {} /\ nsQueue = {} /\ nsEvents = {}
      /\ objJob = NoJob /\ nsJob = NoJob
  BY DEF Relabel, Careful, Calm, AtRest, InSync
<1>3. \A n, c \in Names : ~Missing(n, c) /\ ~Different(n, c) /\ ~Orphan(n, c)
  BY <1>1, <1>2 DEF MissingInv, MissingPending, DifferentInv, DifferentPending, OrphanInv,
     OrphanPending, ObjPending, NsPending, HandingOn, Looking
<1>4. PropagateCreate \notin given => \A c \in Names : ~Stray(c)
  BY <1>1, <1>2 DEF StrayInv, StrayPending, NsPending, Looking
<1>5. /\ x \in DOMAIN ns /\ DOMAIN ns' = DOMAIN ns /\ \A c \in DOMAIN ns \ {x} : ns'[c] = ns[c]
      /\ ns'[x] # ns[x] /\ nsEvents' = nsEvents \cup {n \in DOMAIN ns : ns'[n] # ns[n]}
  <2> DEFINE new == [ns[x] EXCEPT !.type = type, !.parent = parent]
  <2>1. x \in DOMAIN ns /\ new # ns[x] /\ WriteNs([ns EXCEPT ![x] = new])
    BY DEF Relabel
  <2> HIDE DEF new
  <2> QED
    BY <2>1 DEF WriteNs
<1>6. /\ obj' = obj /\ given' = given /\ objJob' = NoJob /\ nsJob' = NoJob
  BY <1>2 DEF Relabel, Act, objVars
<1>7. x \in NsPending'
  BY <1>5 DEF NsPending
<1>8. \A n, c \in Names : c # x => (Below(n, c)' <=> Below(n, c))
  BY <1>5 DEF Below
<1>9. DOMAIN obj \subseteq DOMAIN ns
  BY DEF TypeOK
<1>10. WellFormed(ns)'
  BY <1>1, RelabelKeepsWellFormed DEF WellFormed
<1>11. ObjJobCurrent' /\ NsJobCurrent' /\ ModesGiven'
  BY <1>1, <1>6 DEF ObjJobCurrent, NsJobCurrent, ModesGiven
<1>12. MissingInv'
  BY <1>3, <1>6, <1>7, <1>8 DEF MissingInv, Missing, MissingPending
<1>13. DifferentInv'
  BY <1>3, <1>6, <1>7, <1>8 DEF DifferentInv, Different, DifferentPending
<1>14. OrphanInv'
  BY <1>3, <1>6, <1>7, <1>8 DEF OrphanInv, Orphan, OrphanPending
<1>15. StrayInv'
  BY <1>4, <1>5, <1>6, <1>7, <1>9 DEF StrayInv, Stray, StrayPending
<1> QED
  BY <1>10, <1>11, <1>12, <1>13, <1>14, <1>15 DEF InPlaceInv

(* A restart looks at every namespace there is.                            *)
LEMMA RestartInPlace ==
  ASSUME TypeOK, InPlaceInv, Restart
  PROVE  InPlaceInv'
<1>1. WellFormed(ns) /\ ModesGiven
  BY DEF InPlaceInv
<1>2. /\ ns' = ns /\ obj' = obj /\ given' = given /\ nsJob' = NoJob /\ objJob' = NoJob
      /\ NsPending' = DOMAIN ns
  BY DEF Restart, NsPending
<1>3. (\A n, c \in Names : Below(n, c) => c \in NsPending') /\ DOMAIN obj \subseteq NsPending'
  BY <1>2 DEF Below, TypeOK
<1>4. MissingInv'
  BY <1>2, <1>3 DEF MissingInv, Missing, MissingPending, Below
<1>5. DifferentInv'
  BY <1>2, <1>3 DEF DifferentInv, Different, DifferentPending, Below
<1>6. OrphanInv'
  BY <1>2, <1>3 DEF OrphanInv, Orphan, OrphanPending, Below
<1>7. StrayInv'
  BY <1>2, <1>3 DEF StrayInv, Stray, StrayPending
<1> QED
  BY <1>1, <1>2, <1>4, <1>5, <1>6, <1>7
     DEF InPlaceInv, WellFormed, ModesGiven, ObjJobCurrent, NsJobCurrent

LEMMA StepKeepsInPlace ==
  ASSUME Careful, TypeOK, InPlaceInv, [Next]_vars
  PROVE  InPlaceInv'
<1>1. ObjJobCurrent /\ NsJobCurrent /\ ModesGiven /\ WellFormed(ns)
  BY DEF InPlaceInv
<1>2. ASSUME UNCHANGED objVars, ns' = ns, given' = given, objQueue' = objQueue,
             nsJob' = nsJob, objJob' = objJob, NsPending' = NsPending
      PROVE  StepInPlace
  <2>1. \A m : Wrote(m)
    BY <1>1, <1>2, NothingWritten
  <2>2. ObjSideKept /\ NsSideKept /\ objEvents' \subseteq ObjPending'
    BY <1>2 DEF ObjSideKept, NsSideKept, ObjPending, objVars
  <2> QED
    BY <1>1, <1>2, <2>1, <2>2, KeptIsCarried, ObjJobStaysCurrent, NsJobStaysCurrent
       DEF StepInPlace
<1>3. CASE SyncNs
  BY <1>2, <1>3, StepInPlaceKeeps DEF SyncNs, done, NsPending
<1>4. CASE SyncObj
  <2>1. /\ ns' = ns /\ obj' = obj /\ given' = given /\ nsJob' = nsJob /\ objJob' = objJob
        /\ NsPending' = NsPending /\ ObjPending' = ObjPending
    BY <1>4 DEF SyncObj, nsVars, done, NsPending, ObjPending
  <2>2. /\ MissingInv' <=> MissingInv
        /\ DifferentInv' <=> DifferentInv
        /\ OrphanInv' <=> OrphanInv
        /\ StrayInv' <=> StrayInv
    <3>1. /\ \A n, c, kind : HandingOn(n, c, kind)' <=> HandingOn(n, c, kind)
          /\ \A c, phases : Looking(c, phases)' <=> Looking(c, phases)
          /\ \A n, c : Below(n, c)' <=> Below(n, c)
      BY <2>1 DEF HandingOn, Looking, Below
    <3> QED
      BY <2>1, <3>1 DEF MissingInv, Missing, MissingPending, DifferentInv, Different,
         DifferentPending, OrphanInv, Orphan, OrphanPending, StrayInv, Stray, StrayPending
  <2> QED
    BY <2>1, <2>2 DEF InPlaceInv, WellFormed, ObjJobCurrent, NsJobCurrent, ModesGiven, Below
<1>5. CASE Kubernetes
  <2>1. PICK n \in Names : IsTerminating(n)
    BY <1>5 DEF Kubernetes, EmptyNamespace, FinalizeNamespace
  <2> QED
    BY <1>1, <2>1 DEF IsTerminating, WellFormed
<1>6. CASE Users
  <2>1. ASSUME NEW n \in Names, DeleteNamespace(n) PROVE FALSE
    BY <2>1 DEF DeleteNamespace, Careful
  <2> QED
    BY <1>6, <2>1, UserWritesInPlace, RelabelInPlace, StepInPlaceKeeps DEF Users
<1>7. CASE UNCHANGED vars
  BY <1>2, <1>7, StepInPlaceKeeps DEF vars, nsVars, objVars, done, NsPending
<1> QED
  BY <1>3, <1>4, <1>5, <1>6, <1>7, ReconcileObjInPlace, CopyStepInPlace, ReconcileNsInPlace,
     PropagateStepInPlace, StepInPlaceKeeps, RestartInPlace DEF Next, Controllers

-----------------------------------------------------------------------------
(* At rest nothing is on its way, so that nothing is wrong.                *)
LEMMA AtRestInPlace ==
  ASSUME TypeOK, InPlaceInv
  PROVE  CopiesInPlace /\ NoStaleCopies
<1> SUFFICES ASSUME AtRest PROVE CopiesInPlace /\ NoStaleCopies
  BY DEF CopiesInPlace, NoStaleCopies
<1>1. /\ objQueue = {} /\ objEvents = {} /\ nsQueue = {} /\ nsEvents = {}
      /\ objJob = NoJob /\ nsJob = NoJob
  BY DEF AtRest, InSync
<1>2. \A n, c \in Names : ~Missing(n, c) /\ ~Different(n, c) /\ ~Orphan(n, c)
  BY <1>1 DEF InPlaceInv, MissingInv, MissingPending, DifferentInv, DifferentPending,
     OrphanInv, OrphanPending, ObjPending, NsPending, HandingOn, Looking
<1>3. PropagateCreate \notin given => \A c \in Names : ~Stray(c)
  BY <1>1 DEF InPlaceInv, StrayInv, StrayPending, NsPending, Looking
<1>4. /\ DOMAIN ns \subseteq Names /\ DOMAIN obj \subseteq DOMAIN ns
      /\ \A c \in DOMAIN obj : obj[c].from # Absent => obj[c].from \in Names
      /\ given \subseteq Modes
  BY MapFacts DEF TypeOK, Resource
<1>5. CopiesInPlace
  <2> SUFFICES ASSUME NEW n \in DOMAIN obj, NEW c \in LiveChildren(n), obj[n].mode \in Modes
               PROVE  /\ c \in DOMAIN obj
                      /\ obj[n].mode = PropagateUpdate /\ obj[c].from # Absent =>
                           Derives(Clone(obj[n], n), obj[c])
    BY DEF CopiesInPlace, Modes
  <2>1. n \in Names /\ c \in Names /\ Below(n, c)
    BY <1>4 DEF LiveChildren, Below
  <2> QED
    BY <1>2, <2>1 DEF Missing, Different
<1>6. NoStaleCopies
  <2> SUFFICES ASSUME NEW c \in DOMAIN obj, obj[c].mode = PropagateUpdate, obj[c].from # Absent
               PROVE  IF obj[c].from = GetParent(ns[c])
                      THEN obj[c].from \in DOMAIN obj ELSE given = Modes
    BY DEF NoStaleCopies
  <2>1. obj[c].from = GetParent(ns[c]) => obj[c].from \in DOMAIN obj
    BY <1>2, <1>4 DEF Orphan, Below
  <2>2. PropagateUpdate \in given
    BY AbsentAssumption DEF InPlaceInv, ModesGiven, Modes
  <2>3. obj[c].from # GetParent(ns[c]) => PropagateCreate \in given
    BY <1>3, <1>4 DEF Stray
  <2> QED
    BY <1>4, <2>1, <2>2, <2>3 DEF Modes
<1> QED
  BY <1>5, <1>6

(* Whatever is wrong with a copy while Accurate is busy, an event, a key   *)
(* in a queue or what is left of a reconciliation will put it right.       *)
THEOREM WrongIsPending ==
  ASSUME Careful, \A t \in Trees : WellFormed(t)
  PROVE  Spec => []InPlaceInv
<1>1. Init => InPlaceInv
  <2> SUFFICES ASSUME Init PROVE InPlaceInv
    OBVIOUS
  <2>1. WellFormed(ns) /\ DOMAIN obj = {} /\ nsJob = NoJob /\ objJob = NoJob
    BY DEF Init
  <2> QED
    BY <2>1 DEF InPlaceInv, ObjJobCurrent, NsJobCurrent, ModesGiven, MissingInv, Missing,
       DifferentInv, Different, OrphanInv, Orphan, StrayInv, Stray
<1>2. TypeOK /\ InPlaceInv /\ [Next]_vars => InPlaceInv'
  BY StepKeepsInPlace
<1> QED
  BY <1>1, <1>2, TypeCorrect, PTL DEF Spec

(* When Accurate rests, every child namespace has the copy it should have, *)
(* in however wide or deep a tree and after however many changes of the    *)
(* resource and of the tree, and restarts.                                 *)
THEOREM CopiesInPlaceWhenCareful ==
  ASSUME Careful, \A t \in Trees : WellFormed(t)
  PROVE  Spec => []CopiesInPlace
<1>1. TypeOK /\ InPlaceInv => CopiesInPlace
  BY AtRestInPlace
<1> QED
  BY <1>1, TypeCorrect, WrongIsPending, PTL

(* ...and no copy outlives its original, nor, while users keep to one      *)
(* mode, the place of its namespace in the tree.                           *)
THEOREM NoStaleCopiesWhenCareful ==
  ASSUME Careful, \A t \in Trees : WellFormed(t)
  PROVE  Spec => []NoStaleCopies
<1>1. TypeOK /\ InPlaceInv => NoStaleCopies
  BY AtRestInPlace
<1> QED
  BY <1>1, TypeCorrect, WrongIsPending, PTL
=============================================================================
