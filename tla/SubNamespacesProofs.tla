------------------------- MODULE SubNamespacesProofs -------------------------
(***************************************************************************)
(* What the reconcilers of SubNamespaces and Namespaces keep however many  *)
(* namespaces and users there are.  Whatever their caches show: that no    *)
(* namespace ends up below a parent where nobody ever asked for it.  When  *)
(* the cache of SubNamespaces is up to date: that a finalization is, from  *)
(* its first look to its last write, that of an object being deleted.      *)
(***************************************************************************)
EXTENDS SubNamespaces, PartialMapsProofs

(* A step of anybody but users and restarts, one disjunct per action.      *)
SystemStep ==
  \/ SyncNs
  \/ SyncSn
  \/ \E k \in Keys : Reconcile(k)
  \/ Finalize
  \/ FinalizeDelete
  \/ RemoveFinalizer
  \/ ReconcileNS
  \/ ReconcileCreate
  \/ ApplyStatus
  \/ \E n \in Names : ReconcileNamespace(n)
  \/ ListChildren
  \/ \E c \in Subs : PropagateMeta(c)
  \/ \E k \in Keys : EmptyNamespace(k)
  \/ \E n \in Subs : FinalizeNamespace(n)

LEMMA StepOfSystemOrUser == ASSUME Next PROVE SystemStep \/ Users \/ Restart
  BY DEF Next, SystemStep, Informers, Kubernetes

-----------------------------------------------------------------------------

(* Type correctness.                                                       *)

NsTypes ==
  ns \in PartialMap(Names, Namespace) /\ nsEvents \in [keys: SUBSET Keys, gone: SUBSET Names]

SnTypes ==
  /\ sn \in PartialMap(Keys, SubNamespace)
  /\ snEvents \subseteq Keys
  /\ \A k \in DOMAIN sn : sn[k].deleting => sn[k].finalizer

LEMMA WriteNsTypes ==
  ASSUME NsTypes, NEW new \in PartialMap(Names, Namespace), WriteNs(new)
  PROVE  NsTypes'
<1>1. DOMAIN ns \subseteq Names /\ DOMAIN new \subseteq Names
  BY PartialMapFacts DEF NsTypes
<1>2. nsEvents' \in [keys: SUBSET Keys, gone: SUBSET Names]
  BY <1>1 DEF NsTypes, WriteNs
<1> QED
  BY <1>2 DEF NsTypes, WriteNs

LEMMA WriteSnTypes ==
  ASSUME SnTypes, NEW new \in PartialMap(Keys, SubNamespace), WriteSn(new),
         \A k \in DOMAIN new : new[k].deleting => new[k].finalizer
  PROVE  SnTypes'
<1>1. DOMAIN sn \subseteq Keys /\ DOMAIN new \subseteq Keys
  BY PartialMapFacts DEF SnTypes
<1> QED
  BY <1>1 DEF SnTypes, WriteSn

LEMMA TerminateTypes == ASSUME NsTypes, NEW n \in DOMAIN ns, Terminate(n) PROVE NsTypes'
<1>1. ns \in [DOMAIN ns -> Namespace]
  BY PartialMapFacts DEF NsTypes
<1>2. [ns[n] EXCEPT !.terminating = TRUE] \in Namespace
  BY <1>1 DEF Namespace
<1>3. [ns EXCEPT ![n] = [ns[n] EXCEPT !.terminating = TRUE]] \in PartialMap(Names, Namespace)
  BY <1>2, ExceptTypes DEF NsTypes
<1> QED
  BY <1>3, WriteNsTypes DEF Terminate

LEMMA MarkDeletedTypes == ASSUME SnTypes, NEW k \in DOMAIN sn, MarkDeleted(k) PROVE SnTypes'
<1>1. DOMAIN sn \subseteq Keys /\ sn \in [DOMAIN sn -> SubNamespace]
  BY PartialMapFacts DEF SnTypes
<1>2. CASE sn[k].finalizer
  <2> DEFINE new == [sn EXCEPT ![k] = [sn[k] EXCEPT !.deleting = TRUE]]
  <2>1. [sn[k] EXCEPT !.deleting = TRUE] \in SubNamespace
    BY <1>1 DEF SubNamespace
  <2>2. new \in PartialMap(Keys, SubNamespace)
    BY <2>1, ExceptTypes DEF SnTypes
  <2>3. \A j \in DOMAIN new : new[j].deleting => new[j].finalizer
    BY <1>1, <1>2 DEF SnTypes, SubNamespace
  <2>4. WriteSn(new)
    BY <1>2 DEF MarkDeleted
  <2> QED
    BY <2>2, <2>3, <2>4, WriteSnTypes
<1>3. CASE ~sn[k].finalizer
  <2>1. Drop(sn, k) \in PartialMap(Keys, SubNamespace)
    BY <1>1, PutDropTypes, PartialMapFacts DEF SnTypes, Drop
  <2>2. \A j \in DOMAIN Drop(sn, k) : Drop(sn, k)[j].deleting => Drop(sn, k)[j].finalizer
    BY DEF SnTypes, Drop
  <2> QED
    BY <1>3, <2>1, <2>2, WriteSnTypes DEF MarkDeleted
<1> QED
  BY <1>2, <1>3

LEMMA PatchFinalizerTypes ==
  ASSUME SnTypes, NEW k \in Keys, PatchFinalizer(k)
  PROVE  SnTypes' /\ UNCHANGED ns
<1>1. DOMAIN sn \subseteq Keys /\ sn \in [DOMAIN sn -> SubNamespace]
  BY PartialMapFacts DEF SnTypes
<1>2. CASE k \notin DOMAIN sn
  BY <1>2 DEF PatchFinalizer, SnTypes
<1>3. CASE k \in DOMAIN sn /\ sn[k].deleting
  <2>1. Drop(sn, k) \in PartialMap(Keys, SubNamespace)
    BY <1>1, PutDropTypes, PartialMapFacts DEF SnTypes, Drop
  <2>2. \A j \in DOMAIN Drop(sn, k) : Drop(sn, k)[j].deleting => Drop(sn, k)[j].finalizer
    BY DEF SnTypes, Drop
  <2>3. WriteSn(Drop(sn, k))
    BY <1>3 DEF PatchFinalizer
  <2> QED
    BY <2>1, <2>2, <2>3, WriteSnTypes DEF WriteSn
<1>4. CASE k \in DOMAIN sn /\ ~sn[k].deleting
  <2> DEFINE new == [sn EXCEPT ![k] = [sn[k] EXCEPT !.finalizer = FALSE]]
  <2>1. [sn[k] EXCEPT !.finalizer = FALSE] \in SubNamespace
    BY <1>1, <1>4 DEF SubNamespace
  <2>2. new \in PartialMap(Keys, SubNamespace)
    BY <1>4, <2>1, ExceptTypes DEF SnTypes
  <2>3. \A j \in DOMAIN new : new[j].deleting => new[j].finalizer
    BY <1>1, <1>4 DEF SnTypes, SubNamespace
  <2>4. WriteSn(new)
    BY <1>4 DEF PatchFinalizer
  <2> QED
    BY <2>2, <2>3, <2>4, WriteSnTypes DEF WriteSn
<1> QED
  BY <1>2, <1>3, <1>4

(* A write of a status.                                                    *)
LEMMA StatusTypes ==
  ASSUME SnTypes, NEW k \in DOMAIN sn, NEW status \in Statuses,
         WriteSn([sn EXCEPT ![k].status = status])
  PROVE  SnTypes'
<1> DEFINE new == [sn EXCEPT ![k] = [sn[k] EXCEPT !.status = status]]
<1>1. DOMAIN sn \subseteq Keys /\ sn \in [DOMAIN sn -> SubNamespace]
  BY PartialMapFacts DEF SnTypes
<1>2. [sn[k] EXCEPT !.status = status] \in SubNamespace
  BY <1>1 DEF SubNamespace
<1>3. new \in PartialMap(Keys, SubNamespace)
  BY <1>2, ExceptTypes DEF SnTypes
<1>4. \A j \in DOMAIN new : new[j].deleting => new[j].finalizer
  BY <1>1 DEF SnTypes, SubNamespace
<1> QED
  BY <1>3, <1>4, WriteSnTypes

(* What the informers and the workers hold, and what users have asked for. *)
WorkTypes ==
  /\ nsCache \in PartialMap(Names, Namespace)
  /\ snCache \in PartialMap(Keys, SubNamespace)
  /\ queue \subseteq Keys
  /\ job \in Jobs \cup {NoJob}
  /\ nsJob \in NsJobs \cup {NoJob}
  /\ ops \in 0..MaxOps
  /\ asked \subseteq Names \X Names

LEMMA LiveTypes ==
  ASSUME NEW type \in {Absent, NSTypeRoot}, NEW parent \in Names \cup {Absent}
  PROVE  Live(type, parent) \in Namespace
  BY DEF Live, Namespace

(* A namespace that was not there is created.                              *)
LEMMA CreatedTypes ==
  ASSUME NsTypes, NEW n \in Names, NEW parent \in Names \cup {Absent},
         WriteNs(Put(ns, n, Live(Absent, parent)))
  PROVE  NsTypes'
<1>1. Put(ns, n, Live(Absent, parent)) \in PartialMap(Names, Namespace)
  BY LiveTypes, PutDropTypes DEF NsTypes
<1> QED
  BY <1>1, WriteNsTypes

LEMMA KeyFacts == \A k \in Keys : k[1] \in Names /\ k[2] \in Names
  BY DEF Keys, Subs

(* The labels of a namespace that is there are written.                    *)
LEMMA RelabelledTypes ==
  ASSUME NsTypes, NEW n \in DOMAIN ns, NEW new \in Namespace, WriteNs([ns EXCEPT ![n] = new])
  PROVE  NsTypes'
BY ExceptTypes, WriteNsTypes DEF NsTypes

LEMMA DroppedTypes == ASSUME NsTypes, NEW n \in DOMAIN ns, WriteNs(Drop(ns, n)) PROVE NsTypes'
<1>1. DOMAIN ns \subseteq Names
  BY PartialMapFacts DEF NsTypes
<1>2. Drop(ns, n) \in PartialMap(Names, Namespace)
  BY <1>1, PartialMapFacts, PutDropTypes DEF NsTypes, Drop
<1> QED
  BY <1>2, WriteNsTypes

(* The worker goes on with its reconciliation, or ends it.                 *)
LEMMA JobTypes ==
  ASSUME WorkTypes, NEW step \in Steps, At(step)
  PROVE  /\ job.key \in Keys
         /\ \A next \in Steps : Continue(next) => WorkTypes'
         /\ Done \/ Retry => WorkTypes'
<1>1. job \in Jobs
  BY DEF At, WorkTypes
<1> QED
  BY <1>1 DEF At, Continue, Done, Retry, caches, history, Jobs, WorkTypes

(* No action of the reconciler of SubNamespaces disturbs the types...      *)
LEMMA SubNamespaceReconcilerTypes ==
  ASSUME NsTypes, SnTypes, WorkTypes,
         \/ \E k \in Keys : Reconcile(k)
         \/ Finalize \/ FinalizeDelete \/ RemoveFinalizer
         \/ ReconcileNS \/ ReconcileCreate \/ ApplyStatus
  PROVE  NsTypes' /\ SnTypes' /\ WorkTypes'
<1> USE KeyFacts DEF Steps, Statuses
<1>1. CASE \E k \in Keys : Reconcile(k)
  BY <1>1 DEF Reconcile, api, caches, history, Jobs, NsTypes, SnTypes, WorkTypes
<1>2. CASE Finalize
  BY <1>2, JobTypes DEF Finalize, api, NsTypes, SnTypes
<1>3. CASE FinalizeDelete
  <2>1. WorkTypes'
    BY <1>3, JobTypes DEF FinalizeDelete
  <2>2. UNCHANGED <<sn, snEvents>>
    BY <1>3 DEF FinalizeDelete, Terminate, WriteNs, api
  <2>3. NsTypes'
    BY <1>3, TerminateTypes DEF FinalizeDelete, api, NsTypes
  <2> QED
    BY <2>1, <2>2, <2>3 DEF SnTypes
<1>4. CASE RemoveFinalizer
  BY <1>4, JobTypes, PatchFinalizerTypes DEF RemoveFinalizer, NsTypes
<1>5. CASE ReconcileNS
  BY <1>5, JobTypes DEF ReconcileNS, api, NsTypes, SnTypes
<1>6. CASE ReconcileCreate
  <2>1. WorkTypes' /\ job.key \in Keys
    BY <1>6, JobTypes DEF ReconcileCreate
  <2>2. UNCHANGED <<sn, snEvents>>
    BY <1>6 DEF ReconcileCreate, WriteNs, api
  <2>3. NsTypes'
    BY <1>6, <2>1, CreatedTypes DEF ReconcileCreate, api, NsTypes
  <2> QED
    BY <2>1, <2>2, <2>3 DEF SnTypes
<1>7. CASE ApplyStatus
  <2>1. WorkTypes' /\ job.then \in Statuses
    BY <1>7, JobTypes DEF ApplyStatus, At
  <2>2. SnTypes'
    BY <1>7, <2>1, StatusTypes DEF ApplyStatus, api, SnTypes
  <2> QED
    BY <1>7, <2>1, <2>2 DEF ApplyStatus, WriteSn, api, NsTypes
<1> QED
  BY <1>1, <1>2, <1>3, <1>4, <1>5, <1>6, <1>7

(* ... none of the reconciler of Namespaces...                             *)
LEMMA NamespaceReconcilerTypes ==
  ASSUME NsTypes, SnTypes, WorkTypes,
         (\E n \in Names : ReconcileNamespace(n)) \/ ListChildren \/ \E c \in Subs : PropagateMeta(c)
  PROVE  NsTypes' /\ SnTypes' /\ WorkTypes'
<1>1. DOMAIN nsCache \subseteq Names
  BY PartialMapFacts DEF WorkTypes
<1>2. ASSUME NEW n \in Names, ReconcileNamespace(n) PROVE NsTypes' /\ SnTypes' /\ WorkTypes'
  <2>1. nsJob' \in NsJobs
    <3>1. CASE nsJob' = [of |-> n, parent |-> n, todo |-> {}]
      BY <3>1 DEF NsJobs
    <3>2. ASSUME NEW p \in DOMAIN nsCache, nsJob' = [of |-> n, parent |-> p, todo |-> {n}]
          PROVE  nsJob' \in NsJobs
      BY <1>1, <3>2 DEF NsJobs
    <3> QED
      BY <1>2, <3>1, <3>2 DEF ReconcileNamespace
  <2> QED
    BY <1>2, <2>1 DEF ReconcileNamespace, api, caches, history, NsTypes, SnTypes, WorkTypes
<1>3. CASE ListChildren
  <2>1. nsJob \in NsJobs
    BY <1>3 DEF ListChildren, WorkTypes
  <2> QED
    BY <1>1, <1>3, <2>1
    DEF ListChildren, ChildrenOf, api, caches, history, NsJobs, NsTypes, SnTypes, WorkTypes
<1>4. ASSUME NEW c \in Subs, PropagateMeta(c) PROVE NsTypes' /\ SnTypes' /\ WorkTypes'
  <2> DEFINE p == nsJob.parent
  <2>1. nsJob \in NsJobs
    BY <1>4 DEF PropagateMeta, WorkTypes
  <2>2. nsJob' \in NsJobs \cup {NoJob}
    BY <1>4, <2>1 DEF PropagateMeta, NsJobs
  <2>3. SnTypes' /\ WorkTypes'
    BY <1>4, <2>2 DEF PropagateMeta, WriteNs, api, caches, history, SnTypes, WorkTypes
  <2>4. CASE UNCHANGED <<ns, nsEvents>>
    BY <2>3, <2>4 DEF NsTypes
  <2>5. CASE c \in DOMAIN ns /\ WriteNs(Put(ns, c, [ns[c] EXCEPT !.parent = p]))
    <3>1. ns \in [DOMAIN ns -> Namespace]
      BY PartialMapFacts DEF NsTypes
    <3>2. [ns[c] EXCEPT !.parent = p] \in Namespace
      BY <2>1, <2>5, <3>1 DEF Namespace, NsJobs
    <3>3. Put(ns, c, [ns[c] EXCEPT !.parent = p]) \in PartialMap(Names, Namespace)
      BY <3>2, PutDropTypes DEF NsTypes, Subs
    <3> QED
      BY <2>3, <2>5, <3>3, WriteNsTypes
  <2>6. CASE WriteNs(Put(ns, c, Live(Absent, p)))
    BY <2>1, <2>3, <2>6, CreatedTypes DEF NsJobs, Subs
  <2> QED
    BY <1>4, <2>4, <2>5, <2>6 DEF PropagateMeta, api
<1> QED
  BY <1>2, <1>3, <1>4

(* ... and none of anybody else.                                           *)
LEMMA StepKeepsTypes == TypeOK /\ [Next]_vars => TypeOK'
<1> SUFFICES ASSUME NsTypes, SnTypes, WorkTypes, [Next]_vars
             PROVE  NsTypes' /\ SnTypes' /\ WorkTypes'
  BY IsPartialMapFacts, Zenon DEF TypeOK, NsTypes, SnTypes, WorkTypes
<1> USE KeyFacts
<1>1. CASE UNCHANGED vars
  BY <1>1 DEF vars, NsTypes, SnTypes, WorkTypes
<1>2. CASE SyncNs
  <2>1. DOMAIN snCache \subseteq Keys
    BY PartialMapFacts DEF WorkTypes
  <2> QED
    BY <1>2, <2>1 DEF SyncNs, NoNsEvents, api, history, NsTypes, SnTypes, WorkTypes
<1>3. CASE SyncSn
  BY <1>3 DEF SyncSn, api, history, NsTypes, SnTypes, WorkTypes
<1>4. ASSUME UNCHANGED <<caches, queue, job, nsJob>>,
             UNCHANGED history \/ (Act /\ asked' \subseteq Names \X Names)
      PROVE  WorkTypes'
  BY <1>4, MaxOpsAssumption DEF Act, caches, history, WorkTypes
<1>5. ASSUME NEW k \in Keys, EmptyNamespace(k) PROVE NsTypes' /\ SnTypes' /\ WorkTypes'
  BY <1>4, <1>5, MarkDeletedTypes DEF EmptyNamespace, MarkDeleted, WriteSn, NsTypes
<1>6. ASSUME NEW n \in Subs, FinalizeNamespace(n) PROVE NsTypes' /\ SnTypes' /\ WorkTypes'
  BY <1>4, <1>6, DroppedTypes DEF FinalizeNamespace, WriteNs, SnTypes
<1>7. ASSUME NEW k \in Keys, CreateSubNamespace(k) PROVE NsTypes' /\ SnTypes' /\ WorkTypes'
  <2> DEFINE new == Put(sn, k, NewSubNamespace)
  <2>1. NewSubNamespace \in SubNamespace
    BY DEF NewSubNamespace, SubNamespace, Statuses
  <2>2. new \in PartialMap(Keys, SubNamespace)
    BY <2>1, PutDropTypes DEF SnTypes
  <2>3. \A j \in DOMAIN new : new[j].deleting => new[j].finalizer
    BY DEF SnTypes, Put, NewSubNamespace
  <2>4. WriteSn(new)
    BY <1>7 DEF CreateSubNamespace
  <2>5. SnTypes'
    BY <2>2, <2>3, <2>4, WriteSnTypes
  <2>6. WorkTypes'
    BY <1>4, <1>7 DEF CreateSubNamespace, Act, WorkTypes, Keys, Subs
  <2> QED
    BY <1>7, <2>4, <2>5, <2>6 DEF CreateSubNamespace, WriteSn, NsTypes
<1>8. ASSUME NEW k \in Keys, DeleteSubNamespace(k) PROVE NsTypes' /\ SnTypes' /\ WorkTypes'
  <2>1. WorkTypes'
    BY <1>4, <1>8 DEF DeleteSubNamespace, Act, WorkTypes
  <2> QED
    BY <1>8, <2>1, MarkDeletedTypes DEF DeleteSubNamespace, MarkDeleted, WriteSn, NsTypes
<1>9. ASSUME NEW n \in Subs, CreateForeignNamespace(n)
      PROVE  NsTypes' /\ SnTypes' /\ WorkTypes'
  <2>1. WorkTypes'
    BY <1>4, <1>9 DEF CreateForeignNamespace, Act, WorkTypes
  <2> QED
    BY <1>9, <2>1, CreatedTypes DEF CreateForeignNamespace, WriteNs, Subs, SnTypes
<1>10. ASSUME NEW n \in Subs, DeleteNamespace(n) PROVE NsTypes' /\ SnTypes' /\ WorkTypes'
  <2>1. WorkTypes'
    BY <1>4, <1>10 DEF DeleteNamespace, Act, WorkTypes
  <2> QED
    BY <1>10, <2>1, TerminateTypes DEF DeleteNamespace, Terminate, WriteNs, SnTypes
<1>11. ASSUME NEW n \in Subs, NEW parent \in Names \cup {Absent},
              NEW type \in {Absent, NSTypeRoot}, Relabel(n, type, parent)
       PROVE  NsTypes' /\ SnTypes' /\ WorkTypes'
  <2> DEFINE new == [ns[n] EXCEPT !.type = type, !.parent = parent]
  <2>1. n \in DOMAIN ns /\ WriteNs([ns EXCEPT ![n] = new])
    BY <1>11 DEF Relabel
  <2>2. ns \in [DOMAIN ns -> Namespace]
    BY PartialMapFacts DEF NsTypes
  <2>3. new \in Namespace
    BY <2>1, <2>2 DEF Namespace
  <2>4. NsTypes'
    BY <2>1, <2>3, RelabelledTypes
  <2>5. WorkTypes'
    BY <1>4, <1>11 DEF Relabel, Act, WorkTypes, Subs
  <2> QED
    BY <1>11, <2>1, <2>4, <2>5 DEF Relabel, WriteNs, SnTypes
<1>12. CASE Restart
  <2>1. DOMAIN sn \subseteq Keys
    BY PartialMapFacts DEF SnTypes
  <2> QED
    BY <1>12, <2>1, MaxOpsAssumption
    DEF Restart, NoNsEvents, api, NsTypes, SnTypes, WorkTypes
<1>13. CASE SystemStep
  BY <1>2, <1>3, <1>5, <1>6, <1>13, SubNamespaceReconcilerTypes, NamespaceReconcilerTypes
  DEF SystemStep
<1>14. CASE Users
  BY <1>7, <1>8, <1>9, <1>10, <1>11, <1>14 DEF Users
<1> QED
  BY <1>1, <1>12, <1>13, <1>14, StepOfSystemOrUser

LEMMA InitTypes == Init => TypeOK
<1> SUFFICES ASSUME Init PROVE TypeOK
  OBVIOUS
<1>1. ns \in [Roots -> Namespace] /\ sn \in [{} -> SubNamespace]
  BY LiveTypes DEF Init
<1> QED
  BY <1>1, RootsAssumption, MaxOpsAssumption DEF Init, TypeOK, IsPartialMap, NoNsEvents

(* Whatever the caches show, the objects, the events and the work queue    *)
(* are well formed, and an object marked as deleted still has the          *)
(* finalizer that holds it.                                                *)
THEOREM TypeCorrect == Spec => []TypeOK
  BY InitTypes, StepKeepsTypes, PTL DEF Spec

-----------------------------------------------------------------------------

(* Everything a write to a parent label can come from, a cache, a job, a   *)
(* list or an object, has been asked for.                                  *)
AskedInvariant ==
  /\ OnlyWhereAsked
  /\ \A n \in DOMAIN nsCache : Parent(nsCache[n]) # "" => <<Parent(nsCache[n]), n>> \in asked
  /\ DOMAIN sn \subseteq asked
  /\ DOMAIN snCache \subseteq asked
  /\ job # NoJob => job.key \in asked
  /\ nsJob # NoJob => /\ \A c \in nsJob.todo : <<nsJob.parent, c>> \in asked
                      /\ nsJob.todo = {} => nsJob.parent = nsJob.of

LEMMA InitAsked == Init => AskedInvariant
<1> SUFFICES ASSUME Init PROVE AskedInvariant
  OBVIOUS
<1>1. \A n \in DOMAIN ns : Parent(ns[n]) = ""
  BY DEF Init, Live, Parent, Value
<1> QED
  BY <1>1 DEF Init, AskedInvariant, OnlyWhereAsked

(* A namespace that gets another parent has been asked for there.          *)
LEMMA AskedByWrite ==
  ASSUME AskedInvariant, asked \subseteq asked',
         \A n \in DOMAIN ns' :
           \/ n \in DOMAIN ns /\ Parent(ns'[n]) = Parent(ns[n])
           \/ Parent(ns'[n]) = ""
           \/ <<Parent(ns'[n]), n>> \in asked'
  PROVE  OnlyWhereAsked'
  BY DEF AskedInvariant, OnlyWhereAsked

(* Objects do not come from nowhere.                                       *)
LEMMA NoNewObjects ==
  /\ \A k \in DOMAIN sn : MarkDeleted(k) => DOMAIN sn' \subseteq DOMAIN sn /\ UNCHANGED ns
  /\ \A k : PatchFinalizer(k) => DOMAIN sn' \subseteq DOMAIN sn /\ UNCHANGED ns
  /\ \A k, status : WriteSn([sn EXCEPT ![k].status = status]) =>
       DOMAIN sn' \subseteq DOMAIN sn /\ UNCHANGED ns
  BY DEF MarkDeleted, PatchFinalizer, WriteSn, Drop

(* No namespace changes its parent by being deleted or by going.           *)
LEMMA GoingMovesNobody ==
  ASSUME TypeOK, NEW n, (n \in DOMAIN ns /\ Terminate(n)) \/ WriteNs(Drop(ns, n))
  PROVE  \A m \in DOMAIN ns' : m \in DOMAIN ns /\ Parent(ns'[m]) = Parent(ns[m])
<1>1. ns \in [DOMAIN ns -> Namespace]
  BY DEF TypeOK, IsPartialMap
<1> QED
  BY <1>1 DEF Terminate, WriteNs, Drop, Namespace, Parent

LEMMA SubNamespaceReconcilerAsked ==
  ASSUME TypeOK, AskedInvariant,
         \/ \E k \in Keys : Reconcile(k)
         \/ Finalize \/ FinalizeDelete \/ RemoveFinalizer
         \/ ReconcileNS \/ ReconcileCreate \/ ApplyStatus
  PROVE  AskedInvariant'
<1>1. ASSUME NEW k \in Keys, Reconcile(k) PROVE AskedInvariant'
  <2>1. job' # NoJob => k \in DOMAIN snCache /\ job'.key = k
    BY <1>1 DEF Reconcile
  <2> QED
    BY <1>1, <2>1 DEF Reconcile, api, caches, history, AskedInvariant, OnlyWhereAsked
<1>2. ASSUME NEW step, At(step), OnlyWhereAsked', DOMAIN sn' \subseteq DOMAIN sn,
             Done \/ Retry \/ \E next \in Steps : Continue(next)
      PROVE  AskedInvariant'
  <2>1. job \in Jobs
    BY <1>2 DEF At, TypeOK
  <2>2. job' # NoJob => job'.key = job.key
    BY <1>2, <2>1 DEF Done, Retry, Continue, Jobs
  <2> QED
    BY <1>2, <2>2 DEF At, caches, history, AskedInvariant
<1>3. CASE Finalize \/ ReconcileNS
  <2>1. OnlyWhereAsked'
    BY <1>3, AskedByWrite DEF Finalize, ReconcileNS, At, history, api
  <2> QED
    BY <1>2, <1>3, <2>1 DEF Finalize, ReconcileNS, Steps, Statuses, api
<1>4. CASE FinalizeDelete
  <2>1. sn' = sn
    BY <1>4 DEF FinalizeDelete, Terminate, WriteNs, api
  <2>2. OnlyWhereAsked'
    BY <1>4, AskedByWrite, GoingMovesNobody DEF FinalizeDelete, At, history, api
  <2> QED
    BY <1>2, <1>4, <2>1, <2>2 DEF FinalizeDelete, Steps
<1>5. CASE RemoveFinalizer
  <2>1. DOMAIN sn' \subseteq DOMAIN sn /\ UNCHANGED ns
    BY <1>5, NoNewObjects DEF RemoveFinalizer
  <2>2. OnlyWhereAsked'
    BY <1>5, <2>1, AskedByWrite DEF RemoveFinalizer, At, history
  <2> QED
    BY <1>2, <1>5, <2>1, <2>2 DEF RemoveFinalizer
<1>6. CASE ReconcileCreate
  <2> DEFINE n == job.key[2]
  <2>1. job.key \in asked /\ job.key = <<job.key[1], n>> /\ job.key[1] \in Names
    <3>1. job.key \in asked /\ job.key \in Keys
      BY <1>6 DEF ReconcileCreate, At, AskedInvariant, TypeOK, Jobs
    <3> QED
      BY <3>1 DEF Keys
  <2>2. sn' = sn
    BY <1>6 DEF ReconcileCreate, WriteNs, api
  <2>3. \A m \in DOMAIN ns' :
          (m \in DOMAIN ns /\ ns'[m] = ns[m]) \/ <<Parent(ns'[m]), m>> \in asked
    <3>1. CASE WriteNs(Put(ns, n, Live(Absent, job.key[1])))
      BY <2>1, <3>1, NamesAssumption DEF WriteNs, Put, Live, Parent, Value
    <3> QED
      BY <1>6, <3>1 DEF ReconcileCreate, api
  <2>4. OnlyWhereAsked'
    BY <1>6, <2>3, AskedByWrite DEF ReconcileCreate, At, history
  <2> QED
    BY <1>2, <1>6, <2>2, <2>4 DEF ReconcileCreate, Steps, Statuses
<1>7. CASE ApplyStatus
  <2>1. DOMAIN sn' \subseteq DOMAIN sn /\ UNCHANGED ns
    BY <1>7, NoNewObjects DEF ApplyStatus, api
  <2>2. OnlyWhereAsked'
    BY <1>7, <2>1, AskedByWrite DEF ApplyStatus, At, history
  <2> QED
    BY <1>2, <1>7, <2>1, <2>2 DEF ApplyStatus
<1> QED
  BY <1>1, <1>3, <1>4, <1>5, <1>6, <1>7

(* A loop applies the label of the namespace it is about to those that     *)
(* were once seen below it.                                                *)
LEMMA NamespaceReconcilerAsked ==
  ASSUME TypeOK, AskedInvariant,
         (\E n \in Names : ReconcileNamespace(n)) \/ ListChildren \/ \E c \in Subs : PropagateMeta(c)
  PROVE  AskedInvariant'
<1>1. ASSUME NEW n \in Names, ReconcileNamespace(n) PROVE AskedInvariant'
  <2>1. ~("" \in DOMAIN nsCache)
    BY NamesAssumption DEF TypeOK, IsPartialMap
  <2>2. nsJob' # NoJob => /\ \A c \in nsJob'.todo : <<nsJob'.parent, c>> \in asked
                          /\ nsJob'.todo = {} => nsJob'.parent = nsJob'.of
    <3>1. CASE nsJob' = [of |-> n, parent |-> n, todo |-> {}]
      BY <3>1
    <3>2. CASE /\ Parent(nsCache[n]) # "" /\ n \in DOMAIN nsCache
               /\ nsJob' = [of |-> n, parent |-> Parent(nsCache[n]), todo |-> {n}]
      BY <3>2 DEF AskedInvariant
    <3> QED
      BY <1>1, <2>1, <3>1, <3>2 DEF ReconcileNamespace
  <2> QED
    BY <1>1, <2>2 DEF ReconcileNamespace, api, caches, history, AskedInvariant, OnlyWhereAsked
<1>2. CASE ListChildren
  <2>1. nsJob \in NsJobs /\ nsJob.parent = nsJob.of /\ nsJob.of # ""
    BY <1>2, NamesAssumption DEF ListChildren, TypeOK, AskedInvariant, NsJobs
  <2>2. \A c \in ChildrenOf(nsCache, nsJob.of) : <<nsJob.parent, c>> \in asked
    BY <2>1 DEF ChildrenOf, AskedInvariant
  <2>3. nsJob' # NoJob => /\ \A c \in nsJob'.todo : <<nsJob'.parent, c>> \in asked
                          /\ nsJob'.todo = {} => nsJob'.parent = nsJob'.of
    BY <1>2, <2>1, <2>2 DEF ListChildren, NsJobs
  <2> QED
    BY <1>2, <2>3 DEF ListChildren, api, caches, history, AskedInvariant, OnlyWhereAsked
<1>3. ASSUME NEW c \in Subs, PropagateMeta(c) PROVE AskedInvariant'
  <2> DEFINE p == nsJob.parent
  <2>1. nsJob \in NsJobs /\ <<p, c>> \in asked /\ ns \in [DOMAIN ns -> Namespace]
    BY <1>3 DEF PropagateMeta, TypeOK, IsPartialMap, AskedInvariant
  <2>2. p \in Names /\ Value(p) = p
    BY <2>1, NamesAssumption DEF NsJobs, Value
  <2>3. \A m \in DOMAIN ns' :
          (m \in DOMAIN ns /\ ns'[m] = ns[m]) \/ <<Parent(ns'[m]), m>> \in asked
    <3>1. CASE c \in DOMAIN ns /\ WriteNs(Put(ns, c, [ns[c] EXCEPT !.parent = p]))
      BY <2>1, <2>2, <3>1 DEF WriteNs, Put, Namespace, Parent
    <3>2. CASE WriteNs(Put(ns, c, Live(Absent, p)))
      BY <2>1, <2>2, <3>2 DEF WriteNs, Put, Live, Parent
    <3> QED
      BY <1>3, <3>1, <3>2 DEF PropagateMeta, api
  <2>4. OnlyWhereAsked'
    BY <1>3, <2>3, AskedByWrite DEF PropagateMeta, history
  <2>5. nsJob' # NoJob => /\ \A d \in nsJob'.todo : <<nsJob'.parent, d>> \in asked
                          /\ nsJob'.todo = {} => nsJob'.parent = nsJob'.of
    BY <1>3, <2>1 DEF PropagateMeta, NsJobs, AskedInvariant
  <2>6. sn' = sn
    BY <1>3 DEF PropagateMeta, WriteNs, api
  <2> QED
    BY <1>3, <2>4, <2>5, <2>6 DEF PropagateMeta, caches, history, AskedInvariant
<1> QED
  BY <1>1, <1>2, <1>3

LEMMA StepKeepsAsked == TypeOK /\ AskedInvariant /\ [Next]_vars => AskedInvariant'
<1> SUFFICES ASSUME TypeOK, AskedInvariant, [Next]_vars PROVE AskedInvariant'
  OBVIOUS
<1>1. CASE UNCHANGED vars
  BY <1>1 DEF vars, AskedInvariant, OnlyWhereAsked
<1>2. CASE SyncNs \/ SyncSn
  BY <1>2 DEF SyncNs, SyncSn, api, history, AskedInvariant, OnlyWhereAsked
<1>3. CASE Restart
  BY <1>3 DEF Restart, api, AskedInvariant, OnlyWhereAsked
<1>4. ASSUME OnlyWhereAsked', DOMAIN sn' \subseteq asked', asked \subseteq asked',
             UNCHANGED <<caches, job, nsJob>>
      PROVE  AskedInvariant'
  BY <1>4 DEF caches, AskedInvariant
<1>5. CASE \E k \in Keys : EmptyNamespace(k) \/ DeleteSubNamespace(k)
  <2>1. DOMAIN sn' \subseteq DOMAIN sn /\ UNCHANGED <<ns, asked, caches, job, nsJob>>
    BY <1>5, NoNewObjects DEF EmptyNamespace, DeleteSubNamespace, Act, history, caches
  <2> QED
    BY <1>4, <2>1, AskedByWrite DEF AskedInvariant
<1>6. CASE \E n \in Subs : FinalizeNamespace(n) \/ DeleteNamespace(n)
  <2>1. UNCHANGED <<sn, asked, caches, job, nsJob>>
    BY <1>6
    DEF FinalizeNamespace, DeleteNamespace, Act, Terminate, WriteNs, history, caches
  <2>2. OnlyWhereAsked'
    BY <1>6, <2>1, AskedByWrite, GoingMovesNobody DEF FinalizeNamespace, DeleteNamespace
  <2> QED
    BY <1>4, <2>1, <2>2 DEF AskedInvariant
<1>7. CASE \E k \in Keys : CreateSubNamespace(k)
  <2>1. PICK k \in Keys : CreateSubNamespace(k)
    BY <1>7
  <2>2. /\ UNCHANGED <<ns, caches, job, nsJob>>
        /\ asked' = asked \cup {k}
        /\ DOMAIN sn' = DOMAIN sn \cup {k}
    BY <2>1 DEF CreateSubNamespace, Act, WriteSn, Put, caches
  <2> QED
    BY <1>4, <2>2, AskedByWrite DEF AskedInvariant
<1>8. CASE \E n \in Subs : CreateForeignNamespace(n)
  <2>1. UNCHANGED <<sn, asked, caches, job, nsJob>>
    BY <1>8 DEF CreateForeignNamespace, Act, WriteNs, caches
  <2>2. \A m \in DOMAIN ns' : (m \in DOMAIN ns /\ ns'[m] = ns[m]) \/ Parent(ns'[m]) = ""
    <3>1. PICK n \in Subs : CreateForeignNamespace(n)
      BY <1>8
    <3>2. ns' = Put(ns, n, Live(Absent, Absent)) /\ Parent(Live(Absent, Absent)) = ""
      BY <3>1 DEF CreateForeignNamespace, WriteNs, Live, Parent, Value
    <3> QED
      BY <3>2 DEF Put
  <2>3. OnlyWhereAsked'
    BY <2>1, <2>2, AskedByWrite
  <2> QED
    BY <1>4, <2>1, <2>3 DEF AskedInvariant
<1>9. ASSUME NEW n \in Subs, NEW parent \in Names \cup {Absent}, NEW type, Relabel(n, type, parent)
      PROVE  AskedInvariant'
  <2> DEFINE new == [ns[n] EXCEPT !.type = type, !.parent = parent]
  <2>1. UNCHANGED <<sn, caches, job, nsJob>> /\ asked \subseteq asked'
    BY <1>9 DEF Relabel, Act, WriteNs, caches
  <2>2. n \in DOMAIN ns /\ ns' = [ns EXCEPT ![n] = new]
    BY <1>9 DEF Relabel, WriteNs
  <2>3. Parent(new) = "" \/ <<Parent(new), n>> \in asked'
    <3>1. ns[n] \in Namespace
      BY <2>2 DEF TypeOK, IsPartialMap
    <3>2. new.parent = parent
      BY <3>1 DEF Namespace
    <3> QED
      <4>1. CASE parent = Absent
        BY <3>2, <4>1 DEF Parent, Value
      <4>2. CASE parent # Absent
        <5>1. asked' = asked \cup {<<parent, n>>}
          BY <1>9, <4>2 DEF Relabel
        <5>2. Parent(new) = parent
          BY <3>2, <4>2 DEF Parent, Value
        <5> QED
          BY <5>1, <5>2
      <4> QED
        BY <4>1, <4>2
  <2> HIDE DEF new
  <2>4. OnlyWhereAsked'
    BY <2>1, <2>2, <2>3, AskedByWrite
  <2> QED
    BY <1>4, <2>1, <2>4 DEF AskedInvariant
<1>10. CASE SystemStep
  BY <1>2, <1>5, <1>6, <1>10, SubNamespaceReconcilerAsked, NamespaceReconcilerAsked
  DEF SystemStep
<1>11. CASE Users
  BY <1>5, <1>6, <1>7, <1>8, <1>9, <1>11 DEF Users
<1> QED
  BY <1>1, <1>3, <1>10, <1>11, StepOfSystemOrUser

(* However far the caches lag, whatever happens between the list of a loop *)
(* over children and its last write, and wherever the controllers restart: *)
(* they hang no namespace, old, new or created again, below a parent where *)
(* no user has ever asked for it.                                          *)
THEOREM NothingUnasked == Spec => []OnlyWhereAsked
<1>1. Init => TypeOK /\ AskedInvariant
  BY InitTypes, InitAsked
<1>2. TypeOK /\ AskedInvariant /\ [Next]_vars => (TypeOK /\ AskedInvariant)'
  BY StepKeepsTypes, StepKeepsAsked
<1>3. AskedInvariant => OnlyWhereAsked
  BY DEF AskedInvariant
<1> QED
  BY <1>1, <1>2, <1>3, PTL DEF Spec

-----------------------------------------------------------------------------

FinalizerInvariant == TypeOK /\ FinalizerKept /\ JobObjectDeleting

LEMMA InitFinalizers == Init => FinalizerInvariant
<1>1. Init => FinalizerKept /\ JobObjectDeleting
  BY DEF Init, FinalizerKept, JobObjectDeleting
<1> QED
  BY <1>1, InitTypes DEF FinalizerInvariant

LEMMA StepKeepsFinalizers ==
  ASSUME StaleSn = FALSE
  PROVE  FinalizerInvariant /\ [Next]_vars => FinalizerInvariant'
<1> SUFFICES ASSUME FinalizerInvariant, [Next]_vars, TypeOK'
             PROVE  FinalizerKept' /\ JobObjectDeleting'
  BY StepKeepsTypes DEF FinalizerInvariant
<1>1. sn \in [DOMAIN sn -> SubNamespace] /\ sn' \in [DOMAIN sn' -> SubNamespace]
  BY DEF FinalizerInvariant, TypeOK, IsPartialMap
<1>2. CASE UNCHANGED <<sn, job>>
  BY <1>2 DEF FinalizerInvariant, FinalizerKept, JobObjectDeleting
<1>3. ASSUME NEW k \in DOMAIN sn, MarkDeleted(k), UNCHANGED job
      PROVE  FinalizerKept' /\ JobObjectDeleting'
  BY <1>1, <1>3
  DEF MarkDeleted, WriteSn, SubNamespace, FinalizerInvariant, FinalizerKept, JobObjectDeleting
<1>4. CASE \E k \in Keys : Reconcile(k)
  BY <1>4
  DEF Reconcile, Ready, SnInSync, api, FinalizerInvariant, FinalizerKept, JobObjectDeleting
<1>5. ASSUME NEW step, At(step) PROVE job \in Jobs /\ job.then = step
  BY <1>5 DEF At, FinalizerInvariant, TypeOK
<1>6. CASE Finalize \/ FinalizeDelete
  <2>1. sn' = sn /\ job.key \in DOMAIN sn /\ sn[job.key].deleting
    BY <1>6 DEF Finalize, FinalizeDelete, At, Terminate, WriteNs, api,
         FinalizerInvariant, JobObjectDeleting
  <2>2. job' = NoJob \/ job'.key = job.key
    BY <1>5, <1>6 DEF Finalize, FinalizeDelete, Continue, Retry, Jobs
  <2> QED
    BY <2>1, <2>2 DEF FinalizerInvariant, FinalizerKept, JobObjectDeleting
<1>7. CASE RemoveFinalizer
  <2>1. job.key \in DOMAIN sn /\ sn[job.key].deleting /\ job' = NoJob
    BY <1>7 DEF RemoveFinalizer, At, Done, FinalizerInvariant, JobObjectDeleting
  <2>2. sn' = Drop(sn, job.key)
    BY <1>7, <2>1 DEF RemoveFinalizer, PatchFinalizer, WriteSn
  <2> QED
    BY <2>1, <2>2 DEF Drop, FinalizerInvariant, FinalizerKept, JobObjectDeleting
<1>8. CASE ReconcileNS \/ ReconcileCreate
  <2>1. sn' = sn
    BY <1>8 DEF ReconcileNS, ReconcileCreate, WriteNs, api
  <2>2. job' = NoJob \/ job'.then \in {"create", "current", "conflict"}
    BY <1>5, <1>8 DEF ReconcileNS, ReconcileCreate, Continue, Retry, Jobs
  <2> QED
    BY <2>1, <2>2 DEF FinalizerInvariant, FinalizerKept, JobObjectDeleting
<1>9. CASE ApplyStatus
  <2>1. job' = NoJob
    BY <1>9 DEF ApplyStatus, Done, Retry
  <2>2. \A k \in DOMAIN sn' : k \in DOMAIN sn /\ sn'[k].finalizer = sn[k].finalizer
    BY <1>1, <1>9 DEF ApplyStatus, WriteSn, SubNamespace, api
  <2> QED
    BY <2>1, <2>2 DEF FinalizerInvariant, FinalizerKept, JobObjectDeleting
<1>10. CASE \E k \in Keys : CreateSubNamespace(k)
  <2>1. PICK k \in Keys : CreateSubNamespace(k)
    BY <1>10
  <2>2. k \notin DOMAIN sn /\ sn' = Put(sn, k, NewSubNamespace) /\ job' = job
    BY <2>1 DEF CreateSubNamespace, WriteSn
  <2> QED
    BY <2>2
    DEF Put, NewSubNamespace, FinalizerInvariant, FinalizerKept, JobObjectDeleting
<1>11. CASE Restart
  BY <1>11 DEF Restart, api, FinalizerInvariant, FinalizerKept, JobObjectDeleting
<1>12. CASE \E k \in Keys : EmptyNamespace(k) \/ DeleteSubNamespace(k)
  BY <1>3, <1>12 DEF EmptyNamespace, DeleteSubNamespace
<1>13. CASE SyncNs \/ SyncSn
  BY <1>2, <1>13 DEF SyncNs, SyncSn, api
<1>14. CASE (\E n \in Names : ReconcileNamespace(n)) \/ ListChildren
  BY <1>2, <1>14 DEF ReconcileNamespace, ListChildren, api
<1>15. CASE \E n \in Subs : PropagateMeta(n) \/ FinalizeNamespace(n)
  BY <1>2, <1>15 DEF FinalizeNamespace, PropagateMeta, WriteNs, api
<1>16. CASE \E n \in Subs : \/ CreateForeignNamespace(n) \/ DeleteNamespace(n)
                            \/ \E parent, type : Relabel(n, type, parent)
  <2>1. ASSUME NEW n, CreateForeignNamespace(n) \/ DeleteNamespace(n) PROVE UNCHANGED <<sn, job>>
    BY <2>1 DEF CreateForeignNamespace, DeleteNamespace, Terminate, WriteNs
  <2>2. ASSUME NEW n, NEW type, NEW parent, Relabel(n, type, parent) PROVE UNCHANGED <<sn, job>>
    BY <2>2 DEF Relabel, WriteNs
  <2> QED
    BY <1>2, <1>16, <2>1, <2>2
<1>17. CASE SystemStep
  BY <1>4, <1>6, <1>7, <1>8, <1>9, <1>12, <1>13, <1>14, <1>15, <1>17 DEF SystemStep
<1>18. CASE Users
  BY <1>10, <1>12, <1>16, <1>18 DEF Users
<1> QED
  BY <1>2, <1>11, <1>17, <1>18, StepOfSystemOrUser DEF vars

(* With an up-to-date cache of SubNamespaces, every SubNamespace is        *)
(* protected by its finalizer from its creation to its end, and the object *)
(* a finalization is about stays, marked as deleted, from the first look   *)
(* at its namespace to the removal of the finalizer.                       *)
THEOREM FinalizerKeptWhenFresh ==
  ASSUME StaleSn = FALSE
  PROVE  Spec => [](FinalizerKept /\ JobObjectDeleting)
<1>1. Init => FinalizerInvariant
  BY InitFinalizers
<1>2. FinalizerInvariant /\ [Next]_vars => FinalizerInvariant'
  BY StepKeepsFinalizers
<1>3. FinalizerInvariant => FinalizerKept /\ JobObjectDeleting
  BY DEF FinalizerInvariant
<1> QED
  BY <1>1, <1>2, <1>3, PTL DEF Spec
=============================================================================
