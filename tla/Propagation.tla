------------------------------ MODULE Propagation ------------------------------
(***************************************************************************)
(* The propagation of resources from a namespace to the ones that hang     *)
(* below it, by two controllers that know nothing of each other: that of   *)
(* controllers/propagate.go, which is woken up by the resource, and the    *)
(* Namespace reconciler of controllers/namespace_controller.go, woken up   *)
(* by the namespace.                                                       *)
(*                                                                         *)
(* Resources of one kind and one name are modelled, so that a namespace    *)
(* has at most one: those of other names and kinds are handled apart from  *)
(* it.  Both controllers read informer caches that lag behind the API      *)
(* server, and write for one child after the other.  A read and the write  *)
(* that rests on it are one step, as in SubNamespaces.                     *)
(***************************************************************************)
EXTENDS NamespaceHooks, PartialMaps, Naturals

CONSTANTS
  Fields,     \* the fields of a resource that may be set or not
  Trees,      \* the namespaces there may be at the start
  Stale,      \* whether the caches may lag
  AnyTime,    \* whether users relabel namespaces while Accurate is busy
  MayDelete,  \* whether users delete namespaces
  Careless,   \* whether users change the mode of copies and delete resources
              \* without annotations
  MaxOps,     \* bound: how many things users do and how often Accurate restarts
  NoJob       \* a controller is between two reconciliations

ASSUME SwitchesAssumption == {Stale, AnyTime, MayDelete, Careless} \subseteq BOOLEAN
ASSUME PropagationMaxOpsAssumption == MaxOps \in Nat

Namespace ==
  [type: {Absent, NSTypeRoot, NSTypeTemplate}, parent: Names \cup {Absent},
   template: Names \cup {Absent}, terminating: BOOLEAN]
Namespaces == PartialMap(Names, Namespace)

ASSUME TreesAssumption == Trees \subseteq Namespaces

VARIABLES
  ns,        \* the Namespaces stored by the API server
  obj,       \* the resource in each namespace that has it
  nsCache,   \* the informer's copy of ns
  objCache,  \* the informer's copy of obj
  nsEvents,  \* the namespaces undelivered Namespace events are about
  objEvents, \* the namespaces undelivered events of the resource are about
  nsQueue,   \* the work queue of the Namespace reconciler
  objQueue,  \* the work queue of the propagate controller
  nsJob,     \* what is left of a reconciliation of a Namespace, or NoJob
  objJob,    \* what is left of a reconciliation of the resource, or NoJob
  ops,       \* how much users and restarts have done
  given      \* the modes that users have ever given to the resource

caches == <<nsCache, objCache>>
nsVars == <<ns, nsEvents>>
objVars == <<obj, objEvents>>
done == <<ops, given>>
vars == <<nsVars, objVars, caches, nsQueue, objQueue, nsJob, objJob, done>>

PropagateCreate == "create"
PropagateUpdate == "update"
Modes == {PropagateCreate, PropagateUpdate}

(* from and mode are the annotations of these names, fields the rest.      *)
Resource ==
  [from: Names \cup {Absent}, mode: Modes \cup {Absent}, fields: SUBSET Fields]

Resources == PartialMap(Names, Resource)

(* The loops over children: what is handed on, or, for "delete", nothing.  *)
ObjJobs ==
  [ns: Names, kind: {"delete"}, res: {Absent}, todo: SUBSET Names]
    \cup [ns: Names, kind: Modes, res: Resource, todo: SUBSET Names]
NsJobs ==
  [ns: Names, parent: Names, phase: {"create", "update", "sweep"}, present: BOOLEAN]

(* A key that is not there has no value, and no job is none.               *)
ASSUME AbsentAssumption == Absent \notin {NSTypeRoot, NSTypeTemplate} \cup Modes
ASSUME NoJobAssumption == NoJob \notin ObjJobs \cup NsJobs

Has(f, n, mode) == n \in DOMAIN f /\ f[n].mode = mode

-----------------------------------------------------------------------------
(* The API server.                                                         *)

WriteNs(new) ==
  /\ ns' = new
  /\ nsEvents' = nsEvents \cup {n \in DOMAIN ns : n \notin DOMAIN new \/ new[n] # ns[n]}

(* The event filter of the propagate controller, by default without the    *)
(* deprecated propagation of generated resources.                          *)
Watched(f, n) == n \in DOMAIN f /\ (f[n].from # Absent \/ f[n].mode # Absent)

WriteObj(new) ==
  LET changed == {n \in DOMAIN obj \cup DOMAIN new :
                    ~(n \in DOMAIN obj /\ n \in DOMAIN new /\ obj[n] = new[n])}
  IN  /\ obj' = new
      /\ objEvents' = objEvents \cup {n \in changed : Watched(obj, n) \/ Watched(new, n)}

IsTerminating(n) == n \in DOMAIN ns /\ ns[n].terminating
MayCreate(n) == n \in DOMAIN ns /\ ~ns[n].terminating /\ n \notin DOMAIN obj

(* A server-side apply creates what is missing.  Fields it does not name   *)
(* go or stay: that depends on who else has ever set them.                 *)
MayApply(n) == n \in DOMAIN obj \/ MayCreate(n)
Apply(n, o) ==
  \E left \in SUBSET (IF n \in DOMAIN obj THEN obj[n].fields \ o.fields ELSE {}) :
    WriteObj(Put(obj, n, [o EXCEPT !.fields = @ \cup left]))

InSync == nsCache = ns /\ objCache = obj /\ nsEvents = {} /\ objEvents = {}
AtRest == InSync /\ nsQueue = {} /\ objQueue = {} /\ nsJob = NoJob /\ objJob = NoJob

(* Caches that may not lag are brought up to date before anything else.    *)
Ready == Stale \/ InSync

-----------------------------------------------------------------------------

Init ==
  /\ ns \in Trees
  /\ obj = [n \in {} |-> Absent]
  /\ nsCache = ns /\ objCache = obj
  /\ nsEvents = {} /\ objEvents = {}
  /\ nsQueue = {} /\ objQueue = {}
  /\ nsJob = NoJob /\ objJob = NoJob
  /\ ops = 0 /\ given = {}

SyncNs ==
  /\ nsEvents # {}
  /\ nsCache' = ns
  /\ nsQueue' = nsQueue \cup nsEvents
  /\ nsEvents' = {}
  /\ UNCHANGED <<ns, objVars, objCache, objQueue, nsJob, objJob, done>>

(* What the filter drops updates the cache all the same.                   *)
SyncObj ==
  /\ objCache # obj \/ objEvents # {}
  /\ objCache' = obj
  /\ objQueue' = objQueue \cup objEvents
  /\ objEvents' = {}
  /\ UNCHANGED <<nsVars, obj, nsCache, nsQueue, nsJob, objJob, done>>

-----------------------------------------------------------------------------
(* What both controllers do.                                               *)

(* Mutant of Clone: the name of the namespace goes to the other annotation.*)
CloneWrongKey(o, p) == [o EXCEPT !.mode = p]

(* cloneResource: the copy of the resource o of namespace p.               *)
Clone(o, p) == [o EXCEPT !.from = p]

(* equality.Semantic.DeepDerivative: what is not set in the clone is not   *)
(* compared.                                                               *)
Derives(clone, o) ==
  clone.from = o.from /\ clone.mode = o.mode /\ clone.fields \subseteq o.fields

-----------------------------------------------------------------------------
(* The propagate controller.  A failed write makes the work queue try the  *)
(* key again: a first write waits until it can succeed, a later one starts *)
(* the reconciliation anew.                                                *)

TakeObj(n) ==
  /\ Ready
  /\ objJob = NoJob
  /\ n \in objQueue
  /\ objQueue' = objQueue \ {n}
  /\ UNCHANGED <<nsVars, caches, nsQueue, nsJob, done>>

(* Mutant of GetChildren: a sub-namespace is not thought of as a parent.   *)
GetChildrenOfRoots(n) ==
  IF Type(nsCache[n]) = NSTypeRoot THEN ChildrenOf(nsCache, n) ELSE InstancesOf(nsCache, n)

(* getChildren: the sub-namespaces of a root or a sub-namespace, else the  *)
(* instances.                                                              *)
GetChildren(n) ==
  IF Type(nsCache[n]) = NSTypeRoot \/ Parent(nsCache[n]) # ""
  THEN ChildrenOf(nsCache, n) ELSE InstancesOf(nsCache, n)

(* The loop over the children, done when there are none.                   *)
ForChildren(n, kind, o, todo) ==
  objJob' = IF todo = {} THEN NoJob ELSE [ns |-> n, kind |-> kind, res |-> o, todo |-> todo]

(* Where handleDelete looks for a resource to make the copy from again.    *)
SupportOf(n) ==
  IF nsCache[n].parent # Absent THEN nsCache[n].parent ELSE Template(nsCache[n])

Supported(n) ==
  LET p == SupportOf(n) IN p \in DOMAIN objCache /\ objCache[p].mode \in Modes

(* handleDelete in a namespace that is not there any more.                 *)
HandleDeleteNowhere(n) ==
  /\ TakeObj(n)
  /\ n \notin DOMAIN objCache
  /\ n \notin DOMAIN nsCache
  /\ UNCHANGED <<objVars, objJob>>

(* handleDelete: re-create it if there is a parent resource.               *)
HandleDeleteRecreate(n) ==
  /\ TakeObj(n)
  /\ n \notin DOMAIN objCache
  /\ n \in DOMAIN nsCache
  /\ SupportOf(n) \in DOMAIN nsCache
  /\ Supported(n)
  /\ \/ IsTerminating(n) /\ UNCHANGED objVars
     \/ MayCreate(n) /\ WriteObj(Put(obj, n, Clone(objCache[SupportOf(n)], SupportOf(n))))
  /\ UNCHANGED objJob

(* handleDelete: else delete the copies in child namespaces.               *)
HandleDeleteCascade(n) ==
  /\ TakeObj(n)
  /\ n \notin DOMAIN objCache
  /\ n \in DOMAIN nsCache
  /\ SupportOf(n) \in DOMAIN nsCache \cup {""}
  /\ ~Supported(n)
  /\ ForChildren(n, "delete", Absent, GetChildren(n))
  /\ UNCHANGED objVars

From(n) == objCache[n].from

(* Mutant of DeleteOrphan: it does not ask whether the original is there.  *)
DeleteOrphanUnasked(n) ==
  /\ TakeObj(n)
  /\ n \in DOMAIN objCache
  /\ From(n) # Absent
  /\ objCache[n].mode = PropagateUpdate
  /\ n \in DOMAIN obj
  /\ WriteObj(Drop(obj, n))
  /\ UNCHANGED objJob

(* Reconcile: a copy mode=update whose original is gone.                   *)
DeleteOrphan(n) ==
  /\ TakeObj(n)
  /\ n \in DOMAIN objCache
  /\ From(n) # Absent /\ From(n) \notin DOMAIN objCache
  /\ objCache[n].mode = PropagateUpdate
  /\ n \in DOMAIN obj
  /\ WriteObj(Drop(obj, n))
  /\ UNCHANGED objJob

(* propagateUpdate with a parent: the copy follows its original...         *)
FollowParent(n) ==
  /\ TakeObj(n)
  /\ n \in DOMAIN objCache
  /\ Has(objCache, From(n), PropagateUpdate)
  /\ LET clone == Clone(objCache[From(n)], From(n))
     IN  ~Derives(clone, objCache[n]) /\ MayApply(n) /\ Apply(n, clone)
  /\ UNCHANGED objJob

(* ...and is handed on when it does.  An original is handed on, too.       *)
HandOn(n) ==
  /\ TakeObj(n)
  /\ n \in DOMAIN objCache
  /\ IF Has(objCache, From(n), PropagateUpdate)
     THEN Derives(Clone(objCache[From(n)], From(n)), objCache[n])
     ELSE From(n) = Absent \/ From(n) \in DOMAIN objCache \/ objCache[n].mode # PropagateUpdate
  /\ IF objCache[n].mode \in Modes
     THEN /\ n \in DOMAIN nsCache
          /\ ForChildren(n, objCache[n].mode, objCache[n], GetChildren(n))
     ELSE UNCHANGED objJob
  /\ UNCHANGED objVars

ReconcileObj(n) ==
  \/ HandleDeleteNowhere(n)
  \/ HandleDeleteRecreate(n)
  \/ HandleDeleteCascade(n)
  \/ DeleteOrphan(n)
  \/ FollowParent(n)
  \/ HandOn(n)

(* One child of the loops.                                                 *)
AtChild(c) ==
  /\ Ready
  /\ objJob # NoJob
  /\ c \in objJob.todo
  /\ UNCHANGED <<nsVars, caches, nsQueue, nsJob, done>>

NextChild(c) ==
  /\ ForChildren(objJob.ns, objJob.kind, objJob.res, objJob.todo \ {c})
  /\ UNCHANGED objQueue

Retry ==
  /\ objJob' = NoJob
  /\ objQueue' = objQueue \cup {objJob.ns}
  /\ UNCHANGED objVars

(* Nothing to do for this child.                                           *)
SkipChild(c) ==
  /\ AtChild(c)
  /\ \/ objJob.kind = PropagateCreate /\ c \in DOMAIN objCache
     \/ /\ objJob.kind = PropagateUpdate
        /\ c \in DOMAIN objCache
        /\ Derives(Clone(objJob.res, objJob.ns), objCache[c])
     \/ objJob.kind = "delete" /\ ~Has(objCache, c, PropagateUpdate)
  /\ NextChild(c)
  /\ UNCHANGED objVars

(* propagateCreate, propagateUpdate: make the missing copy.  That the      *)
(* namespace of this child is terminating ends the whole loop.             *)
CreateCopy(c) ==
  /\ AtChild(c)
  /\ objJob.kind \in Modes
  /\ c \notin DOMAIN objCache
  /\ IF MayCreate(c)
     THEN WriteObj(Put(obj, c, Clone(objJob.res, objJob.ns))) /\ NextChild(c)
     ELSE IF IsTerminating(c)
     THEN objJob' = NoJob /\ UNCHANGED <<objVars, objQueue>>
     ELSE Retry

(* propagateUpdate: the copy, or whatever bears its name, is different.    *)
ApplyCopy(c) ==
  LET clone == Clone(objJob.res, objJob.ns)
  IN  /\ AtChild(c)
      /\ objJob.kind = PropagateUpdate
      /\ c \in DOMAIN objCache
      /\ ~Derives(clone, objCache[c])
      /\ IF MayApply(c) THEN Apply(c, clone) /\ NextChild(c) ELSE Retry

(* handleDelete: a resource mode=update of this name.                      *)
DeleteCopy(c) ==
  /\ AtChild(c)
  /\ objJob.kind = "delete"
  /\ Has(objCache, c, PropagateUpdate)
  /\ IF c \in DOMAIN obj THEN WriteObj(Drop(obj, c)) /\ NextChild(c) ELSE Retry

CopyStep == \E c \in Names : SkipChild(c) \/ CreateCopy(c) \/ ApplyCopy(c) \/ DeleteCopy(c)

-----------------------------------------------------------------------------
(* The Namespace reconciler.  What it does to labels and annotations of    *)
(* namespaces is not the matter of this module.                            *)

TakeNs(n) ==
  /\ Ready
  /\ nsJob = NoJob
  /\ n \in nsQueue
  /\ nsQueue' = nsQueue \ {n}
  /\ UNCHANGED <<nsVars, caches, objQueue, objJob, done>>

IgnoreNs(n) ==
  /\ TakeNs(n)
  /\ n \in DOMAIN nsCache => nsCache[n].terminating
  /\ UNCHANGED <<objVars, nsJob>>

(* reconcileSubNamespace and reconcileInstanceNamespace fail unless the    *)
(* parent is there.  propagateResource looks three times at the resource.  *)
BeginPropagate(n) ==
  /\ TakeNs(n)
  /\ n \in DOMAIN nsCache
  /\ ~nsCache[n].terminating
  /\ nsCache[n].parent # Absent \/ nsCache[n].template # Absent
  /\ SupportOf(n) \in DOMAIN nsCache
  /\ nsJob' = [ns |-> n, parent |-> SupportOf(n), phase |-> "create", present |-> FALSE]
  /\ UNCHANGED objVars

(* Mutant of DeletePropagated: originals are taken for copies.             *)
DeletePropagatedAny(n) ==
  /\ TakeNs(n)
  /\ n \in DOMAIN nsCache
  /\ ~nsCache[n].terminating
  /\ nsCache[n].parent = Absent /\ nsCache[n].template = Absent
  /\ IF Has(objCache, n, PropagateUpdate)
     THEN n \in DOMAIN obj /\ WriteObj(Drop(obj, n))
     ELSE UNCHANGED objVars
  /\ UNCHANGED nsJob

(* deletePropagatedResources, in a namespace that hangs below no other.    *)
DeletePropagated(n) ==
  /\ TakeNs(n)
  /\ n \in DOMAIN nsCache
  /\ ~nsCache[n].terminating
  /\ nsCache[n].parent = Absent /\ nsCache[n].template = Absent
  /\ IF Has(objCache, n, PropagateUpdate) /\ objCache[n].from # Absent
     THEN n \in DOMAIN obj /\ WriteObj(Drop(obj, n))
     ELSE UNCHANGED objVars
  /\ UNCHANGED nsJob

InPhase(phase) ==
  /\ Ready
  /\ nsJob # NoJob
  /\ nsJob.phase = phase
  /\ UNCHANGED <<nsVars, caches, objQueue, objJob, done>>

(* A write of propagateResource that fails starts the reconciliation anew, *)
(* unless a resource is not created because the namespace is terminating.  *)
CreateOrRetry(n, o, next) ==
  IF MayCreate(n) \/ IsTerminating(n)
  THEN /\ IF MayCreate(n) THEN WriteObj(Put(obj, n, o)) ELSE UNCHANGED objVars
       /\ nsJob' = next
       /\ UNCHANGED nsQueue
  ELSE /\ nsJob' = NoJob
       /\ nsQueue' = nsQueue \cup {n}
       /\ UNCHANGED objVars

(* The first look: propagateCreate of what is mode=create.                 *)
PropagateCreatePhase ==
  LET n == nsJob.ns
      p == nsJob.parent
      next == [nsJob EXCEPT !.phase = "update"]
  IN  /\ InPhase("create")
      /\ IF Has(objCache, p, PropagateCreate) /\ n \notin DOMAIN objCache
         THEN CreateOrRetry(n, Clone(objCache[p], p), next)
         ELSE nsJob' = next /\ UNCHANGED <<objVars, nsQueue>>

(* The second: propagateUpdate of what is mode=update.                     *)
PropagateUpdatePhase ==
  LET n == nsJob.ns
      p == nsJob.parent
      clone == Clone(objCache[p], p)
      next == [nsJob EXCEPT !.phase = "sweep", !.present = Has(objCache, p, PropagateUpdate)]
  IN  /\ InPhase("update")
      /\ IF ~Has(objCache, p, PropagateUpdate)
         THEN nsJob' = next /\ UNCHANGED <<objVars, nsQueue>>
         ELSE IF n \notin DOMAIN objCache
         THEN CreateOrRetry(n, clone, next)
         ELSE IF Derives(clone, objCache[n])
         THEN nsJob' = next /\ UNCHANGED <<objVars, nsQueue>>
         ELSE IF MayApply(n)
         THEN Apply(n, clone) /\ nsJob' = next /\ UNCHANGED nsQueue
         ELSE nsJob' = NoJob /\ nsQueue' = nsQueue \cup {n} /\ UNCHANGED objVars

(* Mutant of SweepPhase: only copies whose original is gone are stale.     *)
SweepPhaseOrphans ==
  LET n == nsJob.ns
  IN  /\ InPhase("sweep")
      /\ nsJob' = NoJob
      /\ IF /\ Has(objCache, n, PropagateUpdate)
            /\ objCache[n].from # Absent
            /\ objCache[n].from \notin DOMAIN objCache
         THEN IF n \in DOMAIN obj
              THEN WriteObj(Drop(obj, n)) /\ UNCHANGED nsQueue
              ELSE nsQueue' = nsQueue \cup {n} /\ UNCHANGED objVars
         ELSE UNCHANGED <<objVars, nsQueue>>

(* The third: a copy mode=update that is not the parent's is stale.        *)
SweepPhase ==
  LET n == nsJob.ns
  IN  /\ InPhase("sweep")
      /\ nsJob' = NoJob
      /\ IF /\ Has(objCache, n, PropagateUpdate)
            /\ objCache[n].from # Absent
            /\ ~(objCache[n].from = nsJob.parent /\ nsJob.present)
         THEN IF n \in DOMAIN obj
              THEN WriteObj(Drop(obj, n)) /\ UNCHANGED nsQueue
              ELSE nsQueue' = nsQueue \cup {n} /\ UNCHANGED objVars
         ELSE UNCHANGED <<objVars, nsQueue>>

ReconcileNs(n) == IgnoreNs(n) \/ BeginPropagate(n) \/ DeletePropagated(n)
PropagateStep == PropagateCreatePhase \/ PropagateUpdatePhase \/ SweepPhase

-----------------------------------------------------------------------------
(* Kubernetes.                                                             *)

EmptyNamespace(n) ==
  /\ Ready
  /\ IsTerminating(n)
  /\ n \in DOMAIN obj
  /\ WriteObj(Drop(obj, n))
  /\ UNCHANGED <<nsVars, caches, nsQueue, objQueue, nsJob, objJob, done>>

FinalizeNamespace(n) ==
  /\ Ready
  /\ IsTerminating(n)
  /\ n \notin DOMAIN obj
  /\ WriteNs(Drop(ns, n))
  /\ UNCHANGED <<objVars, caches, nsQueue, objQueue, nsJob, objJob, done>>

-----------------------------------------------------------------------------
(* Users, and the restart of Accurate.                                     *)

Act ==
  /\ Ready
  /\ ops < MaxOps
  /\ ops' = ops + 1
  /\ UNCHANGED <<caches, nsQueue, objQueue, nsJob, objJob>>

CreateResource(n, mode, fields) ==
  /\ Act
  /\ MayCreate(n)
  /\ WriteObj(Put(obj, n, [from |-> Absent, mode |-> mode, fields |-> fields]))
  /\ given' = given \cup ({mode} \ {Absent})
  /\ UNCHANGED nsVars

EditResource(n, mode, fields) ==
  /\ Act
  /\ n \in DOMAIN obj
  /\ Careless \/ obj[n].from = Absent \/ obj[n].mode = mode
  /\ LET new == [obj[n] EXCEPT !.mode = mode, !.fields = fields]
     IN  new # obj[n] /\ WriteObj([obj EXCEPT ![n] = new])
  /\ given' = given \cup ({mode} \ {Absent})
  /\ UNCHANGED nsVars

DeleteResource(n) ==
  /\ Act
  /\ n \in DOMAIN obj
  /\ Careless \/ Watched(obj, n)
  /\ WriteObj(Drop(obj, n))
  /\ UNCHANGED <<nsVars, given>>

(* Moving a sub-namespace, cutting it (it becomes a root), grafting it.    *)
(* The webhook decides on what is stored: NamespaceTree is about its lag.  *)
Relabel(n, type, parent) ==
  /\ Act
  /\ AnyTime \/ AtRest
  /\ n \in DOMAIN ns
  /\ parent \in DOMAIN ns => ~ns[parent].terminating
  /\ LET new == [ns[n] EXCEPT !.type = type, !.parent = parent]
     IN  /\ new # ns[n]
         /\ HandleUpdate(ns, n, new, ns[n])
         /\ WriteNs([ns EXCEPT ![n] = new])
  /\ UNCHANGED <<objVars, given>>

DeleteNamespace(n) ==
  /\ MayDelete
  /\ Act
  /\ n \in DOMAIN ns
  /\ ~ns[n].terminating
  /\ HandleDelete(ns, n, ns[n])
  /\ WriteNs([ns EXCEPT ![n].terminating = TRUE])
  /\ UNCHANGED <<objVars, given>>

(* The caches are filled first, and everything in them is queued.          *)
Restart ==
  /\ ops < MaxOps
  /\ ops' = ops + 1
  /\ nsCache' = ns /\ objCache' = obj
  /\ nsEvents' = {} /\ objEvents' = {}
  /\ nsQueue' = DOMAIN ns
  /\ objQueue' = {n \in DOMAIN obj : Watched(obj, n)}
  /\ nsJob' = NoJob /\ objJob' = NoJob
  /\ UNCHANGED <<ns, obj, given>>

-----------------------------------------------------------------------------

Controllers ==
  \/ SyncNs \/ SyncObj
  \/ \E n \in Names : ReconcileObj(n) \/ ReconcileNs(n)
  \/ CopyStep \/ PropagateStep

Kubernetes == \E n \in Names : EmptyNamespace(n) \/ FinalizeNamespace(n)

Users ==
  \E n \in Names :
    \/ \E mode \in Modes \cup {Absent}, fields \in SUBSET Fields :
         CreateResource(n, mode, fields) \/ EditResource(n, mode, fields)
    \/ DeleteResource(n)
    \/ \E type \in {Absent, NSTypeRoot}, parent \in Names \cup {Absent} :
         Relabel(n, type, parent)
    \/ DeleteNamespace(n)

Next == Controllers \/ Kubernetes \/ Users \/ Restart

(* Events are delivered, each worker takes every queued key and goes on    *)
(* with what it has begun, and Kubernetes cleans up.                       *)
Fairness ==
  /\ WF_vars(SyncNs) /\ WF_vars(SyncObj)
  /\ \A n \in Names :
       /\ WF_vars(ReconcileObj(n)) /\ WF_vars(ReconcileNs(n))
       /\ WF_vars(EmptyNamespace(n)) /\ WF_vars(FinalizeNamespace(n))
  /\ WF_vars(CopyStep) /\ WF_vars(PropagateStep)

Spec == Init /\ [][Next]_vars
FairSpec == Spec /\ Fairness

-----------------------------------------------------------------------------

(* Objects, caches, queues and jobs are of the right kind, and every       *)
(* resource is in a namespace that is there.                               *)
TypeOK ==
  /\ ns \in Namespaces /\ nsCache \in Namespaces
  /\ obj \in Resources /\ objCache \in Resources
  /\ nsEvents \subseteq Names /\ objEvents \subseteq Names
  /\ nsQueue \subseteq Names /\ objQueue \subseteq Names
  /\ nsJob \in NsJobs \cup {NoJob} /\ objJob \in ObjJobs \cup {NoJob}
  /\ ops \in 0..MaxOps /\ given \subseteq Modes
  /\ DOMAIN obj \subseteq DOMAIN ns

(* Namespaces that hang below n and are not on their way out.              *)
LiveChildren(n) == {c \in DOMAIN ns : GetParent(ns[c]) = n /\ ~ns[c].terminating}

(* "Accurate creates or updates a copy in all sub-namespaces if missing or *)
(* different", "creates a copy in all sub-namespaces if missing".  A user  *)
(* who puts a resource without the from annotation in the place of a copy  *)
(* may keep it.                                                            *)
CopiesInPlace ==
  AtRest =>
    \A n \in DOMAIN obj : \A c \in LiveChildren(n) :
      /\ obj[n].mode \in Modes => c \in DOMAIN obj
      /\ obj[n].mode = PropagateUpdate /\ obj[c].from # Absent =>
           Derives(Clone(obj[n], n), obj[c])

(* "Deletes resources ... annotated with propagate=update provided that    *)
(* the value of the from annotation is not the parent namespace name, or   *)
(* there is not a resource ... in the parent namespace".  The first holds  *)
(* while users give the resource one mode only: a copy mode=create stays   *)
(* behind in a namespace that is moved, and turns into one mode=update     *)
(* when what it was copied from does.                                      *)
NoStaleCopies ==
  AtRest =>
    \A c \in DOMAIN obj :
      obj[c].mode = PropagateUpdate /\ obj[c].from # Absent /\ ~ns[c].terminating =>
        IF obj[c].from = GetParent(ns[c]) THEN obj[c].from \in DOMAIN obj ELSE given = Modes

(* "Don't delete origins": what was made by a user in a namespace that     *)
(* hangs below no other is left alone.                                     *)
OriginsKept ==
  [][\A n \in DOMAIN obj :
       /\ ops' = ops /\ obj[n].from = Absent
       /\ GetParent(ns[n]) = "" /\ ~ns[n].terminating
       => n \in DOMAIN obj' /\ obj'[n] = obj[n]]_vars

(* When users rest, both controllers come to rest: they do not undo each   *)
(* other's work for ever.                                                  *)
ComesToRest == <>[]AtRest
=============================================================================
