---------------------------- MODULE SubNamespaces ----------------------------
(***************************************************************************)
(* The life of SubNamespaces: the reconciler of                            *)
(* controllers/subnamespace_controller.go, the writes of the parent label  *)
(* by controllers/namespace_controller.go, both webhooks, and what the API *)
(* server and Kubernetes (external) do with the objects.                   *)
(*                                                                         *)
(* The reconcilers and the webhooks read informer caches that lag behind   *)
(* the API server.  A cache is brought up to date as a whole; the events   *)
(* of all the writes in between are then delivered.  Every read and every  *)
(* write of a reconciliation is a step of its own, so that even where no   *)
(* cache lags anything may happen between a look and the write it leads    *)
(* to, and between a list and the writes to what it has listed.            *)
(***************************************************************************)
EXTENDS SubNamespaceHooks, PartialMaps, Naturals

CONSTANTS
  Roots,    \* the root namespaces, there from the start to the end
  StaleNs,  \* whether the cache of Namespaces may lag
  StaleSn,  \* whether the cache of SubNamespaces may lag
  Careful,  \* whether users relabel no namespace that something under way refers to
  MaxOps,   \* bound: how many things users do and how often Accurate restarts
  NoJob     \* a reconciler is between two reconciliations

ASSUME RootsAssumption == Roots \subseteq Names
ASSUME LagAssumption == StaleNs \in BOOLEAN /\ StaleSn \in BOOLEAN
ASSUME CarefulAssumption == Careful \in BOOLEAN
ASSUME MaxOpsAssumption == MaxOps \in Nat

Subs == Names \ Roots
Keys == {k \in Names \X Subs : k[1] # k[2]}

VARIABLES
  ns,        \* the Namespaces stored by the API server
  sn,        \* the SubNamespaces stored by the API server
  nsCache,   \* the informer's copy of ns
  snCache,   \* the informer's copy of sn
  nsEvents,  \* [keys, gone]: what undelivered Namespace events refer to
  snEvents,  \* the keys undelivered SubNamespace events refer to
  queue,     \* the work queue of the reconciler of SubNamespaces
  job,       \* its reconciliation in progress and what comes next in it, or NoJob
  nsJob,     \* the reconciliation in progress of a Namespace, or NoJob
  ops,       \* how much users and restarts have done
  asked      \* history: where users have asked namespaces to be, by either kind of object

api == <<ns, sn>>
caches == <<nsCache, snCache>>
history == <<ops, asked>>
vars == <<ns, sn, nsCache, snCache, nsEvents, snEvents, queue, job, nsJob, ops, asked>>

Statuses == {"none", "current", "conflict"}
Namespace ==
  [type: {Absent, NSTypeRoot}, parent: Names \cup {Absent},
   template: {Absent}, terminating: BOOLEAN]
SubNamespace == [deleting: BOOLEAN, finalizer: BOOLEAN, status: Statuses]
Steps ==
  {"finalize", "deleteNamespace", "removeFinalizer", "reconcileNS", "create"}
    \cup (Statuses \ {"none"})
Jobs == [key: Keys, then: Steps]

(* Of a Namespace: the parent label to apply, and to whom.  It is first    *)
(* that of the namespace itself; its children come next.                   *)
NsJobs == [of: Names, parent: Names, todo: SUBSET Names]

ASSUME NoJobAssumption == NoJob \notin Jobs \cup NsJobs

Live(type, parent) ==
  [type |-> type, parent |-> parent, template |-> Absent, terminating |-> FALSE]

(* Mutants, here and below: the definition with the bug its comment names. *)

(* The mutating webhook adds no finalizer.                                 *)
NewSubNamespaceBare == [deleting |-> FALSE, finalizer |-> FALSE, status |-> "none"]

NewSubNamespace == [deleting |-> FALSE, finalizer |-> TRUE, status |-> "none"]

-----------------------------------------------------------------------------
(* Writes to the API server and the events they cause.                     *)

NoNsEvents == [keys |-> {}, gone |-> {}]

(* nsHandler does not ask whether there is a parent label.                 *)
WriteNsNoParent(new) ==
  LET changed == {n \in DOMAIN ns : n \notin DOMAIN new \/ new[n] # ns[n]}
      pointsAt(f) == {<<Parent(f[n]), n>> : n \in changed \cap DOMAIN f}
  IN  /\ ns' = new
      /\ nsEvents' = [nsEvents EXCEPT !.keys = @ \cup pointsAt(ns) \cup pointsAt(new)]
      /\ UNCHANGED sn

(* nsHandler does not look for SubNamespaces that wait for the name.       *)
WriteNsNobodyWaits(new) ==
  LET changed == {n \in DOMAIN ns : n \notin DOMAIN new \/ new[n] # ns[n]}
      pointsAt(f) == {<<Parent(f[n]), n>> : n \in changed \cap DOMAIN f} \cap Keys
  IN  /\ ns' = new
      /\ nsEvents' = [nsEvents EXCEPT !.keys = @ \cup pointsAt(ns) \cup pointsAt(new)]
      /\ UNCHANGED sn

(* nsHandler, applied to the old and the new object of an update and to    *)
(* the last state of a deleted one: the SubNamespace its parent label      *)
(* points at, and, once it is terminating, all that bear its name.  The    *)
(* creation of a Namespace is no event to the reconciler.                  *)
WriteNs(new) ==
  LET changed == {n \in DOMAIN ns : n \notin DOMAIN new \/ new[n] # ns[n]}
      pointsAt(f) == {<<Parent(f[n]), n>> : n \in changed \cap DOMAIN f} \cap Keys
  IN  /\ ns' = new
      /\ nsEvents' =
           [keys |-> nsEvents.keys \cup pointsAt(ns) \cup pointsAt(new),
            gone |-> nsEvents.gone \cup
                     {n \in changed : n \in DOMAIN new => new[n].terminating}]
      /\ UNCHANGED sn

WriteSn(new) ==
  LET changed == {k \in DOMAIN sn \cup DOMAIN new :
                    ~(k \in DOMAIN sn /\ k \in DOMAIN new /\ sn[k] = new[k])}
  IN  /\ sn' = new
      /\ snEvents' = snEvents \cup changed
      /\ UNCHANGED ns

NsInSync == nsCache = ns /\ nsEvents = NoNsEvents
SnInSync == snCache = sn /\ snEvents = {}

(* A cache that may not lag is brought up to date before anything else.    *)
Ready == (StaleNs \/ NsInSync) /\ (StaleSn \/ SnInSync)

(* Deleting an object with a finalizer only marks it.                      *)
MarkDeleted(k) ==
  WriteSn(IF sn[k].finalizer THEN [sn EXCEPT ![k].deleting = TRUE] ELSE Drop(sn, k))

Terminate(n) == WriteNs([ns EXCEPT ![n].terminating = TRUE])

-----------------------------------------------------------------------------

Init ==
  /\ ns = [r \in Roots |-> Live(NSTypeRoot, Absent)]
  /\ sn = [k \in {} |-> NewSubNamespace]
  /\ nsCache = ns
  /\ snCache = sn
  /\ nsEvents = NoNsEvents
  /\ snEvents = {}
  /\ queue = {}
  /\ job = NoJob
  /\ nsJob = NoJob
  /\ ops = 0
  /\ asked = {}

(* The informers.                                                          *)
SyncNs ==
  /\ ~NsInSync
  /\ nsCache' = ns
  /\ queue' = queue \cup nsEvents.keys \cup {k \in DOMAIN snCache : k[2] \in nsEvents.gone}
  /\ nsEvents' = NoNsEvents
  /\ UNCHANGED <<api, snCache, snEvents, job, nsJob, history>>

SyncSn ==
  /\ ~SnInSync
  /\ snCache' = sn
  /\ queue' = queue \cup snEvents
  /\ snEvents' = {}
  /\ UNCHANGED <<api, nsCache, nsEvents, job, nsJob, history>>

-----------------------------------------------------------------------------
(* The reconciler of SubNamespaces.  A write that is refused ends the      *)
(* reconciliation, and the work queue tries the key again.                 *)

(* An object in conflict is finalized, too.                                *)
ReconcileConflicts(k) ==
  /\ Ready
  /\ job = NoJob
  /\ k \in queue
  /\ queue' = queue \ {k}
  /\ job' = IF k \notin DOMAIN snCache THEN NoJob
            ELSE [key |-> k, then |-> IF snCache[k].deleting \/ snCache[k].status = "conflict"
                                      THEN "finalize" ELSE "reconcileNS"]
  /\ UNCHANGED <<api, caches, nsEvents, snEvents, nsJob, history>>

(* Reconcile: what is not there any more needs nothing.                    *)
Reconcile(k) ==
  /\ Ready
  /\ job = NoJob
  /\ k \in queue
  /\ queue' = queue \ {k}
  /\ job' = IF k \notin DOMAIN snCache THEN NoJob
            ELSE [key |-> k,
                  then |-> IF snCache[k].deleting THEN "finalize" ELSE "reconcileNS"]
  /\ UNCHANGED <<api, caches, nsEvents, snEvents, nsJob, history>>

(* It is the reconciliation's turn, and it has come to step.               *)
At(step) ==
  /\ Ready
  /\ job # NoJob
  /\ job.then = step
  /\ UNCHANGED <<caches, nsJob, history>>

Continue(step) == job' = [job EXCEPT !.then = step] /\ UNCHANGED queue
Done == job' = NoJob /\ UNCHANGED queue
Retry == job' = NoJob /\ queue' = queue \cup {job.key}

(* finalize does not look at the parent label.                             *)
HasAnyNamespace(k) == k[2] \in DOMAIN nsCache /\ ~nsCache[k[2]].terminating

(* There is a namespace for finalize to delete.                            *)
HasOwnNamespace(k) ==
  /\ k[2] \in DOMAIN nsCache
  /\ ~nsCache[k[2]].terminating
  /\ Parent(nsCache[k[2]]) = k[1]

(* finalize ends when the namespace is another parent's.                   *)
FinalizeOwnOnly ==
  /\ At("finalize")
  /\ IF HasOwnNamespace(job.key) THEN Continue("deleteNamespace")
     ELSE IF HasAnyNamespace(job.key) THEN Done ELSE Continue("removeFinalizer")
  /\ UNCHANGED <<api, nsEvents, snEvents>>

(* finalize, up to its first write.                                        *)
Finalize ==
  /\ At("finalize")
  /\ Continue(IF HasOwnNamespace(job.key) THEN "deleteNamespace" ELSE "removeFinalizer")
  /\ UNCHANGED <<api, nsEvents, snEvents>>

(* The request carries a name and no precondition; a namespace that is     *)
(* gone is no error.                                                       *)
FinalizeDelete ==
  /\ At("deleteNamespace")
  /\ LET n == job.key[2]
     IN  \/ /\ n \notin DOMAIN ns
            /\ Continue("removeFinalizer")
            /\ UNCHANGED <<api, nsEvents>>
         \/ /\ n \in DOMAIN ns
            /\ HandleDelete(nsCache, n, ns[n])
            /\ Terminate(n)
            /\ Continue("removeFinalizer")
         \/ /\ n \in DOMAIN ns
            /\ ~HandleDelete(nsCache, n, ns[n])
            /\ Retry
            /\ UNCHANGED <<api, nsEvents>>
  /\ UNCHANGED snEvents

(* The patch of removeFinalizer names the object but not which object of   *)
(* that name, and an object that is gone is no error.                      *)
PatchFinalizer(k) ==
  IF k \notin DOMAIN sn THEN UNCHANGED <<sn, snEvents, ns>>
  ELSE WriteSn(IF sn[k].deleting THEN Drop(sn, k)
               ELSE [sn EXCEPT ![k].finalizer = FALSE])

RemoveFinalizer ==
  /\ At("removeFinalizer")
  /\ PatchFinalizer(job.key)
  /\ Done
  /\ UNCHANGED nsEvents

(* reconcileNS, up to its first write.                                     *)
ReconcileNS ==
  /\ At("reconcileNS")
  /\ LET k == job.key
     IN  Continue(IF k[2] \notin DOMAIN nsCache THEN "create"
                  ELSE IF Parent(nsCache[k[2]]) = k[1] THEN "current" ELSE "conflict")
  /\ UNCHANGED <<api, nsEvents, snEvents>>

(* Create the missing namespace; it is then current.                       *)
ReconcileCreate ==
  /\ At("create")
  /\ LET n == job.key[2]
         new == Live(Absent, job.key[1])
     IN  IF n \notin DOMAIN ns /\ HandleCreate(nsCache, n, new)
         THEN WriteNs(Put(ns, n, new)) /\ Continue("current")
         ELSE Retry /\ UNCHANGED <<api, nsEvents>>
  /\ UNCHANGED snEvents

(* The status of an object that is gone cannot be applied.                 *)
ApplyStatus ==
  /\ At("current") \/ At("conflict")
  /\ IF job.key \in DOMAIN sn
     THEN WriteSn([sn EXCEPT ![job.key].status = job.then]) /\ Done
     ELSE Retry /\ UNCHANGED <<api, snEvents>>
  /\ UNCHANGED nsEvents

-----------------------------------------------------------------------------
(* The Namespace reconciler.  Events, resyncs and restarts have it look at *)
(* any namespace at any time; one after the other.                         *)

(* reconcile: a sub-namespace is handed its own parent label first, a root *)
(* has only children.                                                      *)
ReconcileNamespace(n) ==
  /\ Ready
  /\ nsJob = NoJob
  /\ n \in DOMAIN nsCache
  /\ ~nsCache[n].terminating
  /\ LET p == Parent(nsCache[n])
     IN  \/ /\ p \in DOMAIN nsCache
            /\ nsJob' = [of |-> n, parent |-> p, todo |-> {n}]
         \/ /\ p = "" /\ Type(nsCache[n]) = NSTypeRoot
            /\ nsJob' = [of |-> n, parent |-> n, todo |-> {}]
  /\ UNCHANGED <<api, caches, nsEvents, snEvents, queue, job, history>>

(* The children of the children are listed, too.                           *)
ListDescendants ==
  /\ Ready
  /\ nsJob # NoJob
  /\ nsJob.todo = {}
  /\ LET children == ChildrenOf(nsCache, nsJob.of)
         below == children \cup UNION {ChildrenOf(nsCache, c) : c \in children}
     IN  nsJob' = IF below = {} THEN NoJob ELSE [nsJob EXCEPT !.todo = below]
  /\ UNCHANGED <<api, caches, nsEvents, snEvents, queue, job, history>>

(* The children are listed once, from the cache...                         *)
ListChildren ==
  /\ Ready
  /\ nsJob # NoJob
  /\ nsJob.todo = {}
  /\ LET children == ChildrenOf(nsCache, nsJob.of)
     IN  nsJob' = IF children = {} THEN NoJob ELSE [nsJob EXCEPT !.todo = children]
  /\ UNCHANGED <<api, caches, nsEvents, snEvents, queue, job, history>>

(* ...and propagateMeta applies the parent label to one after the other,   *)
(* by name and by force: a server-side apply takes a namespace that is     *)
(* below another parent by then, and creates one that is gone.  One that   *)
(* is refused ends the loop.                                               *)
PropagateMeta(c) ==
  /\ Ready
  /\ nsJob # NoJob
  /\ c \in nsJob.todo
  /\ LET new == IF c \in DOMAIN ns THEN [ns[c] EXCEPT !.parent = nsJob.parent]
                ELSE Live(Absent, nsJob.parent)
         admitted == IF c \in DOMAIN ns THEN HandleUpdate(nsCache, c, new, ns[c])
                     ELSE HandleCreate(nsCache, c, new)
         rest == nsJob.todo \ {c}
     IN  \/ /\ admitted
            /\ WriteNs(Put(ns, c, new))
            /\ nsJob' = IF rest # {} THEN [nsJob EXCEPT !.todo = rest]
                        ELSE IF nsJob.parent = nsJob.of THEN NoJob
                        ELSE [nsJob EXCEPT !.parent = nsJob.of, !.todo = {}]
         \/ /\ ~admitted
            /\ nsJob' = NoJob
            /\ UNCHANGED <<api, nsEvents>>
  /\ UNCHANGED <<caches, snEvents, queue, job, history>>

-----------------------------------------------------------------------------
(* Kubernetes.                                                             *)

(* The SubNamespaces of a terminating namespace are deleted...             *)
EmptyNamespace(k) ==
  /\ Ready
  /\ k[1] \in DOMAIN ns
  /\ ns[k[1]].terminating
  /\ k \in DOMAIN sn
  /\ ~sn[k].deleting
  /\ AdmitsDelete(nsCache, k)
  /\ MarkDeleted(k)
  /\ UNCHANGED <<nsEvents, caches, queue, job, nsJob, history>>

(* ...and it goes when none is left.                                       *)
FinalizeNamespace(n) ==
  /\ Ready
  /\ n \in DOMAIN ns
  /\ ns[n].terminating
  /\ \A k \in DOMAIN sn : k[1] # n
  /\ WriteNs(Drop(ns, n))
  /\ UNCHANGED <<snEvents, caches, queue, job, nsJob, history>>

-----------------------------------------------------------------------------
(* Users, and the restart of Accurate.                                     *)

Act ==
  /\ Ready
  /\ ops < MaxOps
  /\ ops' = ops + 1
  /\ UNCHANGED nsJob

(* The mutating webhook adds the finalizer; Kubernetes refuses to create   *)
(* anything in a namespace that is terminating or not there.               *)
CreateSubNamespace(k) ==
  /\ Act
  /\ k \notin DOMAIN sn
  /\ k[1] \in DOMAIN ns
  /\ ~ns[k[1]].terminating
  /\ AdmitsCreate(nsCache, k)
  /\ WriteSn(Put(sn, k, NewSubNamespace))
  /\ asked' = asked \cup {k}
  /\ UNCHANGED <<nsEvents, caches, queue, job>>

DeleteSubNamespace(k) ==
  /\ Act
  /\ k \in DOMAIN sn
  /\ ~sn[k].deleting
  /\ AdmitsDelete(nsCache, k)
  /\ MarkDeleted(k)
  /\ UNCHANGED <<nsEvents, caches, queue, job, asked>>

(* A namespace of that name is created by somebody else.                   *)
CreateForeignNamespace(n) ==
  /\ Act
  /\ n \notin DOMAIN ns
  /\ WriteNs(Put(ns, n, Live(Absent, Absent)))
  /\ UNCHANGED <<snEvents, caches, queue, job, asked>>

(* Moving a namespace, cutting it (it becomes a root), grafting it.  A     *)
(* careful user does so while no SubNamespace of its name and not the new  *)
(* parent is on its way out, and no loop over children has come by it.     *)
Relabel(n, type, parent) ==
  /\ Act
  /\ n \in DOMAIN ns
  /\ Careful =>
       /\ \A k \in DOMAIN sn : k[2] = n => ~sn[k].deleting
       /\ parent \in DOMAIN ns => ~ns[parent].terminating
       /\ nsJob # NoJob => n \notin nsJob.todo
  /\ LET new == [ns[n] EXCEPT !.type = type, !.parent = parent]
     IN  /\ new # ns[n]
         /\ HandleUpdate(nsCache, n, new, ns[n])
         /\ WriteNs([ns EXCEPT ![n] = new])
  /\ asked' = IF parent = Absent THEN asked ELSE asked \cup {<<parent, n>>}
  /\ UNCHANGED <<snEvents, caches, queue, job>>

DeleteNamespace(n) ==
  /\ Act
  /\ n \in DOMAIN ns
  /\ ~ns[n].terminating
  /\ HandleDelete(nsCache, n, ns[n])
  /\ Terminate(n)
  /\ UNCHANGED <<snEvents, caches, queue, job, asked>>

(* The controllers stop at any point and start anew, or another replica    *)
(* takes over: the caches are filled first and every SubNamespace is       *)
(* queued.                                                                 *)
Restart ==
  /\ ops < MaxOps
  /\ ops' = ops + 1
  /\ nsCache' = ns
  /\ snCache' = sn
  /\ nsEvents' = NoNsEvents
  /\ snEvents' = {}
  /\ queue' = DOMAIN sn
  /\ job' = NoJob
  /\ nsJob' = NoJob
  /\ UNCHANGED <<api, asked>>

-----------------------------------------------------------------------------

Informers == SyncNs \/ SyncSn

Users ==
  \/ \E k \in Keys : CreateSubNamespace(k) \/ DeleteSubNamespace(k)
  \/ \E n \in Subs :
       \/ CreateForeignNamespace(n)
       \/ DeleteNamespace(n)
       \/ \E parent \in Names \cup {Absent}, type \in {Absent, NSTypeRoot} :
            Relabel(n, type, parent)

Kubernetes ==
  \/ \E k \in Keys : EmptyNamespace(k)
  \/ \E n \in Subs : FinalizeNamespace(n)

Next ==
  \/ Informers
  \/ \E k \in Keys : Reconcile(k)
  \/ Finalize
  \/ FinalizeDelete
  \/ RemoveFinalizer
  \/ ReconcileNS
  \/ ReconcileCreate
  \/ ApplyStatus
  \/ \E n \in Names : ReconcileNamespace(n)
  \/ ListChildren
  \/ \E c \in Subs : PropagateMeta(c)
  \/ Kubernetes
  \/ Users
  \/ Restart

(* Events are delivered, and Kubernetes cleans up.  The worker takes one   *)
(* key after the other, in the order of the queue, and goes on with what   *)
(* it has begun: a key waits while others are tried again and again, but   *)
(* not for ever.  And the cache is not for ever behind whenever the next   *)
(* Namespace is reconciled.                                                *)
Fairness ==
  /\ WF_vars(SyncNs)
  /\ SF_vars(nsJob = NoJob /\ SyncNs)
  /\ WF_vars(SyncSn)
  /\ \A k \in Keys : SF_vars(Reconcile(k)) /\ WF_vars(EmptyNamespace(k))
  /\ WF_vars(Finalize)
  /\ WF_vars(FinalizeDelete)
  /\ WF_vars(RemoveFinalizer)
  /\ WF_vars(ReconcileNS)
  /\ WF_vars(ReconcileCreate)
  /\ WF_vars(ApplyStatus)
  /\ \A n \in Subs : WF_vars(FinalizeNamespace(n))

Spec == Init /\ [][Next]_vars
FairSpec == Spec /\ Fairness

-----------------------------------------------------------------------------

(* Objects, caches, events and queue are of the right kind, and an object  *)
(* marked as deleted is one that a finalizer still holds.                  *)
TypeOK ==
  /\ IsPartialMap(ns, Names, Namespace) /\ IsPartialMap(nsCache, Names, Namespace)
  /\ IsPartialMap(sn, Keys, SubNamespace) /\ IsPartialMap(snCache, Keys, SubNamespace)
  /\ nsEvents \in [keys: SUBSET Keys, gone: SUBSET Names]
  /\ snEvents \subseteq Keys /\ queue \subseteq Keys
  /\ job \in Jobs \cup {NoJob}
  /\ nsJob \in NsJobs \cup {NoJob}
  /\ ops \in 0..MaxOps /\ asked \subseteq Names \X Names
  /\ \A k \in DOMAIN sn : sn[k].deleting => sn[k].finalizer

(* "Accurate deletes the sub-namespace if ... its parent is the same":     *)
(* no reconciliation deletes a namespace that hangs below another parent.  *)
DeletesOnlyOwn ==
  [][FinalizeDelete /\ ns' # ns => Parent(ns[job.key[2]]) = job.key[1]]_vars

(* Every SubNamespace is protected by the finalizer it was admitted with.  *)
FinalizerKept == \A k \in DOMAIN sn : sn[k].finalizer

(* A finalization in progress, from its first look to its last write, is   *)
(* that of an object that is still there and marked as deleted: what it    *)
(* deletes is not wanted any more, nor wanted again.                       *)
JobObjectDeleting ==
  job # NoJob /\ job.then \in {"finalize", "deleteNamespace", "removeFinalizer"}
    => job.key \in DOMAIN sn /\ sn[job.key].deleting

(* Whatever the caches show, and however late a label read before is       *)
(* applied or a namespace that is gone is created again: below a parent    *)
(* hangs only what a user has at some time asked to be there.              *)
OnlyWhereAsked ==
  \A n \in DOMAIN ns : Parent(ns[n]) # "" => <<Parent(ns[n]), n>> \in asked

(* No namespace is its own ancestor ("Circular references among            *)
(* sub-namespaces"): getRootNamespace would walk for ever.                 *)
NoCircle ==
  \A S \in (SUBSET DOMAIN ns) \ {{}} : \E n \in S : Parent(ns[n]) \notin S

(* Every SubNamespace that is not being deleted has a namespace, and its   *)
(* status says whether that namespace is its own.  Only one in a namespace *)
(* that has been turned into a plain one since goes without: the webhook   *)
(* for Namespaces looks for sub-namespaces there, not for SubNamespaces.   *)
Settled ==
  \A k \in DOMAIN sn :
    /\ ~sn[k].deleting
    /\ k[1] \in DOMAIN ns
    /\ Type(ns[k[1]]) = NSTypeRoot \/ Parent(ns[k[1]]) # ""
    => /\ k[2] \in DOMAIN ns
       /\ ~ns[k[2]].terminating
       /\ sn[k].status = IF Parent(ns[k[2]]) = k[1] THEN "current" ELSE "conflict"

(* When users leave the cluster alone, it settles for good.                *)
EventuallySettled == <>[]Settled

(* A SubNamespace that is being deleted goes.  Only without cascading      *)
(* deletion may it wait, for the children of its namespace.                *)
DeletionCompletes ==
  \A k \in Keys :
    (k \in DOMAIN sn /\ sn[k].deleting)
      ~> \/ k \notin DOMAIN sn
         \/ ~AllowCascadingDeletion /\ ChildrenOf(ns, k[2]) # {}
=============================================================================
