--------------------------- MODULE MetaPropagation ---------------------------
(***************************************************************************)
(* The labels that controllers/namespace_controller.go hands down from     *)
(* parents, templates and SubNamespaces.  Annotations are treated like     *)
(* labels and are not modelled apart.                                      *)
(*                                                                         *)
(* Namespaces are there from the start to the end (SubNamespaces has their *)
(* lives); users label them, move them and write SubNamespaces.  A         *)
(* reconciliation writes to the namespace itself, lists those below it and *)
(* writes to one after the other, all on what it has read of the namespace *)
(* at its begin.  As in SubNamespaces caches may lag, and a write happens  *)
(* in one step with the reads right before it.                             *)
(***************************************************************************)
EXTENDS SubNamespaceHooks, PartialMaps

CONSTANTS
  Starts,      \* what the namespaces may be at the start, when nothing is left to do
  LabelKeys,   \* patterns: the keys each of them matches
  SubNamespaceLabelKeys,
  Keys,        \* the keys of labels
  Values,      \* and their values
  StaleNs,     \* whether the cache of Namespaces may lag
  StaleSn,     \* whether the cache of SubNamespaces may lag
  MaxOps,      \* bound: how many things users do and how often Accurate restarts
  NoJob        \* the reconciler is between two reconciliations

ASSUME MaxOpsAssumption == MaxOps \in Nat
ASSUME TypesAssumption == Absent \notin {NSTypeRoot, NSTypeTemplate}
ASSUME StaleAssumption == StaleNs \in BOOLEAN /\ StaleSn \in BOOLEAN

VARIABLES
  ns,        \* the Namespaces stored by the API server
  sn,        \* the labels in the specs of the stored SubNamespaces
  nsCache,   \* the informer's copy of ns
  snCache,   \* the informer's copy of sn
  events,    \* [ns, sn]: the namespaces undelivered events of either kind are about
  queue,     \* the work queue of the reconciler
  job,       \* the reconciliation that goes on, or NoJob
  ops        \* how much users and restarts have done

vars == <<ns, sn, nsCache, snCache, events, queue, job, ops>>

(* A label and those who own the field: server-side apply keeps account.   *)
Label == [value: Values, owners: (SUBSET {"accurate", "users"}) \ {{}}]
Namespace ==
  [type: {Absent, NSTypeRoot, NSTypeTemplate}, parent: Names \cup {Absent},
   template: Names \cup {Absent}, labels: PartialMap(Keys, Label)]
Specs == PartialMap(Keys, Values)
SubNames == {k \in Names \X Names : k[1] # k[2]}

(* What is below name: to be listed, or still to be written to.            *)
Jobs ==
  [name: Names, labels: PartialMap(Keys, Label), below: {"parent", "template"},
   listed: BOOLEAN, todo: SUBSET Names]

ASSUME NoJobAssumption == NoJob \notin Jobs

Nothing == [k \in {} |-> Absent]

-----------------------------------------------------------------------------

InSync == nsCache = ns /\ snCache = sn /\ events = [ns |-> {}, sn |-> {}]
Ready ==
  /\ ~StaleNs => nsCache = ns /\ events.ns = {}
  /\ ~StaleSn => snCache = sn /\ events.sn = {}

(* Writing what is there already is no event.                              *)
WriteNs(n, new) ==
  /\ ns' = [ns EXCEPT ![n] = new]
  /\ events' = IF new = ns[n] THEN events ELSE [events EXCEPT !.ns = @ \cup {n}]
  /\ UNCHANGED sn

(* The key is looked for in the patterns of the configuration.             *)
MatchKey(key, list) == \E l \in list : key \in l

(* Mutant: a key the parent has wins over the one of the SubNamespace.     *)
WantedParentFirst(n, from, labels, isSub) ==
  LET inherited == {k \in DOMAIN labels : MatchKey(k, LabelKeys)}
      spec == IF isSub /\ <<from, n>> \in DOMAIN snCache THEN snCache[<<from, n>>] ELSE Nothing
      given == {k \in DOMAIN spec : MatchKey(k, SubNamespaceLabelKeys)}
  IN  [k \in inherited \cup given |-> IF k \in inherited THEN labels[k].value ELSE spec[k]]

(* propagateMeta: what n is to get from the namespace it is below, as far  *)
(* as the keys match, and, if it is a sub-namespace, from its SubNamespace *)
(* there, which goes first.                                                *)
Wanted(n, from, labels, isSub) ==
  LET inherited == {k \in DOMAIN labels : MatchKey(k, LabelKeys)}
      spec == IF isSub /\ <<from, n>> \in DOMAIN snCache THEN snCache[<<from, n>>] ELSE Nothing
      given == {k \in DOMAIN spec : MatchKey(k, SubNamespaceLabelKeys)}
  IN  [k \in inherited \cup given |-> IF k \in given THEN spec[k] ELSE labels[k].value]

(* Mutant: what Accurate gives up stays when nobody owns it.               *)
AppliedOrphans(old, wanted) ==
  [k \in DOMAIN old \cup DOMAIN wanted |->
     IF k \notin DOMAIN wanted THEN [old[k] EXCEPT !.owners = @ \ {"accurate"}]
     ELSE [value |-> wanted[k], owners |-> {"accurate"}]]

(* Server-side apply with ForceOwnership: what Accurate does not want any  *)
(* more goes unless users own it too; of what they want otherwise they are *)
(* owners no more.                                                         *)
Applied(old, wanted) ==
  LET staying == {k \in DOMAIN old : old[k].owners # {"accurate"}}
      shared(k) == k \in DOMAIN old /\ "users" \in old[k].owners /\ old[k].value = wanted[k]
  IN  [k \in staying \cup DOMAIN wanted |->
         IF k \notin DOMAIN wanted THEN [old[k] EXCEPT !.owners = @ \ {"accurate"}]
         ELSE [value |-> wanted[k],
               owners |-> {"accurate"} \cup IF shared(k) THEN {"users"} ELSE {}]]

(* Mutant: the parent label is applied to instances, too.                  *)
PropagatedAlwaysParent(n, from, labels, isSub) ==
  [ns[n] EXCEPT !.labels = Applied(@, Wanted(n, from, labels, isSub)), !.parent = from]

(* What n becomes when the labels of from are propagated to it.  The       *)
(* parent label is applied along with them.                                *)
Propagated(n, from, labels, isSub) ==
  [ns[n] EXCEPT !.labels = Applied(@, Wanted(n, from, labels, isSub)),
                !.parent = IF isSub THEN from ELSE @]

PropagateMeta(n, from, labels, isSub) ==
  /\ HandleUpdate(nsCache, n, Propagated(n, from, labels, isSub), ns[n])
  /\ WriteNs(n, Propagated(n, from, labels, isSub))

-----------------------------------------------------------------------------

Init ==
  /\ ns \in Starts
  /\ sn = [k \in {} |-> Nothing]
  /\ nsCache = ns
  /\ snCache = sn
  /\ events = [ns |-> {}, sn |-> {}]
  /\ queue = {}
  /\ job = NoJob
  /\ ops = 0

SyncNs ==
  /\ nsCache # ns \/ events.ns # {}
  /\ nsCache' = ns
  /\ queue' = queue \cup events.ns
  /\ events' = [events EXCEPT !.ns = {}]
  /\ UNCHANGED <<ns, sn, snCache, job, ops>>

(* The deletion of a SubNamespace is no event to this reconciler.          *)
SyncSn ==
  /\ snCache # sn \/ events.sn # {}
  /\ snCache' = sn
  /\ queue' = queue \cup events.sn
  /\ events' = [events EXCEPT !.sn = {}]
  /\ UNCHANGED <<ns, sn, nsCache, job, ops>>

-----------------------------------------------------------------------------
(* A reconciliation.  When the webhook refuses a write the queue tries the *)
(* key again: the first step waits until it can succeed.                   *)

Take(n) ==
  /\ Ready
  /\ job = NoJob
  /\ n \in queue
  /\ queue' = queue \ {n}
  /\ UNCHANGED <<nsCache, snCache, ops>>

ListBelow(n, below) ==
  [name |-> n, labels |-> nsCache[n].labels, below |-> below, listed |-> FALSE, todo |-> {}]

(* Mutant: a namespace below another does not hand on what it has got.     *)
ReconcileSubAlone(n) ==
  /\ Take(n)
  /\ nsCache[n].parent # Absent
  /\ PropagateMeta(n, nsCache[n].parent, nsCache[nsCache[n].parent].labels, TRUE)
  /\ job' = NoJob

(* reconcileSubNamespace: its own labels, then its children's.             *)
ReconcileSub(n) ==
  /\ Take(n)
  /\ nsCache[n].parent # Absent
  /\ PropagateMeta(n, nsCache[n].parent, nsCache[nsCache[n].parent].labels, TRUE)
  /\ job' = ListBelow(n, "parent")

(* reconcileInstanceNamespace, where there is a template, then             *)
(* reconcileRootNamespace or reconcileTemplateNamespace.                   *)
ReconcileTop(n) ==
  /\ Take(n)
  /\ nsCache[n].parent = Absent
  /\ IF nsCache[n].template # Absent
     THEN PropagateMeta(n, nsCache[n].template, nsCache[nsCache[n].template].labels, FALSE)
     ELSE UNCHANGED <<ns, sn, events>>
  /\ job' = CASE nsCache[n].type = NSTypeRoot -> ListBelow(n, "parent")
              [] nsCache[n].type = NSTypeTemplate -> ListBelow(n, "template")
              [] OTHER -> NoJob

Reconcile(n) == ReconcileSub(n) \/ ReconcileTop(n)

(* List, by one of the two indices.                                        *)
List ==
  /\ Ready
  /\ job # NoJob
  /\ ~job.listed
  /\ LET todo == IF job.below = "parent" THEN ChildrenOf(nsCache, job.name)
                 ELSE InstancesOf(nsCache, job.name)
     IN  job' = IF todo = {} THEN NoJob ELSE [job EXCEPT !.listed = TRUE, !.todo = todo]
  /\ UNCHANGED <<ns, sn, nsCache, snCache, events, queue, ops>>

(* A write that is refused ends the reconciliation; it is tried again.     *)
PropagateBelow ==
  /\ Ready
  /\ job # NoJob
  /\ job.listed
  /\ \E c \in job.todo :
       LET isSub == job.below = "parent"
       IN  IF HandleUpdate(nsCache, c, Propagated(c, job.name, job.labels, isSub), ns[c])
           THEN /\ PropagateMeta(c, job.name, job.labels, isSub)
                /\ job' = IF job.todo = {c} THEN NoJob ELSE [job EXCEPT !.todo = @ \ {c}]
                /\ UNCHANGED queue
           ELSE /\ queue' = queue \cup {job.name}
                /\ job' = NoJob
                /\ UNCHANGED <<ns, sn, events>>
  /\ UNCHANGED <<nsCache, snCache, ops>>

-----------------------------------------------------------------------------

Act ==
  /\ Ready
  /\ ops < MaxOps
  /\ ops' = ops + 1
  /\ UNCHANGED <<nsCache, snCache, queue, job>>

(* Writing a value makes users the owners.                                 *)
SetLabel(n, key, value) ==
  /\ Act
  /\ key \in DOMAIN ns[n].labels => ns[n].labels[key].value # value
  /\ WriteNs(n, [ns[n] EXCEPT !.labels =
                   Put(@, key, [value |-> value, owners |-> {"users"}])])

RemoveLabel(n, key) ==
  /\ Act
  /\ key \in DOMAIN ns[n].labels
  /\ WriteNs(n, [ns[n] EXCEPT !.labels = Drop(@, key)])

(* Moving, cutting and grafting; becoming an instance, or none any more.   *)
(* Only templates are made templates of others, a sub-namespace does not   *)
(* become an instance in one step, and the request would be admitted on    *)
(* what is stored, too (NamespaceTree has the others).                     *)
Relabel(n, type, parent, template) ==
  LET new == [ns[n] EXCEPT !.type = type, !.parent = parent, !.template = template]
  IN  /\ Act
      /\ new # ns[n]
      /\ template # Absent => ns[template].type = NSTypeTemplate /\ ns[n].parent = Absent
      /\ \A view \in {ns, nsCache} : HandleUpdate(view, n, new, ns[n])
      /\ WriteNs(n, new)

(* SetupWithManager: the event is about the namespace of the same name.    *)
WriteSubNamespace(k, spec) ==
  /\ Act
  /\ IF k \in DOMAIN sn THEN sn[k] # spec ELSE AdmitsCreate(nsCache, k)
  /\ sn' = Put(sn, k, spec)
  /\ events' = [events EXCEPT !.sn = @ \cup {k[2]}]
  /\ UNCHANGED ns

(* The finalizer keeps a SubNamespace whose namespace is there and is its  *)
(* own; that one would be deleted first.                                   *)
DeleteSubNamespace(k) ==
  /\ Act
  /\ k \in DOMAIN sn
  /\ Parent(ns[k[2]]) # k[1]
  /\ AdmitsDelete(nsCache, k)
  /\ sn' = Drop(sn, k)
  /\ UNCHANGED <<ns, events>>

Restart ==
  /\ ops < MaxOps
  /\ ops' = ops + 1
  /\ nsCache' = ns
  /\ snCache' = sn
  /\ events' = [ns |-> {}, sn |-> {}]
  /\ queue' = Names
  /\ job' = NoJob
  /\ UNCHANGED <<ns, sn>>

Users ==
  \/ \E n \in Names :
       \/ \E key \in Keys : RemoveLabel(n, key) \/ \E v \in Values : SetLabel(n, key, v)
       \/ \E type \in {Absent, NSTypeRoot, NSTypeTemplate}, parent, template \in Names \cup {Absent} :
            Relabel(n, type, parent, template)
  \/ \E k \in SubNames : DeleteSubNamespace(k) \/ \E spec \in Specs : WriteSubNamespace(k, spec)

Next ==
  \/ SyncNs
  \/ SyncSn
  \/ \E n \in Names : Reconcile(n)
  \/ List
  \/ PropagateBelow
  \/ Users
  \/ Restart

Fairness ==
  /\ WF_vars(SyncNs)
  /\ WF_vars(SyncSn)
  /\ \A n \in Names : WF_vars(Reconcile(n))
  /\ WF_vars(List)
  /\ WF_vars(PropagateBelow)

Spec == Init /\ [][Next]_vars
FairSpec == Spec /\ Fairness

-----------------------------------------------------------------------------

(* Namespaces, SubNamespaces, caches and jobs are of the right kind.       *)
TypeOK ==
  /\ ns \in [Names -> Namespace] /\ nsCache \in [Names -> Namespace]
  /\ \A f \in {sn, snCache} : DOMAIN f \subseteq SubNames /\ \A k \in DOMAIN f : f[k] \in Specs
  /\ events \in [ns: SUBSET Names, sn: SUBSET Names]
  /\ queue \subseteq Names
  /\ job \in Jobs \cup {NoJob}
  /\ ops \in 0..MaxOps

AtRest == InSync /\ queue = {} /\ job = NoJob

(* The namespace that hands its labels down to n, or Absent.               *)
Source(view, n) == IF view[n].parent # Absent THEN view[n].parent ELSE view[n].template

Given(view, specs, n, key) ==
  /\ view[n].parent # Absent
  /\ <<view[n].parent, n>> \in DOMAIN specs
  /\ key \in DOMAIN specs[<<view[n].parent, n>>]
  /\ \E l \in SubNamespaceLabelKeys : key \in l

Inherited(view, n, key) ==
  /\ key \in DOMAIN view[Source(view, n)].labels
  /\ \E l \in LabelKeys : key \in l

(* n has what it is to have, and Accurate keeps nothing else there.        *)
InPlace(view, specs, n) ==
  \A key \in Keys :
    LET labels == view[n].labels
    IN  IF Given(view, specs, n, key)
        THEN key \in DOMAIN labels /\ labels[key].value = specs[<<view[n].parent, n>>][key]
        ELSE IF Inherited(view, n, key)
        THEN key \in DOMAIN labels /\ labels[key].value = view[Source(view, n)].labels[key].value
        ELSE key \in DOMAIN labels => "accurate" \notin labels[key].owners

Below(view) == {n \in Names : Source(view, n) # Absent}

(* Who hangs below another is labelled for nothing else, and the other is  *)
(* labelled for having somebody below it.                                  *)
Rightful(view) ==
  \A n \in Names :
    /\ view[n].parent # Absent =>
         /\ view[n].type = Absent /\ view[n].template = Absent
         /\ \/ view[view[n].parent].type = NSTypeRoot
            \/ view[view[n].parent].parent # Absent
    /\ view[n].template # Absent => view[view[n].template].type = NSTypeTemplate

ASSUME StartsAssumption ==
  \A start \in Starts :
    /\ start \in [Names -> Namespace]
    /\ Rightful(start)
    /\ \A n \in Below(start) : InPlace(start, Nothing, n)

(* "Accurate should propagate labels and/or annotations from the parent    *)
(* namespace", to its sub-namespaces, and to those that reference it as a  *)
(* template: when the reconciler rests every namespace below another has   *)
(* the labels it is to have, however it came there and whoever changed     *)
(* them, and Accurate keeps no others there.                               *)
LabelsInPlace == AtRest => \A n \in Below(ns) : InPlace(ns, sn, n)

(* "Admins can change the parent namespace of a sub-namespace": nobody     *)
(* else does.  Accurate only repeats a parent label, it never writes one.  *)
OnlyUsersMove == [][\A n \in Names : ns'[n].parent # ns[n].parent => ops' # ops]_vars

(* No two writes of the reconciler go on provoking each other: when users  *)
(* rest it comes to rest, too.                                             *)
ComesToRest == <>[]AtRest

=============================================================================
