# Accurate in TLA+

Accurate (`cybozu-go/accurate`) gives a Kubernetes cluster namespaces that hang
below each other.  A *root* namespace may have *sub-namespaces*; a
*template* namespace may have *instances*.  Resources, labels and annotations
of a namespace are propagated to the namespaces below it.  Users ask for a
sub-namespace with a `SubNamespace` object.

This directory holds a formal model of Accurate: TLA+ modules translated from
`src/`, TLC configurations that check them on small clusters, and theorems
proved with TLAPS for clusters of any size.

Contents: [parts of the system](#the-parts-of-the-system),
[modules](#modules-and-code), [fairness](#fairness), [runs](#runs),
[counterexamples](#what-the-code-does-not-keep), [proofs](#proofs),
[limits](#what-is-left-out), [plan](#plan), [how to run](#how-to-run).

## The parts of the system

Everything Accurate knows is in the API server: labels of `Namespace`s,
`SubNamespace` objects, and annotations of propagated resources.  Its own
processes hold nothing that outlives them; they hold *informer caches* that lag
behind the API server, *work queues* filled from watch events, and the local
variables of the reconciliation in progress.  That is where the hard behaviour
comes from: every decision is made on a cached view, every write is a request
of its own, and other controllers and users write in between.

| Part | Code | State | Operations | Interacts with |
|---|---|---|---|---|
| Namespace webhook | `hooks/namespace.go` | none; reads the manager's cache | admit or refuse create, update, delete | asked by the API server about every Namespace request, also those of Accurate itself |
| SubNamespace webhooks | `hooks/subnamespace.go` | none; reads the cache | add the finalizer; admit or refuse create, update, delete; naming policies | as above, for SubNamespaces |
| SubNamespace reconciler | `controllers/subnamespace_controller.go` | work queue; one reconciliation at a time | create the namespace, report `current` or `conflict`, delete the namespace, remove the finalizer | events of SubNamespaces and (by `nsHandler`) of Namespaces; the Namespace webhook refuses or admits its writes |
| Namespace reconciler | `controllers/namespace_controller.go` | work queue | propagate labels and annotations (`propagateMeta`), propagate resources into a namespace, sweep stale copies | events of Namespaces; reads parents, writes children |
| Propagate controller | `controllers/propagate.go` | one work queue per resource kind | propagate a resource to the children of its namespace, re-create or remove copies | events of the resource; shares the copies with the Namespace reconciler without knowing of it |
| Indices | `pkg/indexing` | part of the cache | namespaces by parent, by template; SubNamespaces by name; resources by mode | read by all of the above |
| Configuration | `pkg/config`, `pkg/feature` | read once at start | validation | gives keys, kinds, policies to the others |
| API types, conversion | `api/accurate` | none | conversion between v1, v2alpha1 and v2 | the API server's conversion webhook |
| `kubectl accurate` | `cmd/kubectl-accurate` | none | create, delete, move, cut, graft, set-type, set and unset template: sequences of requests | API server only |
| Controller process | `cmd/accurate-controller` | none | start, leader election, wiring | starts all controllers |

What would make each part correct (what the code keeps of it, and under which
conditions, is what the [runs](#runs), the [counterexamples](#what-the-code-does-not-keep)
and the [proofs](#proofs) say):

* **Namespace webhook** - the labels always draw a forest: no namespace is its
  own ancestor, none outlives its parent or template, whoever has dependants has
  the right to (and nobody makes it lose that right meanwhile).
* **SubNamespace webhooks and reconciler** - a sub-namespace exists exactly
  while a SubNamespace asks for it; nothing that belongs to somebody else is
  deleted, moved or taken over; an object never goes before its namespace is
  going; every object ends with its namespace or with the status that says why
  not; every deletion comes to an end.
* **Propagation** - a copy is in every place it should be, in no other, and like
  its original; what a user made is not touched; the two controllers do not
  undo each other's work for ever.
* **Conversion** - nothing that one version can say is lost on the way to
  another and back.
* **`kubectl accurate`** - a command that fails half-way leaves something it, or
  another command, can repair.

The hard behaviours, with the line where each bites, are listed under
`hazards` in `PROJECT.json`.  In one sentence each: decisions on stale caches;
deletes and patches by name, without UID or resource version; two writes of one
reconciliation with a crash, or another actor, in between; lists of children
that are used after the children have moved; loops over children that end at
the first one that fails; events that are filtered or arrive merged; objects
that are deleted and created anew under the same name; wake-ups that only one
handler can give; deletions that wait for each other.

## Modules and code

```
Forest                 what the hierarchy promises         ForestProofs
NamespaceHooks         the Namespace webhook, predicates
  NamespaceTree        webhook + API server                MCNamespaceTree
    (implements Forest)
    TreeCommands       ... + commands that set labels,     NamespaceTreeProofs
                       listings
  SubNamespaceHooks    the SubNamespace webhooks
    SubNamespaces      reconciler + webhooks + caches      SubNamespacesProofs, MCSubNamespaces
      Kubectl          ... + commands of several requests  KubectlProofs, MCKubectl
    MetaPropagation    labels handed down + webhooks       MetaPropagationProofs, MCMetaPropagation
                       + caches
  Propagation          two controllers + caches            PropagationProofs, MCPropagation
Conversion             the three versions of the API       ConversionProofs, MCConversion
PartialMaps            objects by key                      PartialMapsProofs
```

**NamespaceHooks** turns the handlers of `hooks/namespace.go` into predicates on
a *view* (a function from names to namespaces, what somebody's cache shows).
Presence and value of a label are kept apart, as in the code: `Absent` is a
missing key, `""` a key without a value, and `Value` is what indexing a Go map
gives.  The loop at the top of `handleUpdate` that walks up to the root is the
existence of the set of names it visits; that makes it usable in proofs, where
a recursion is not.

**NamespaceTree** puts these predicates in front of an API server.  `api` is
what is stored, `past` the last `MaxLag` states of it.  `CreateNamespace`,
`UpdateLabels` and `DeleteNamespace` are requests, decided on any of these
views; `FinalizeNamespace` is Kubernetes dropping a terminating namespace,
which asks no webhook.  The webhook leaves some bad requests to the sense of
whoever sends them: `Discipline` says which of three kinds of them are not sent
(see [counterexamples](#what-the-code-does-not-keep) for what happens when they
are).

**TreeCommands** adds the commands that send one update (`SetType`,
`TemplateSet`, `TemplateUnset`; each is an `UpdateLabels` with the labels the command
writes) and what `list` and `template list` print of the tree.  A printed line
is the path of names from its top: two lines for the same namespace are two
paths, and a recursion that does not end is a path longer than there are
namespaces.

**Forest** is the promise without labels and webhooks: `Plant`, `Move`, `Fell`.
`NamespaceTree!ImplementsForest` is the refinement.

**SubNamespaces** is the life of the SubNamespace objects:

| Model | Code |
|---|---|
| `ns`, `sn` | Namespaces and SubNamespaces in the API server |
| `nsCache`, `snCache`, `nsEvents`, `snEvents`, `SyncNs`, `SyncSn` | informers: a cache is brought up to date as a whole, events of all writes since arrive together |
| `WriteNs`'s events | `nsHandler` and the predicate of `SetupWithManager` |
| `queue` | the work queue |
| `job`, `Reconcile`, `Finalize`, `FinalizeDelete`, `RemoveFinalizer`, `ReconcileNS`, `ReconcileCreate`, `ApplyStatus` | a reconciliation of a SubNamespace: the look at the object, the look at its namespace, and each write, one after the other |
| `nsJob`, `ReconcileNamespace`, `ListChildren`, `PropagateMeta` | a reconciliation of a Namespace, as far as parent labels go: its own label is applied to it, its children are listed once from the cache, and the label is applied to one after the other, by name and by force |
| `EmptyNamespace`, `FinalizeNamespace` | Kubernetes (external) |
| `CreateSubNamespace`, `DeleteSubNamespace`, `CreateForeignNamespace`, `Relabel`, `DeleteNamespace` | users, also through `kubectl accurate`, one request at a time |
| `Restart` | the process ends anywhere and starts anew, or another replica takes over |
| `asked` | no state of the code: the history of where users have asked namespaces to be |

Every read and every write of either reconciliation is a step of its own.  So
even where no cache lags anything may happen between a look and the write it
leads to, between two writes, and between the list of the children and each
label applied to them: a child that has left is moved back, one that is gone is
created again.  A write that is refused ends the reconciliation and puts the key
back into the queue; that of a Namespace just ends, since the next one may begin at any time.

**Kubectl** runs `sub create`, `delete`, `move`, `cut` and `graft` as sequences of
requests among all actions of SubNamespaces, one command after the other.  `cmd`
holds the arguments, what the command has read, and the request that is next;
`Interrupted` ends it before any of them.  A get and the update that follows are one
step (the update carries the resource version); every later request, `GetOriginal`,
`DeleteOriginal`, `CreateNew`, is its own.  `alone` remembers whether somebody else
has done something since the command began: what a command promises it promises only
then.  Each write of a command is an act that counts towards `MaxOps`, and once `MaxOthers` acts
have been done only commands do more.

**MetaPropagation** hands labels down in a cluster whose namespaces stay:

| Model | Code |
|---|---|
| `ns`, with `Label`'s `owners` | labels and the managed fields of server-side apply |
| `sn` | the labels in the specs of SubNamespaces |
| `Wanted`, `MatchKey` | the maps `propagateMeta` builds |
| `Applied`, `Propagated`, `PropagateMeta` | `Apply` with `ForceOwnership`, decided on by the webhook |
| `ReconcileSub`, `ReconcileTop` | `reconcile` up to the write to the namespace itself |
| `List`, `PropagateBelow`, `job` | the list of children or instances and the loop over them |
| `SyncNs`, `SyncSn` | `SetupWithManager`: writes to either kind wake up the namespace, the deletion of a SubNamespace does not |
| `SetLabel`, `RemoveLabel`, `Relabel`, `WriteSubNamespace`, `DeleteSubNamespace` | users |

SubNamespaces has the same loop (`ListChildren` and `PropagateMeta` there) over
namespaces that come and go, but only the parent label, and neither the owners of labels
nor the specs of SubNamespaces.

**Conversion** is one SubNamespace, stored as v2, read as v1 or v2alpha1, edited and
written back, while the controller reports on it and others add conditions and
annotations.  A text in an annotation is a number, a list of conditions, or neither:
`IsInt` and `IsConditions` are what parsing accepts.

**Propagation** has one resource kind and one name, so a namespace has at most
one resource: others are handled independently in the code.  A resource is
its `from` and `mode` annotations and the set of its fields that are set.

| Model | Code |
|---|---|
| `ReconcileObj` = `HandleDelete...`, `DeleteOrphan`, `FollowParent`, `HandOn` | `PropagateController.Reconcile` up to its loop over children |
| `objJob`, `SkipChild`, `CreateCopy`, `ApplyCopy`, `DeleteCopy` | the loops of `propagateCreate`, `propagateUpdate`, `handleDelete`, child by child |
| `Watched` | the event filter of `SetupWithManager` |
| `ReconcileNs` = `IgnoreNs`, `BeginPropagate`, `DeletePropagated` | `NamespaceReconciler.reconcile` |
| `nsJob`, `PropagateCreatePhase`, `PropagateUpdatePhase`, `SweepPhase` | the three looks of `propagateResource` |
| `Clone`, `Derives`, `Apply` | `cloneResource`, `equality.Semantic.DeepDerivative`, server-side apply |
| `Relabel`, `DeleteNamespace`, `CreateResource`, `EditResource`, `DeleteResource` | users |

The order of the children of a loop is a free choice, as the order of a cached
list is.  A server-side apply keeps or drops a field it does not name, depending on who
owns it: the model allows both.  `given` is no state of the code: it remembers
which modes users have given to the resource so far, and only `NoStaleCopies` reads it.

**PartialMaps** has `Put` and `Drop` on functions whose domain is the set of
objects that are there.  The **MC** modules only name small sets.

## Fairness

`FairSpec` of SubNamespaces, Propagation and MetaPropagation, and `KFairSpec` of
Kubectl, assume weak fairness, for each action separately, of

* the informers (`SyncNs`, `SyncSn`, `SyncObj`): a watch that is behind catches up;
* each key's reconciliation (`Reconcile(k)`, `Reconcile(n)`, `ReconcileObj(n)`, `ReconcileNs(n)`):
  the work queue of controller-runtime is first in, first out, so a worker gets
  to every key;
* what a reconciliation that has begun does next (`Finalize`, `FinalizeDelete`, `RemoveFinalizer`,
  `ReconcileNS`, `ReconcileCreate`, `ApplyStatus`; `CopyStep`, `PropagateStep`; `List`,
  `PropagateBelow`): it is one thread of execution;
* Kubernetes' namespace controller (`EmptyNamespace`, `FinalizeNamespace`).

SubNamespaces, and with it Kubectl, needs more in two places:

* Strong fairness of `Reconcile(k)`.  The one worker is busy again and again with
  other keys, some of which are tried over and over, so that no key can be
  taken all the time; the queue still gets to each.
* Strong fairness of `nsJob = NoJob /\ SyncNs`: whenever the reconciliations of
  Namespaces go on for ever, then at times the cache is brought up to date between two of them.
  Without it a sub-namespace that was moved never comes to rest: each reconciliation
  begins with a cache that is one write behind and applies the older of two
  parents, and the next, which sees that write and not the one after, applies the newer (TLC finds this
  loop in `sub_settles` when the assumption is taken away).  Every write wakes its
  own namespace up, and a watch is not one write behind for ever.

Nothing is assumed of users, of restarts, of the commands of Kubectl (they may be
interrupted at any time), or of the Namespace reconciler in SubNamespaces (`ReconcileNamespace`,
`ListChildren`, `PropagateMeta`: it is only a disturbance for the properties there).
Users and restarts are bounded by `MaxOps`, so every behaviour has a last one: that is the "once users
leave the cluster alone" of the liveness properties.

## Runs

A run's configuration says how large the cluster is, whether caches lag, and
what users may do.  Runs that lag and runs that do not ask different questions:
safety that is promised but rests on a fresh cache is checked with fresh caches,
and the counterexamples with lagging ones are runs of their own.

| Run | States | What it shows |
|---|---|---|
| `tree_fresh` | 17 thousand (up to symmetry) | Three namespaces with every combination of labels, empty values included, and the commands that set them.  Requests are decided one at a time and sent with care: every promise in the comment of the webhook holds (`NoDanglingSub`, `NoDanglingInstance`, `Acyclic`, `ParentsAreRootOrSub`, `TemplatesAreTemplates`, `NobodyBelowTerminating`), every step is one of `Forest` (`ImplementsForest`), and the listings print each tree once (`ListShowsTree`, `TemplateListShowsTree`) |
| `tree_revert_in_one_step` | - | finding: `NoRevertWithChildren` |
| `kubectl` | 412 thousand | Two roots that two SubNamespaces of the same name compete in; four acts of users and restarts, of which at most two are no commands; commands interrupted anywhere, conflicts, moves, cuts, grafts, deletions.  With fresh caches and careful users: `FinalizerKept` and `JobObjectDeleting` over every step of a finalization, `MovesKeepNamespace` and `PromisesKept` of the commands, whatever both reconcilers do between their requests |
| `sub_settles` | 100 thousand | Two levels of sub-namespaces, cascading deletion, a cache of Namespaces that lags, users who do anything, a Namespace reconciler that moves back and creates again what it has listed before.  No wake-up is lost: `EventuallySettled`; every deletion ends, also that of a SubNamespace whose namespace has children: `DeletionCompletes`; and for all that nothing ends up where nobody has asked for it: `OnlyWhereAsked` |
| `sub_foreign_deleted` | - | finding: `DeletesOnlyOwn` with a lagging cache of Namespaces |
| `sub_circle` | - | finding: `NoCircle`, with fresh caches and careful users |
| `prop_fresh` | 613 thousand | A chain of three, two roots of which one has a sub-namespace, and a template with an instance that is a root.  Fresh caches, namespaces relabelled at rest: `CopiesInPlace`, `NoStaleCopies`, `OriginsKept`, `ComesToRest` |
| `prop_lagging` | 360 thousand | Caches lag, users do everything at any time, namespaces are deleted: `ComesToRest` |
| `prop_sibling_skipped` | - | finding: `CopiesInPlace`, a terminating sibling |
| `meta` | 344 thousand | Two roots, one with a sub-namespace; three acts of users, anywhere between the steps of a reconciliation: labels set, changed and removed, namespaces moved, cut, grafted and made templates or instances, SubNamespaces with labels of their own.  Fresh caches: `LabelsInPlace`, `ComesToRest` |
| `meta_moved_back` | - | finding: `OnlyUsersMove`, with fresh caches |
| `conversion` | 534 thousand | One object, two generations of its spec, two types of conditions, users who write into the annotations the conversion writes to: `RoundTrip`, `EditsOnly`, `NewSpecNotYetOK` |

**Bounds.**  *Names*: three namespaces are the fewest in which a move can close a
circle that is longer than the webhook's own comparison (`parent # name`), a
copy or a label can be handed on, and an original can be out of sight of a copy of a copy.
Four are needed for `NoRevertWithChildren`, where the template is one more.  Two
keys with the same name are the fewest that can conflict.  *MaxOps*: every
finding takes two to five acts of users; the passing runs allow three or four.
In `kubectl` they are four: enough to create a sub-namespace and move it (three writes, the longest
command), or to cut it and graft it or create it anew, before any of it has come to rest.
(*MaxOthers*: two, so that somebody else has prepared the ground, or disturbs, or Accurate restarts,
and a command of two writes still follows.)  In the other modules three are enough for a namespace to be moved below one that was moved
itself, and for the labels of the one it came from to change.
*MaxLag* of NamespaceTree is 0 in both runs (1 is enough for a circle, below).
The caches of the other modules lag without a bound: they are synchronised
at any later time or never, but always as a whole.  *Fields*: one that may be set
or not, so an original and its copy can differ in both directions.  *Keys* of labels: one, that
both patterns match, because keys are handled one by one and a key that only one
pattern matches is a simpler case; *Values*: two, the fewest that can differ.
*MaxGeneration*: two, a spec that was reconciled and one that was not.

Deadlock is checked in the two `tree_` runs and in `conversion`, where some
request is always possible.  The other systems come to rest when users do, so it is not checked
there; that they rest only where they should is what the liveness properties say.

`PROJECT.json` has a *mutant* for every property of every passing run: an
operator with a plausible bug (a guard dropped, one annotation taken for another,
a wake-up forgotten, a command that ends early) that makes the property fail in that run.  Mutants stand
next to what they mutate, with a comment that names the bug.

## What the code does not keep

The five runs that end in a violation are disagreements between the code and what
its comments, documentation or tests say:

1. **A sub-namespace with children becomes a plain instance**
   (`tree_revert_in_one_step`, `hooks/namespace.go:166`): the check for children is
   made only if neither the parent nor the template label has a value.
   Replacing one by the other in a single update passes.
2. **`finalize` deletes another parent's namespace** (`sub_foreign_deleted`,
   `controllers/subnamespace_controller.go:85`): the parent label is compared in the
   cache, the delete goes by name.  `kubectl accurate sub move` is such a
   sequence: it changes the label and deletes the old SubNamespace right after
   (`kubectl` with `StaleNs = TRUE` violates `MovesKeepNamespace`).  With fresh caches
   the same happens if the namespace is moved between the look of `finalize` and its delete, or if a
   loop that has listed it before moves it then (`kubectl` with `DeletesOnlyOwn` as a property,
   even with careful users).
3. **A circle with fresh caches** (`sub_circle`,
   `controllers/subnamespace_controller.go:133`): a SubNamespace in `s1` bears the name
   of `s1`'s own parent `s2`.  That is a conflict as long as `s2` is there.  When
   `s2` is dropped (it was deleted just before `s1` was created below it) the
   reconciler creates `s2` again, below `s1`, which still hangs below `s2`;
   `handleCreate` does not walk up.  `getRootNamespace` does not return from such a
   circle.
4. **Siblings of a terminating namespace get no copy** (`prop_sibling_skipped`,
   `controllers/propagate.go:267`): the loop returns instead of going on.
5. **A move is undone with fresh caches** (`meta_moved_back`,
   `controllers/namespace_controller.go:317`): the reconciliation of a parent lists its children,
   an administrator moves one of them, and the loop applies the old parent label by
   name and by force.  The webhook sees a legal move.  When the namespace is moved by
   `kubectl accurate sub move`, the SubNamespace in the old parent is deleted next, and its finalization
   deletes the namespace, which is below the old parent again: `kubectl` with
   `Careful = FALSE` violates `MovesKeepNamespace` and `PromisesKept`.

More counterexamples come out of the same modules by changing a constant of a
configuration.  They are no runs of the project, because nothing in the
repository says that these things do not happen, or because a run shows the same
cause already:

| Change | Violates | What happens |
|---|---|---|
| `tree_fresh`, `MaxLag = 1` | `Acyclic` | two moves are decided on the same old view |
| `tree_fresh`, `AllowCascadingDeletion = TRUE` | `Acyclic` | children outlive a cascading deletion and wait below a name; it is created anew below one of them (`namespace.go:91` compares with the direct parent only) |
| `tree_fresh`, four names, no blanks, `RootOrTemplate`, `AllButLive` | `NoDanglingSub` | a namespace is admitted below a terminating parent |
| `tree_fresh`, four names, no blanks, `RootOrTemplate`, `AllButTemplate` | `NoDanglingInstance` | `checkParent` takes any sub-namespace for a template (`namespace.go:83`), while `handleDelete` looks for its children, not for its instances |
| `kubectl`, with the promise of `sub delete` ("After that, Accurate will delete `NAME` namespace", `docs/kubectl-accurate.md`) added to `Kept` | `PromisesKept` | with fresh caches and careful users: a loop over children has listed the namespace; it is deleted, finalized and dropped; the loop's server-side apply creates it again (`namespace_controller.go:131`).  It stays, without a SubNamespace |
| `kubectl`, `StaleNs = TRUE` | (the same) | `finalize` does not see the namespace that was created just before, and removes the finalizer |
| `kubectl`, `StaleSn = TRUE` | `FinalizerKept` | the patch that removes the finalizer goes by name, without UID (`subnamespace_controller.go:115`): a new SubNamespace of the same name loses it |
| `kubectl`, `StaleSn = TRUE` | `JobObjectDeleting` | the deletion timestamp that `finalize` goes by is that of an earlier object of the same name |
| `kubectl`, `Careful = FALSE` | `MovesKeepNamespace` | see 5; or a namespace is moved or grafted to below a parent where a SubNamespace of that name is still being deleted (as after it was cut from there), and that deletion takes the namespace with it |
| `kubectl`, `SPECIFICATION KSpec` | `MoveNeedsNoOriginal` (as an invariant) | `sub move` fails after it has changed the label if the original SubNamespace is missing (`sub_move.go:88`), though its help says it "will be deleted if exists" (`sub_move.go:34`); a second try says that the parent is not changed, and no SubNamespace is made |
| `prop_fresh`, `Careless = TRUE` | `CopiesInPlace` | a resource without annotations was in the way of a copy; its deletion does not pass the event filter |
| `prop_fresh`, `Careless = TRUE` | `NoStaleCopies` | the mode of a kept copy is changed to `update` |
| `prop_fresh`, `Stale = TRUE` | `CopiesInPlace` | the old parent's controller, with a list of children from before the move, overwrites the copy of the new parent after the Namespace reconciler has looked at it |
| `prop_fresh`, `AnyTime = TRUE` | `NoStaleCopies` | a child leaves while its parent's loop over the children goes on (`propagate.go:297`): the copy it gets then stays until the namespace changes or the controller restarts |
| `prop_fresh`, `Stale = TRUE`, `AnyTime = TRUE`, no fields, `SubTrees`, `MaxOps = 4` | `OriginsKept` | a namespace was cut off since the children were listed; the server-side apply overwrites what its user made |
| `meta`, `StaleSn = TRUE` | `LabelsInPlace` | the deletion of a SubNamespace is no event to the Namespace reconciler (`namespace_controller.go:389-401`); if it reconciles before its cache shows the deletion, the label from the spec stays |
| `meta`, `StaleNs = TRUE` | `ComesToRest` | a sub-namespace is moved to another root and the one it came from is no root any more; the loop of the old parent's reconciliation, admitted on the webhook's old view, moves it back below what is no root, and every write to it is refused, and tried again, from then on |

`NamespaceTree!Disciplined` and the constant `Careful` of SubNamespaces are
therefore assumptions about users that the documentation does not state.  A careful user relabels
no namespace while a SubNamespace of its name is being deleted, hangs none below a parent that is
terminating, and moves none that a loop over children has listed and not yet come to.  The first two
can be seen with `kubectl get`; the third cannot be seen by any user: it makes `kubectl` a run about
what the controllers and commands keep *outside* of the window of 5, inside of which they do
not keep it.  Freshness of the caches, too, is an assumption that a cluster does not always meet.  What holds
without them is listed under [proofs](#proofs) and in the runs with lagging
caches.

Observations that are no violations of a run:

* A field removed from an original stays in its copies (`DeepDerivative` compares
  what is set in the original, `propagate.go:286` and `:324`), so `CopiesInPlace` asks
  only for the fields that are set.
* If two namespaces are each other's parent (possible through 3 or a lagging webhook)
  the two controllers delete and re-create each other's copies for ever.
* `docs/design.md:45` says that deletions of labels and annotations "will not be
  propagated".  They are: a server-side apply removes what it does not name any more, unless
  somebody else owns it too, and `controllers/namespace_controller_test.go` expects it.
  `LabelsInPlace` asks for what the code and its tests do.
* A copy `mode=create` stays behind when its namespace is moved, as it should, and keeps
  the name of the namespace it came from.  When the resource there is then changed to
  `mode=update`, the next reconciliation of the copy (it is edited, or the controller
  restarts) trusts that name (`propagate.go:120`) without asking whether the namespace still hangs
  below it, and turns the copy into one `mode=update` of a namespace that is not the
  parent, which `docs/reconcile.md` says is deleted.  It is not, until its namespace
  changes.  `NoStaleCopies` therefore speaks of copies from elsewhere only while users have given
  the resource one mode; without that condition `TwoRoots` and `MaxOps = 4` violate it.
* `prop_fresh` has an up-to-date cache of resources, so the sweep of the Namespace reconciler
  (`namespace_controller.go:200`) never takes a copy just written for the new parent for a stale one in it.
  With a lagging cache it does; `prop_lagging` then shows only that the controllers come to rest,
  not that the copy is in place.
* After a namespace is cut, or its template label is taken away, the labels it was
  handed stay: it hangs below nobody, and nobody applies anything to it.  `LabelsInPlace` is
  about namespaces below others.
* A sub-namespace that is a template for others (the webhook admits it, see
  `AllButTemplate` above) hands no labels to them: `reconcileSubNamespace` looks for children only.
* After 1 the children hang below a namespace that may not have any: every write to
  their labels is refused and tried again for ever.  `Relabel` of MetaPropagation leaves
  that request out.

## Proofs

Every theorem is checked by TLAPS for any set of namespaces and any number of
user actions.

**ForestProofs.** `ForestIsAlwaysForest`: planting, moving to a place that is
clear of the moved namespace, and felling a leaf keep the forest.  A circle after
a move would contain the moved namespace, and then all of the chain above the new
place lies in it, which is clear of it.

**NamespaceTreeProofs.**

* `TypeCorrect` (any lag, any settings, any requests).
* `AlwaysWellFormed` under `Orderly`: `MaxLag = 0`, all three disciplines,
  `AllowCascadingDeletion = FALSE`.  The inductive invariant `WellFormed` is the
  conjunction of everything `tree_fresh` checks, and no part is inductive alone:
  deleting a namespace leaves nothing dangling because nothing hangs below what
  terminates (Kubernetes drops it without asking anybody); `handleDelete` and
  `handleUpdate` look at one kind of dependants, chosen by the type label, which
  suffices only while whoever has dependants is labelled for them; a new
  namespace closes no circle because nobody refers to a name that is not there.
* `TreeImplementsForest`: under the same assumptions each request is a step of
  Forest; the set that `WalksToTop` visits is the set that `ClearOf` asks for.
  With `ForestIsAlwaysForest` this gives `NoCircleNothingDangles` (`Acyclic`,
  `NoDanglingSub`, `NoDanglingInstance`), and `DependantsKeepTheirSupport` is the rest.
* `CommandsAreRequests`: `CommandSpec` implies `Spec`, for any settings, so everything above holds
  with the commands, too (`CommandsKeepForest`).
* `ListsShowTrees` (`ListShowsTree` and `TemplateListShowsTree`), under `Orderly` and for a finite set of
  names.  `Lines` is a recursive function of the depth, and the library's induction theorems cannot be used here,
  so the proof compares it with a definition without recursion: the `Paths` of each length
  satisfy the same equation, and two functions that satisfy it agree, by the least depth
  at which they would not (`OneSolution`, `LinesArePaths`).  Every namespace that should be printed ends a path,
  or those that do not would be a circle (`EveryoneIsReached`); it ends no second one, because it has one
  parent (`OneWay`); and no path visits a namespace twice, so none is longer than there are
  namespaces (`WaysAreShort`).

**SubNamespacesProofs.**

* `TypeCorrect` (any lag): everything stored, cached, queued and in progress is of the right
  kind, and what is marked as deleted still has its finalizer.
* `NothingUnasked` (any lag, any user): `OnlyWhereAsked`, below a parent hangs only what
  a user has at some time asked to be there, with a SubNamespace or a label.  The controllers write by name what they
  have read, perhaps long ago, so the invariant `AskedInvariant` says the same of everything they
  can have read: what is stored, what the cache shows, the SubNamespaces, the key in
  progress, and every pair of label and namespace that the loop over children has still to write.
* `FinalizerKeptWhenFresh` (`StaleSn = FALSE`, the cache of Namespaces may lag, users do anything).
  A finalization looks at the object, at the namespace, deletes the one and patches the
  other, four steps with anything in between.  The inductive invariant is both properties
  together: `JobObjectDeleting`, from the first look to the last write the object is there and marked as
  deleted, and `FinalizerKept`.  The first holds on because nothing but this job's own patch drops
  an object that has its finalizer, which is the second; and the second because
  the patch finds a deleted object, which is the first.

**KubectlProofs.** Every request of a command is one that a user may send anyway
(`CommandsAreRequests`: `KSpec` implies the `Spec` of SubNamespaces), so the theorems about
SubNamespaces carry over: `CommandsBringNothingUnasked` and, with `StaleSn = FALSE`,
`CommandsKeepFinalizers`.  `KTypeCorrect` adds the command itself.

`MovesKeepNamespaceWhenFresh` (both caches up to date, careful users, no cascading
deletion: the constants of the run) is about the commands' own promise: a `move`, `cut` or `graft` that nobody
interferes with loses no namespace, ended early or not.  The danger is the deletion of the original SubNamespace,
whose finalization deletes a namespace that is below it.  The inductive invariant
`HeldInv` says, from the command's first write on, why none will (`Held`).  It has two parts.
`Stands`: the namespace is there and not going, it does not hang below its original parent any more, its
present parent is there, not going and rightly a parent, and the object of its name there, if
there is one, is not on its way out.  `NobodyAfter`: no finalization is about to delete it, and the loop over children,
if it still has to come to it, has only its present parent's label for it.
The SubNamespace reconciler keeps this up because a finalization that begins is of an object on its way out,
so not of the one in the present parent, and no other is about to delete it; it deletes no parent
either, because the webhook refuses to delete one that has children (`HeldThroughFinalization`,
`HeldThroughReconciler`).  The loops keep it up because they list it below its present parent only
(`HeldThroughPropagation`), and Kubernetes because it drops what is going (`HeldThroughKubernetes`).  The
command's later requests keep it up (`RequestsKeepHeld`), because the object they delete is that of the original parent;
and the first write establishes it (`RelabelHolds`), because a careful user writes while neither a finalization
nor a loop has come by the namespace.  Without that care, or with a lagging cache, the
counterexamples are in the table above.

**PropagationProofs.**

* `TypeCorrect` (any lag, any user): also that every resource is in a namespace
  that is there and that a loop over children has something to hand on.
* `OriginsKeptWhenCalm` (`Stale = FALSE`, `AnyTime = FALSE`): no controller
  touches what a user has made in a namespace that hangs below no other.  A loop
  writes to children listed earlier, so the invariant `JobsBelow` says that what
  is left of a loop, and the namespace of a propagation in progress, hang
  below something as long as they are there; parents change only at rest, when no job is in progress.
* `CopiesInPlaceWhenCareful` and `NoStaleCopiesWhenCareful`, for `Careful` users (caches up to
  date, namespaces relabelled at rest and not deleted, the constants of `prop_fresh`) and
  `Trees` that are well formed, which is what NamespaceTree guarantees of them.  Both properties
  speak of rest, so `InPlaceInv` says what will mend a wrong copy while there is no rest,
  one part for each way to be wrong: `MissingInv` (a child without a copy), `DifferentInv` (a copy unlike its
  original), `OrphanInv` (a copy whose original is gone) and `StrayInv` (a copy from elsewhere).  Each says that
  what is wrong is *pending* with a controller that will see it: a key is queued or an event for it is on
  its way, a loop has still to come to that child, or a look at its namespace to that phase.
  `ObjJobCurrent` and `NsJobCurrent` say that what such a loop or look has read when it
  began still holds, or the resource is pending again.  `StrayInv` holds only while no user has given the mode `create`: a
  copy takes its mode from its original, and the original, in the end, from a user (`ModesGiven`).
  `WrongIsPending` is the invariant as a theorem.

**MetaPropagationProofs.**

* `TypeCorrect` (any lag).
* `LabelsInPlaceWhenFresh` (`StaleNs = StaleSn = FALSE`; any tree, any patterns, any number of
  acts and restarts).  `LabelsInPlace` speaks of rest, so the invariant `Inv` has to say what
  will put the labels of a namespace in place while there is no rest.  Its
  parts: `Rightful`, the roles of the namespaces (who hangs below another is neither a type nor an
  instance, and the other may have somebody below it), which is what keeps the
  source of a namespace from being listed by the wrong index, or not at all; `JobSound`, what a
  reconciliation in progress has read of its namespace is still true of it, unless
  that one is queued again; and `NothingForgotten`, every namespace below another has its labels in
  place or is `Pending`: it or its source is queued, or the reconciliation in progress has still to list
  or to write to it.  Each write is
  then looked at twice: it puts its own namespace in place, and it queues it, so
  that those below are looked at again.

**ConversionProofs.** `V1ThereAndBack`: v2 to v1 and back is the identity but for
the internal annotations, for every object in whose internal annotations users
have written only what the conversion overwrites.  `TypeCorrect`, and `RoundTripAlways`: the same in every
reachable state, for both versions.  `EditsOnlyAlways`: a client that writes back what it has read changes only the
part it has edited; in between the object changes under it, so `PartsFollow` follows each part of
what the client holds back to what was stored when it was read.  `NewSpecNotYetOKWhenHonest`:
v1 does not show a spec as ok that the controller has not yet reconciled, if no user writes a number
where the conversion keeps the generation (`HonestUsers`, as in the run): `SeenInv` says that neither the stored object nor what a
client holds names a generation that has not been there yet.

The theorems assume only what the modules' named `ASSUME`s say.

**Only model-checked**: the liveness properties (`EventuallySettled`,
`DeletionCompletes`, `PromisesKept`, `ComesToRest`).  They rest on fairness, that is on `ENABLED`,
which is out of the prover's reach.  Every safety invariant and action property of a passing run is proved
under the hypotheses named above, each of which the constants of that run meet.

## What is left out

* *Reads that fail* and writes that fail for other reasons than the state of the
  cluster: a transient failure is a delayed action.
* *A watch that is re-listed* after an interruption.  A deleted object is
  delivered here as it was stored last.
* *Concurrent reconciliations* of one controller: each has a single worker (the
  default of controller-runtime, which the code does not change), and only the
  leader reconciles.  The two controllers of Propagation run concurrently.
* *The syntax of labels and annotations*, and everything Accurate only prints or measures.
* *Annotations that are handed down* are treated line by line like labels and not
  modelled apart.  *Resources and labels* are in two modules, although one reconciliation
  handles both: Propagation leaves out the wake-ups of the Namespace reconciler
  that writes to labels cause, and MetaPropagation the resources.
* *Namespaces that come and go while labels are handed down*: MetaPropagation's stay.
  SubNamespaces has the loop over namespaces that are created and deleted, with the parent label only.
* *A sub-namespace that becomes an instance in one step, and templates that are sub-namespaces* in
  MetaPropagation: finding 1, and an observation above.
* *The deprecated propagation of generated resources* (`checkController`), off by
  default.
* *The webhook's own cache* in Propagation: requests are decided on what is
  stored there; lag of the webhook is the matter of NamespaceTree, SubNamespaces and
  MetaPropagation.
* *Metadata* in Conversion, but for the generation and annotations, is copied.  Conditions of other
  controllers stay, as in a server-side apply; an object *created* with annotations copied from
  another one is in no action.
* *Two reconciliations of a Namespace at a time* in SubNamespaces: there is one worker.
* *A chain of deletions that wait for each other* without cascading deletion (`hooks/subnamespace.go:138`) takes three
  levels of namespaces; `DeletionCompletes` is checked with cascading deletion, where nothing waits for children.
* *What commands put into a spec* (labels and annotations given to `sub create`, taken over by `sub move`).
* *Naming policies* are a parameter of SubNamespaceHooks that no configuration sets yet.
* *Configuration*, `namespace describe`, and generated code other than the conversions: no
  state, or no code of the project.
* *A namespace whose parent is missing* is retried for ever by the Namespace
  reconciler; the model waits instead.

## Plan

Done, in this order: the webhook and the tree it guards, with the abstract
forest; the life of SubNamespaces; the propagation of resources; conversion between versions; the
commands and the listings; the propagation of labels; the proofs of all type invariants and of
the safety properties listed above.  What could follow:

1. **Naming policies**: a run with policies; moving a sub-namespace is not asked
   for them, creating one is.
2. **Configuration**: the validation as a predicate, checked against what the other
   modules take for granted (no kind twice, patterns that match no label of Accurate's own: a
   pattern that begins with a wildcard passes the test for the prefix).
3. **Generated resources**: `checkController`, since it can be turned on.
4. **Proofs**: the tree with cascading deletion, and what is left of the promises when
   caches lag: which parts of the invariants hold whatever the cache shows.

## How to run

In this directory, with the community modules and the TLAPS library in the
search path:

```
tlc -workers 2 -config tree_fresh.cfg MCNamespaceTree
tlc -workers 2 -config kubectl.cfg MCKubectl
tlc -workers 2 -config meta.cfg MCMetaPropagation
tlapm MetaPropagationProofs.tla
```

`tree_` configurations belong to MCNamespaceTree, `sub_` to MCSubNamespaces,
`prop_` to MCPropagation, `meta` to MCMetaPropagation, `kubectl` to MCKubectl and `conversion` to
MCConversion.  The longest run takes about two and a half minutes.
