---------------------------- MODULE KubectlProofs ----------------------------
(***************************************************************************)
(* A command of kubectl-accurate is a sequence of requests of a user, cut  *)
(* off anywhere: what the controllers guarantee against all users they     *)
(* guarantee against the commands.  What the commands promise themselves   *)
(* follows: none that moves a namespace loses it.                          *)
(***************************************************************************)
EXTENDS Kubectl, SubNamespacesProofs

LEMMA CommandIsRequest ==
  ASSUME TypeOK, [KNext]_kvars
  PROVE  [Next]_vars
<1>1. ASSUME NEW n \in Subs, NEW parent \in Names \cup {Absent}, NEW type \in {Absent, NSTypeRoot},
             Relabel(n, type, parent)
      PROVE  Next
  BY <1>1 DEF Next, Users
<1>2. ASSUME NEW n \in DOMAIN ns PROVE ns[n].type \in {Absent, NSTypeRoot}
  BY DEF TypeOK, IsPartialMap, Namespace
<1>3. ASSUME NEW n \in Subs, NEW parent \in Names, NEW leave, SubMove(n, parent, leave) PROVE Next
  <2>1. n \in DOMAIN ns /\ Relabel(n, ns[n].type, parent)
    BY <1>3 DEF SubMove
  <2> QED
    BY <1>1, <1>2, <2>1
<1>4. ASSUME NEW n \in Subs, SubCut(n) PROVE Next
  BY <1>1, <1>4 DEF SubCut
<1>5. ASSUME NEW n \in Subs, NEW parent \in Names, SubGraft(n, parent) PROVE Next
  BY <1>1, <1>5 DEF SubGraft
<1>6. ASSUME DeleteOriginal PROVE Next \/ UNCHANGED vars
  <2> DEFINE k == <<cmd.orig, cmd.name>>
  <2>1. DeleteSubNamespace(k) \/ UNCHANGED vars
    BY <1>6 DEF DeleteOriginal
  <2>2. DOMAIN sn \subseteq Keys
    BY DEF TypeOK, IsPartialMap
  <2>3. DeleteSubNamespace(k) => k \in Keys
    BY <2>2 DEF DeleteSubNamespace
  <2> HIDE DEF k
  <2> QED
    BY <2>1, <2>3 DEF Next, Users
<1>7. ASSUME CreateNew PROVE Next
  BY <1>7 DEF CreateNew, Next, Users
<1>8. CASE UNCHANGED kvars
  BY <1>8 DEF kvars
<1> QED
  BY <1>3, <1>4, <1>5, <1>6, <1>7, <1>8
  DEF KNext, SubDelete, SubCreate, GetOriginal, Interrupted

(* Every behaviour with commands, however they are interrupted and         *)
(* whatever goes on between their requests, is one without.                *)
THEOREM CommandsAreRequests == KSpec => Spec
<1>1. KInit => Init /\ TypeOK
  BY InitTypes DEF KInit
<1>2. TypeOK /\ [KNext]_kvars => TypeOK' /\ [Next]_vars
  BY CommandIsRequest, StepKeepsTypes
<1> QED
  BY <1>1, <1>2, PTL DEF KSpec, Spec

-----------------------------------------------------------------------------

LEMMA CommandTypes ==
  ASSUME KTypeOK, [KNext]_kvars
  PROVE  cmd' \in Commands \cup {NoCommand}
<1>1. DOMAIN ns \subseteq Names /\ ns \in [DOMAIN ns -> Namespace]
  BY DEF KTypeOK, TypeOK, IsPartialMap
<1>2. ASSUME NEW n \in DOMAIN ns PROVE ns[n].parent \in Names \cup {Absent}
  BY <1>1 DEF Namespace
<1>3. ASSUME NEW kind \in Kinds, NEW n \in Subs, NEW parent \in Names \cup {Absent},
             NEW orig \in Names \cup {Absent}, NEW leave \in BOOLEAN, NEW next \in Requests,
             Begin(kind, n, parent, orig, leave, next)
      PROVE  cmd' \in Commands
  <2> DEFINE alone == n \in DOMAIN ns => ~ns[n].terminating
  <2>1. alone \in BOOLEAN
    OBVIOUS
  <2>2. cmd' = [kind |-> kind, name |-> n, parent |-> parent, orig |-> orig,
                leave |-> leave, next |-> next, alone |-> alone]
    BY <1>3, Zenon DEF Begin
  <2> HIDE DEF alone
  <2> QED
    BY <2>1, <2>2 DEF Commands
<1>4. ASSUME NEW next \in Requests \cup {"done", "failed"}, cmd.next \in Requests, Proceed(next)
      PROVE  cmd' \in Commands
  <2>1. cmd \in Commands
    BY <1>4 DEF KTypeOK, NoCommand, Requests
  <2> QED
    BY <1>4, <2>1 DEF Proceed, Commands
<1>5. ASSUME NEW n \in Subs, SubDelete(n) PROVE cmd' \in Commands
  BY <1>2, <1>3, <1>5 DEF SubDelete, Kinds, Requests
<1>6. ASSUME NEW n \in Subs, SubCut(n) PROVE cmd' \in Commands
  BY <1>2, <1>3, <1>6 DEF SubCut, Kinds, Requests
<1>7. ASSUME NEW n \in Subs, NEW parent \in Names, SubCreate(n, parent) PROVE cmd' \in Commands
  BY <1>3, <1>7 DEF SubCreate, Kinds, Requests
<1>8. ASSUME NEW n \in Subs, NEW parent \in Names, SubGraft(n, parent) PROVE cmd' \in Commands
  BY <1>3, <1>8 DEF SubGraft, Kinds, Requests
<1>9. ASSUME NEW n \in Subs, NEW parent \in Names, NEW leave \in BOOLEAN, SubMove(n, parent, leave)
      PROVE  cmd' \in Commands
  BY <1>2, <1>3, <1>9 DEF SubMove, Kinds, Requests
<1>10. CASE GetOriginal
  BY <1>4, <1>10 DEF GetOriginal, Requests
<1>11. CASE DeleteOriginal
  BY <1>4, <1>11 DEF DeleteOriginal, Requests
<1>12. CASE CreateNew
  BY <1>4, <1>12 DEF CreateNew, Requests
<1>13. CASE Interrupted
  BY <1>13 DEF Interrupted
<1>14. ASSUME NEW b, cmd' = [cmd EXCEPT !.alone = cmd.alone /\ b]
       PROVE  cmd' \in Commands \cup {NoCommand}
  <2>1. (cmd.alone /\ b) \in BOOLEAN
    OBVIOUS
  <2>2. CASE cmd \in Commands
    BY <1>14, <2>1, <2>2 DEF Commands
  <2>3. CASE cmd = NoCommand
    <3>1. (cmd.alone /\ b) = FALSE
      BY <2>3 DEF NoCommand
    <3> QED
      BY <1>14, <2>3, <3>1 DEF NoCommand
  <2> QED
    BY <2>2, <2>3 DEF KTypeOK
<1>15. CASE UNCHANGED kvars
  BY <1>15 DEF kvars, KTypeOK
<1> QED
  BY <1>5, <1>6, <1>7, <1>8, <1>9, <1>10, <1>11, <1>12, <1>13, <1>14, <1>15 DEF KNext

(* A command always knows what it has still to do, however far the caches  *)
(* of the controllers lag.                                                 *)
THEOREM KTypeCorrect == KSpec => []KTypeOK
<1>1. KInit => KTypeOK
  BY InitTypes DEF KInit, KTypeOK
<1>2. KTypeOK /\ [KNext]_kvars => KTypeOK'
  BY CommandTypes, CommandIsRequest, StepKeepsTypes DEF KTypeOK
<1> QED
  BY <1>1, <1>2, PTL DEF KSpec

(* No command, interrupted or not, makes the controllers hang a namespace  *)
(* below a parent where nobody has asked for it: what a loop brings back   *)
(* is what the command, or another before it, has changed.                 *)
THEOREM CommandsBringNothingUnasked == KSpec => []OnlyWhereAsked
  BY CommandsAreRequests, NothingUnasked

(* With an up-to-date cache of SubNamespaces none makes one lose its       *)
(* finalizer, or be wanted again while its namespace is being deleted.     *)
THEOREM CommandsKeepFinalizers ==
  ASSUME StaleSn = FALSE
  PROVE  KSpec => [](FinalizerKept /\ JobObjectDeleting)
  BY CommandsAreRequests, FinalizerKeptWhenFresh

-----------------------------------------------------------------------------

(* The kinds of commands that hang a namespace somewhere else.             *)
Regrafts == {"move", "cut", "graft"}

(* Nothing that is stored takes n along: neither its own end, nor that of  *)
(* its SubNamespace, nor that of its parent, which the webhook guards for  *)
(* as long as it is a root or has a parent.  What the command has left to  *)
(* delete is not the SubNamespace n now belongs to.                        *)
Stands(n, orig) ==
  /\ n \in DOMAIN ns
  /\ ~ns[n].terminating
  /\ Parent(ns[n]) # orig
  /\ <<Parent(ns[n]), n>> \in DOMAIN sn => ~sn[<<Parent(ns[n]), n>>].deleting
  /\ Parent(ns[n]) # "" =>
       /\ Parent(ns[n]) \in DOMAIN ns
       /\ ~ns[Parent(ns[n])].terminating
       /\ Type(ns[Parent(ns[n])]) = NSTypeRoot \/ Parent(ns[Parent(ns[n])]) # ""

(* Nor does anything that is under way: no finalization is about to delete *)
(* it, no loop about to hang it elsewhere.                                 *)
NobodyAfter(n) ==
  /\ job # NoJob /\ job.then = "deleteNamespace" => job.key[2] # n
  /\ nsJob # NoJob /\ n \in nsJob.todo => nsJob.parent = Parent(ns[n])

Held(n, orig) == Stands(n, orig) /\ NobodyAfter(n)

HeldInv == cmd.kind \in Regrafts /\ cmd.alone => Held(cmd.name, cmd.orig)

(* What the reconcilers keep in any case.                                  *)
Ground == FinalizerInvariant /\ AskedInvariant

LEMMA GroundTypes ==
  ASSUME Ground
  PROVE  /\ TypeOK
         /\ DOMAIN ns \subseteq Names /\ ns \in [DOMAIN ns -> Namespace] /\ "" \notin DOMAIN ns
         /\ DOMAIN sn \subseteq Keys /\ sn \in [DOMAIN sn -> SubNamespace]
         /\ job # NoJob => job \in Jobs
         /\ nsJob # NoJob => nsJob \in NsJobs
  BY NamesAssumption DEF Ground, FinalizerInvariant, TypeOK, IsPartialMap

(* Whatever is written about SubNamespaces, as long as none that is not    *)
(* being deleted becomes so.                                               *)
LEMMA StandsByObjects ==
  ASSUME NEW n, NEW orig, Stands(n, orig), UNCHANGED ns,
         <<Parent(ns[n]), n>> \in DOMAIN sn' =>
           \/ ~sn'[<<Parent(ns[n]), n>>].deleting
           \/ /\ <<Parent(ns[n]), n>> \in DOMAIN sn
              /\ sn'[<<Parent(ns[n]), n>>].deleting = sn[<<Parent(ns[n]), n>>].deleting
  PROVE  Stands(n, orig)'
  BY DEF Stands

(* Whatever is written about Namespaces, as long as n and its parent stay  *)
(* what they are, but that a sub-namespace may be hung elsewhere.          *)
LEMMA StandsByNamespaces ==
  ASSUME NEW n, NEW orig, Stands(n, orig), UNCHANGED sn,
         n \in DOMAIN ns', Parent(ns'[n]) = Parent(ns[n]), ~ns'[n].terminating,
         LET p == Parent(ns[n])
         IN  p \in DOMAIN ns =>
               /\ p \in DOMAIN ns'
               /\ ns'[p].terminating = ns[p].terminating
               /\ Type(ns'[p]) = Type(ns[p])
               /\ Parent(ns'[p]) = Parent(ns[p]) \/ Parent(ns'[p]) # ""
  PROVE  Stands(n, orig)'
  BY DEF Stands

(* A reconciliation that does not come to a deletion is after nobody, nor  *)
(* is a list but after those it has found.                                 *)
LEMMA NobodyAfterByJob ==
  ASSUME NEW n, NobodyAfter(n), UNCHANGED nsJob, Parent(ns'[n]) = Parent(ns[n]),
         job' = NoJob \/ job' = job \/ job'.then # "deleteNamespace" \/ job'.key[2] # n
  PROVE  NobodyAfter(n)'
  BY DEF NobodyAfter

(* The reconciler of SubNamespaces deletes no namespace but that of one on *)
(* its way out, and none with children.                                    *)
LEMMA HeldThroughFinalization ==
  ASSUME StaleNs = FALSE, AllowCascadingDeletion = FALSE, Ground,
         NEW n, NEW orig, Held(n, orig), Finalize \/ FinalizeDelete
  PROVE  Held(n, orig)'
<1> DEFINE p == Parent(ns[n])
           d == job.key[2]
<1>1. nsCache = ns /\ nsJob' = nsJob /\ sn' = sn /\ job \in Jobs
  BY GroundTypes
  DEF Finalize, FinalizeDelete, At, Ready, NsInSync, Terminate, WriteNs, api
<1>2. CASE Finalize
  <2>1. ns' = ns
    BY <1>2 DEF Finalize, api
  <2>2. d = n => ~HasOwnNamespace(job.key)
    <3>1. job.key \in DOMAIN sn /\ sn[job.key].deleting /\ job.key = <<job.key[1], d>>
      BY <1>1, <1>2
      DEF Finalize, At, Ground, FinalizerInvariant, JobObjectDeleting, Jobs, Keys
    <3> QED
      BY <1>1, <3>1 DEF HasOwnNamespace, Held, Stands
  <2>3. job'.then # "deleteNamespace" \/ job'.key[2] # n
    BY <1>1, <1>2, <2>2 DEF Finalize, Continue, Jobs
  <2> QED
    BY <1>1, <2>1, <2>3, NobodyAfterByJob DEF Held, Stands
<1>3. CASE FinalizeDelete
  <2>1. d # n /\ (job' = NoJob \/ job'.then # "deleteNamespace")
    BY <1>1, <1>3 DEF FinalizeDelete, At, Continue, Retry, Jobs, Held, NobodyAfter
  <2>2. CASE ns' = ns
    BY <1>1, <2>1, <2>2, NobodyAfterByJob DEF Held, Stands
  <2>3. CASE d \in DOMAIN ns /\ HandleDelete(ns, d, ns[d]) /\ Terminate(d)
    <3>1. ns' = [ns EXCEPT ![d].terminating = TRUE]
      BY <2>3 DEF Terminate, WriteNs
    <3>2. p # "" => d # p
      <4> SUFFICES ASSUME p # "", d = p PROVE FALSE
        OBVIOUS
      <4>1. n \in ChildrenOf(ns, d) /\ (Type(ns[d]) = NSTypeRoot \/ Parent(ns[d]) # "")
        BY DEF ChildrenOf, Held, Stands
      <4>2. Type(ns[d]) # NSTypeTemplate
        BY <2>3, GroundTypes DEF Namespace, Type, Value, NSTypeRoot, NSTypeTemplate
      <4> QED
        BY <2>3, <4>1, <4>2 DEF HandleDelete
    <3>3. DOMAIN ns' = DOMAIN ns /\ ns'[n] = ns[n] /\ (p # "" => ns'[p] = ns[p])
      BY <2>1, <3>1, <3>2 DEF Held, Stands
    <3> QED
      BY <1>1, <2>1, <3>3, NobodyAfterByJob DEF Held, Stands
  <2> QED
    BY <1>1, <1>3, <2>2, <2>3 DEF FinalizeDelete, api
<1> QED
  BY <1>2, <1>3

(* Its other steps touch no namespace that is there.                       *)
LEMMA HeldThroughReconciler ==
  ASSUME Ground, NEW n, NEW orig, Held(n, orig),
         \/ \E k \in Keys : Reconcile(k)
         \/ RemoveFinalizer \/ ReconcileNS \/ ReconcileCreate \/ ApplyStatus
  PROVE  Held(n, orig)'
<1> DEFINE p == Parent(ns[n])
<1>1. nsJob' = nsJob /\ (job' = NoJob \/ job'.then # "deleteNamespace")
  <2>1. CASE \E k \in Keys : Reconcile(k)
    <3>1. ASSUME NEW k \in Keys, NEW step, job' = [key |-> k, then |-> step]
          PROVE  job'.then = step
      BY <3>1
    <3> QED
      BY <2>1, <3>1 DEF Reconcile
  <2>2. CASE RemoveFinalizer \/ ApplyStatus
    BY <2>2 DEF RemoveFinalizer, ApplyStatus, At, Done, Retry
  <2>3. CASE ReconcileNS \/ ReconcileCreate
    BY <2>3, GroundTypes DEF ReconcileNS, ReconcileCreate, At, Retry, Continue, Jobs
  <2> QED
    BY <2>1, <2>2, <2>3
<1>2. CASE ReconcileCreate
  <2>1. CASE ns' = ns
    BY <1>1, <1>2, <2>1, NobodyAfterByJob DEF ReconcileCreate, WriteNs, api, Held, Stands
  <2>2. CASE ns' # ns
    <3> DEFINE new == Live(Absent, job.key[1])
    <3>1. job.key[2] \notin DOMAIN ns /\ ns' = Put(ns, job.key[2], new) /\ sn' = sn
      BY <1>2, <2>2 DEF ReconcileCreate, WriteNs, api
    <3>2. \A m \in DOMAIN ns : m \in DOMAIN ns' /\ ns'[m] = ns[m]
      BY <3>1 DEF Put
    <3> QED
      BY <1>1, <3>1, <3>2, StandsByNamespaces, NobodyAfterByJob DEF Held, Stands
  <2> QED
    BY <2>1, <2>2
<1>3. CASE \/ \E k \in Keys : Reconcile(k)
           \/ RemoveFinalizer \/ ReconcileNS \/ ApplyStatus
  <2>1. UNCHANGED ns
    BY <1>3 DEF Reconcile, RemoveFinalizer, PatchFinalizer, ReconcileNS, ApplyStatus,
         WriteSn, api
  <2>2. <<p, n>> \in DOMAIN sn' =>
          <<p, n>> \in DOMAIN sn /\ sn'[<<p, n>>].deleting = sn[<<p, n>>].deleting
    <3>1. CASE sn' = sn
      BY <3>1
    <3>2. ASSUME NEW k, PatchFinalizer(k)
          PROVE  <<p, n>> \in DOMAIN sn' =>
                   <<p, n>> \in DOMAIN sn /\ sn'[<<p, n>>].deleting = sn[<<p, n>>].deleting
      <4>1. CASE k \in DOMAIN sn /\ ~sn[k].deleting
        <5>1. sn' = [sn EXCEPT ![k].finalizer = FALSE]
          BY <3>2, <4>1 DEF PatchFinalizer, WriteSn
        <5> QED
          BY <4>1, <5>1, GroundTypes DEF SubNamespace
      <4>2. CASE sn' = Drop(sn, k)
        BY <4>2 DEF Drop
      <4> QED
        BY <3>1, <3>2, <4>1, <4>2 DEF PatchFinalizer, WriteSn
    <3>3. ASSUME NEW k, NEW status, WriteSn([sn EXCEPT ![k].status = status])
          PROVE  <<p, n>> \in DOMAIN sn' =>
                   <<p, n>> \in DOMAIN sn /\ sn'[<<p, n>>].deleting = sn[<<p, n>>].deleting
      BY <3>3, GroundTypes DEF WriteSn, SubNamespace
    <3> QED
      BY <1>3, <3>1, <3>2, <3>3 DEF Reconcile, RemoveFinalizer, ReconcileNS, ApplyStatus, api
  <2> QED
    BY <1>1, <2>1, <2>2, StandsByObjects, NobodyAfterByJob DEF Held
<1> QED
  BY <1>2, <1>3

(* A loop over children hangs no namespace elsewhere but one that it has   *)
(* listed before, and a new list shows each where it is.                   *)
LEMMA HeldThroughPropagation ==
  ASSUME StaleNs = FALSE, Ground, NEW n, NEW orig, Held(n, orig),
         (\E m \in Names : ReconcileNamespace(m)) \/ ListChildren \/ \E c \in Subs : PropagateMeta(c)
  PROVE  Held(n, orig)'
<1> DEFINE p == Parent(ns[n])
<1>1. ASSUME UNCHANGED <<ns, sn, job>>,
             nsJob' # NoJob /\ n \in nsJob'.todo => nsJob'.parent = p
      PROVE  Held(n, orig)'
  BY <1>1 DEF Held, Stands, NobodyAfter
<1>2. ASSUME NEW m \in Names, ReconcileNamespace(m) PROVE Held(n, orig)'
  <2>1. nsCache = ns
    BY <1>2 DEF ReconcileNamespace, Ready, NsInSync
  <2>2. nsJob' # NoJob /\ n \in nsJob'.todo => nsJob'.parent = p
    <3>1. CASE nsJob' = [of |-> m, parent |-> m, todo |-> {}]
      BY <3>1
    <3>2. CASE nsJob' = [of |-> m, parent |-> Parent(ns[m]), todo |-> {m}]
      BY <3>2
    <3> QED
      BY <1>2, <2>1, <3>1, <3>2 DEF ReconcileNamespace
  <2> QED
    BY <1>1, <1>2, <2>2 DEF ReconcileNamespace, api
<1>3. CASE ListChildren
  <2>1. nsCache = ns /\ nsJob \in NsJobs /\ nsJob.parent = nsJob.of
    BY <1>3, GroundTypes DEF ListChildren, Ready, NsInSync, Ground, AskedInvariant
  <2>2. nsJob' # NoJob /\ n \in nsJob'.todo => nsJob'.parent = p
    BY <1>3, <2>1 DEF ListChildren, ChildrenOf, NsJobs
  <2> QED
    BY <1>1, <1>3, <2>2 DEF ListChildren, api
<1>4. ASSUME NEW c \in Subs, PropagateMeta(c) PROVE Held(n, orig)'
  <2> DEFINE new == [ns[c] EXCEPT !.parent = nsJob.parent]
  <2>1. /\ nsJob \in NsJobs /\ nsJob.parent \in Names /\ nsJob.parent # ""
        /\ Value(nsJob.parent) = nsJob.parent
        /\ sn' = sn /\ job' = job
    BY <1>4, GroundTypes, NamesAssumption DEF PropagateMeta, WriteNs, NsJobs, Value, api
  <2>2. nsJob' # NoJob /\ n \in nsJob'.todo => nsJob'.parent = p
    BY <1>4, <2>1 DEF PropagateMeta, NsJobs, Held, NobodyAfter
  <2>3. CASE ns' = ns
    BY <1>1, <2>1, <2>2, <2>3
  <2>4. CASE c \in DOMAIN ns /\ ns' = Put(ns, c, new)
    <3>1. /\ new.parent = nsJob.parent /\ new.terminating = ns[c].terminating
          /\ new.type = ns[c].type
      BY <2>4, GroundTypes DEF Namespace
    <3>2. DOMAIN ns' = DOMAIN ns /\ ns'[c] = new /\ \A m \in DOMAIN ns : m # c => ns'[m] = ns[m]
      BY <2>4 DEF Put
    <3>3. c = n => nsJob.parent = p
      BY <1>4 DEF PropagateMeta, Held, NobodyAfter
    <3> HIDE DEF new
    <3>4. Parent(ns'[n]) = p /\ ~ns'[n].terminating
      BY <2>1, <3>1, <3>2, <3>3 DEF Parent, Held, Stands
    <3>5. p \in DOMAIN ns =>
            /\ ns'[p].terminating = ns[p].terminating
            /\ Type(ns'[p]) = Type(ns[p])
            /\ Parent(ns'[p]) = Parent(ns[p]) \/ Parent(ns'[p]) # ""
      BY <2>1, <3>1, <3>2 DEF Parent, Type
    <3>6. Stands(n, orig)'
      BY <2>1, <3>2, <3>4, <3>5, StandsByNamespaces DEF Held, Stands
    <3> QED
      BY <2>1, <2>2, <3>4, <3>6 DEF Held, NobodyAfter
  <2>5. CASE c \notin DOMAIN ns /\ ns' = Put(ns, c, Live(Absent, nsJob.parent))
    <3>1. \A m \in DOMAIN ns : m \in DOMAIN ns' /\ ns'[m] = ns[m]
      BY <2>5 DEF Put
    <3>2. Stands(n, orig)'
      BY <2>1, <3>1, StandsByNamespaces DEF Held, Stands
    <3> QED
      BY <2>1, <2>2, <3>1, <3>2 DEF Held, Stands, NobodyAfter
  <2> QED
    BY <1>4, <2>3, <2>4, <2>5 DEF PropagateMeta, WriteNs, api
<1> QED
  BY <1>2, <1>3, <1>4

(* Kubernetes only marks the SubNamespaces of a namespace that is          *)
(* terminating, and drops no namespace but such a one.                     *)
LEMMA HeldThroughKubernetes ==
  ASSUME NEW n, NEW orig, Held(n, orig), Kubernetes
  PROVE  Held(n, orig)'
<1> DEFINE p == Parent(ns[n])
<1>1. CASE \E k \in Keys : EmptyNamespace(k)
  <2>1. PICK k \in Keys : EmptyNamespace(k)
    BY <1>1
  <2>2. k \in DOMAIN sn /\ UNCHANGED <<ns, job, nsJob>>
    BY <2>1 DEF EmptyNamespace, MarkDeleted, WriteSn
  <2>3. k # <<p, n>>
    <3>1. k[1] # ""
      BY NamesAssumption DEF Keys
    <3>2. ns[k[1]].terminating
      BY <2>1 DEF EmptyNamespace
    <3>3. k = <<p, n>> => k[1] = p
      OBVIOUS
    <3> QED
      BY <3>1, <3>2, <3>3 DEF Held, Stands
  <2>4. <<p, n>> \in DOMAIN sn' => <<p, n>> \in DOMAIN sn /\ sn'[<<p, n>>] = sn[<<p, n>>]
    BY <2>1, <2>2, <2>3 DEF EmptyNamespace, MarkDeleted, WriteSn, Drop
  <2> QED
    BY <2>2, <2>4, StandsByObjects, NobodyAfterByJob DEF Held
<1>2. CASE \E m \in Subs : FinalizeNamespace(m)
  <2>1. PICK m \in Subs : FinalizeNamespace(m)
    BY <1>2
  <2>2. ns[m].terminating /\ ns' = Drop(ns, m) /\ UNCHANGED <<sn, job, nsJob>> /\ m # ""
    BY <2>1, NamesAssumption DEF FinalizeNamespace, WriteNs, Subs
  <2>3. m # n /\ m # p
    BY <2>2 DEF Held, Stands
  <2>4. /\ n \in DOMAIN ns' /\ ns'[n] = ns[n]
        /\ p \in DOMAIN ns => p \in DOMAIN ns' /\ ns'[p] = ns[p]
    BY <2>2, <2>3 DEF Drop, Held, Stands
  <2> QED
    BY <2>2, <2>4, StandsByNamespaces, NobodyAfterByJob DEF Held, Stands
<1> QED
  BY <1>1, <1>2 DEF Kubernetes

LEMMA SystemKeepsHeld ==
  ASSUME StaleNs = FALSE, AllowCascadingDeletion = FALSE, Ground,
         NEW n, NEW orig, Held(n, orig), SystemStep \/ Restart
  PROVE  Held(n, orig)'
<1>1. CASE SyncNs \/ SyncSn \/ Restart
  BY <1>1 DEF SyncNs, SyncSn, Restart, api, Held, Stands, NobodyAfter
<1> QED
  BY <1>1, HeldThroughFinalization, HeldThroughReconciler, HeldThroughPropagation,
     HeldThroughKubernetes DEF SystemStep, Kubernetes

(* A careful user, as the commands are, hangs it where nothing is on its   *)
(* way out, while nobody is after it.                                      *)
LEMMA RelabelHolds ==
  ASSUME StaleNs = FALSE, Careful = TRUE, Ground, NEW n \in Subs,
         NEW parent \in Names \cup {Absent}, NEW type, Relabel(n, type, parent),
         ~ns[n].terminating, NEW orig, orig # Value(parent)
  PROVE  Held(n, orig)'
<1> DEFINE new == [ns[n] EXCEPT !.type = type, !.parent = parent]
           p == Value(parent)
<1>1. /\ n \in DOMAIN ns /\ ns' = [ns EXCEPT ![n] = new] /\ nsCache = ns
      /\ UNCHANGED <<sn, job, nsJob>>
  BY DEF Relabel, Act, Ready, NsInSync, WriteNs
<1>2. new.parent = parent /\ new.terminating = FALSE
  BY <1>1, GroundTypes DEF Namespace
<1>3. HandleUpdate(ns, n, new, ns[n])
  BY <1>1 DEF Relabel
<1>4. Parent(new) = p
  BY <1>2 DEF Parent
<1> HIDE DEF new
<1>5. DOMAIN ns' = DOMAIN ns /\ Parent(ns'[n]) = p /\ ~ns'[n].terminating
  BY <1>1, <1>2, <1>4
<1>6. \A k \in DOMAIN sn : k[2] = n => ~sn[k].deleting
  BY DEF Relabel
<1>7. p # "" => /\ p \in DOMAIN ns' /\ ~ns'[p].terminating
                /\ Type(ns'[p]) = NSTypeRoot \/ Parent(ns'[p]) # ""
  <2> SUFFICES ASSUME p # ""
               PROVE  /\ p \in DOMAIN ns' /\ ~ns'[p].terminating
                      /\ Type(ns'[p]) = NSTypeRoot \/ Parent(ns'[p]) # ""
    OBVIOUS
  <2>1. p = parent
    BY DEF Value
  <2>2. p # n /\ CheckParent(ns, p, NSTypeRoot)
    BY <1>3, <1>4 DEF HandleUpdate, HandleCreate
  <2>3. p \in DOMAIN ns /\ ~ns[p].terminating /\ ns'[p] = ns[p]
    BY <1>1, <2>1, <2>2 DEF Relabel, CheckParent
  <2> QED
    BY <1>5, <2>2, <2>3 DEF CheckParent
<1>8. Stands(n, orig)'
  BY <1>1, <1>5, <1>6, <1>7 DEF Stands
<1>9. NobodyAfter(n)'
  <2>1. job # NoJob /\ job.then = "deleteNamespace" => job.key \in DOMAIN sn /\ sn[job.key].deleting
    BY DEF Ground, FinalizerInvariant, JobObjectDeleting
  <2>2. nsJob # NoJob => n \notin nsJob.todo
    BY DEF Relabel
  <2> QED
    BY <1>1, <1>6, <2>1, <2>2 DEF NobodyAfter
<1> QED
  BY <1>8, <1>9 DEF Held

(* What a command deletes is the SubNamespace the namespace has left, what *)
(* it creates is not being deleted.                                        *)
LEMMA RequestsKeepHeld ==
  ASSUME NEW n, NEW orig, Held(n, orig),
         \/ UNCHANGED vars
         \/ DeleteSubNamespace(<<orig, n>>)
         \/ \E k \in Keys : CreateSubNamespace(k)
  PROVE  Held(n, orig)'
<1> DEFINE p == Parent(ns[n])
<1>1. CASE UNCHANGED vars
  BY <1>1 DEF vars, Held, Stands, NobodyAfter
<1>2. CASE DeleteSubNamespace(<<orig, n>>)
  <2>1. UNCHANGED <<ns, job, nsJob>>
    BY <1>2 DEF DeleteSubNamespace, MarkDeleted, WriteSn, Act
  <2>2. <<p, n>> # <<orig, n>>
    BY DEF Held, Stands
  <2>3. <<p, n>> \in DOMAIN sn' => <<p, n>> \in DOMAIN sn /\ sn'[<<p, n>>] = sn[<<p, n>>]
    BY <1>2, <2>2 DEF DeleteSubNamespace, MarkDeleted, WriteSn, Drop
  <2> QED
    BY <2>1, <2>3, StandsByObjects, NobodyAfterByJob DEF Held
<1>3. CASE \E k \in Keys : CreateSubNamespace(k)
  <2>1. PICK k \in Keys : CreateSubNamespace(k)
    BY <1>3
  <2>2. UNCHANGED <<ns, job, nsJob>> /\ sn' = Put(sn, k, NewSubNamespace)
    BY <2>1 DEF CreateSubNamespace, WriteSn, Act
  <2>3. <<p, n>> \in DOMAIN sn' =>
          \/ ~sn'[<<p, n>>].deleting
          \/ <<p, n>> \in DOMAIN sn /\ sn'[<<p, n>>].deleting = sn[<<p, n>>].deleting
    BY <2>2 DEF Put, NewSubNamespace
  <2> QED
    BY <2>2, <2>3, StandsByObjects, NobodyAfterByJob DEF Held
<1> QED
  BY <1>1, <1>2, <1>3

(* A command that goes on is about what it was about.                      *)
LEMMA ProceedKeeps ==
  ASSUME KTypeOK, cmd.next \in Requests, NEW next, Proceed(next)
  PROVE  /\ cmd'.kind = cmd.kind /\ cmd'.name = cmd.name
         /\ cmd'.orig = cmd.orig /\ cmd'.alone = cmd.alone
<1>1. cmd \in Commands
  BY DEF KTypeOK, NoCommand, Requests
<1> QED
  BY <1>1 DEF Proceed, Commands

LEMMA StepKeepsHeldInv ==
  ASSUME StaleNs = FALSE, Careful = TRUE, AllowCascadingDeletion = FALSE,
         KTypeOK, Ground, HeldInv, [KNext]_kvars
  PROVE  HeldInv'
<1> SUFFICES ASSUME cmd'.kind \in Regrafts, cmd'.alone
             PROVE  Held(cmd.name, cmd.orig)'
  BY DEF HeldInv
<1> USE DEF Regrafts
<1>1. TypeOK /\ ns \in [DOMAIN ns -> Namespace]
  BY GroundTypes
<1>2. ASSUME NEW kind, NEW n \in Subs, NEW parent \in Names \cup {Absent}, NEW type,
             NEW orig, orig # Value(parent), NEW leave, NEW next,
             n \in DOMAIN ns, Relabel(n, type, parent),
             Begin(kind, n, parent, orig, leave, next)
      PROVE  Held(cmd.name, cmd.orig)'
  <2>1. cmd'.name = n /\ cmd'.orig = orig /\ ~ns[n].terminating
    BY <1>2 DEF Begin
  <2>2. Held(n, orig)'
    BY <1>1, <1>2, <2>1, RelabelHolds
  <2> QED
    BY <2>1, <2>2 DEF Held, Stands, NobodyAfter
<1>3. ASSUME NEW n \in Subs, NEW parent \in Names, NEW leave \in BOOLEAN, SubMove(n, parent, leave)
      PROVE  Held(cmd.name, cmd.orig)'
  <2>1. ns[n].parent # Value(parent)
    BY <1>3, NamesAssumption DEF SubMove, Value
  <2> QED
    BY <1>2, <1>3, <2>1 DEF SubMove
<1>4. ASSUME NEW n \in Subs, SubCut(n) PROVE Held(cmd.name, cmd.orig)'
  <2>1. ns[n].parent # Value(Absent)
    BY <1>1, <1>4, NamesAssumption DEF SubCut, Value, Namespace
  <2> QED
    BY <1>2, <1>4, <2>1 DEF SubCut
<1>5. ASSUME NEW n \in Subs, NEW parent \in Names, SubGraft(n, parent)
      PROVE  Held(cmd.name, cmd.orig)'
  <2>1. Absent # Value(parent)
    BY NamesAssumption DEF Value
  <2> QED
    BY <1>2, <1>5, <2>1 DEF SubGraft
<1>6. ASSUME NEW n \in Subs, SubDelete(n) \/ \E parent \in Names : SubCreate(n, parent)
      PROVE  FALSE
  BY <1>6 DEF SubDelete, SubCreate, Begin
<1>7. ASSUME NEW n, NEW orig, n = cmd.name, orig = cmd.orig,
             cmd'.kind = cmd.kind, cmd'.name = n, cmd'.orig = orig, cmd.alone,
             Held(n, orig) => Held(n, orig)'
      PROVE  Held(cmd.name, cmd.orig)'
  <2>1. Held(n, orig)'
    BY <1>7 DEF HeldInv
  <2> QED
    BY <1>7, <2>1 DEF Held, Stands, NobodyAfter
<1>8. PICK n, orig : n = cmd.name /\ orig = cmd.orig
  OBVIOUS
<1>9. CASE GetOriginal
  BY <1>1, <1>7, <1>8, <1>9, ProceedKeeps, RequestsKeepHeld DEF GetOriginal, Requests
<1>10. CASE DeleteOriginal
  <2>1. UNCHANGED vars \/ DeleteSubNamespace(<<orig, n>>)
    BY <1>8, <1>10 DEF DeleteOriginal
  <2>2. Held(n, orig) => Held(n, orig)'
    BY <1>1, <2>1, RequestsKeepHeld
  <2> QED
    BY <1>7, <1>8, <1>10, <2>2, ProceedKeeps DEF DeleteOriginal, Requests
<1>11. CASE CreateNew
  <2>1. \E k \in Keys : CreateSubNamespace(k)
    BY <1>11 DEF CreateNew
  <2>2. Held(n, orig) => Held(n, orig)'
    BY <1>1, <2>1, RequestsKeepHeld
  <2> QED
    BY <1>7, <1>8, <1>11, <2>2, ProceedKeeps DEF CreateNew, Requests
<1>12. ASSUME Interrupted PROVE FALSE
  BY <1>12 DEF Interrupted, NoCommand
<1>13. CASE Next /\ cmd' = [cmd EXCEPT !.alone = cmd.alone /\ (ops' = ops \/ api' = api)]
  <2>1. cmd \in Commands
    BY <1>13 DEF KTypeOK, NoCommand
  <2>2. /\ cmd'.kind = cmd.kind /\ cmd'.name = cmd.name /\ cmd'.orig = cmd.orig
        /\ cmd.alone /\ (ops' = ops \/ api' = api)
    BY <1>13, <2>1 DEF Commands
  <2>3. ASSUME Users PROVE ops' # ops /\ UNCHANGED <<job, nsJob>>
    <3>1. ops \in Nat
      BY <1>1 DEF TypeOK
    <3>2. Act /\ UNCHANGED job
      BY <2>3 DEF Users, CreateSubNamespace, DeleteSubNamespace,
         CreateForeignNamespace, DeleteNamespace, Relabel
    <3> QED
      BY <3>1, <3>2 DEF Act
  <2>4. Held(n, orig) => Held(n, orig)'
    <3>1. CASE Users
      BY <2>2, <2>3, <3>1 DEF api, Held, Stands, NobodyAfter
    <3>2. CASE SystemStep \/ Restart
      BY <3>2, SystemKeepsHeld
    <3> QED
      BY <1>13, <3>1, <3>2, StepOfSystemOrUser
  <2> QED
    BY <1>7, <1>8, <2>2, <2>4
<1>14. CASE UNCHANGED kvars
  BY <1>14 DEF kvars, vars, HeldInv, Held, Stands, NobodyAfter
<1> QED
  BY <1>3, <1>4, <1>5, <1>6, <1>9, <1>10, <1>11, <1>12, <1>13, <1>14 DEF KNext

(* With both caches up to date, careful users and no cascading deletion, a *)
(* command that moves, cuts or grafts a namespace loses it at no moment:   *)
(* neither at its own deletion of the old SubNamespace, whatever the       *)
(* reconciler has looked at before, nor at a write of a loop over the      *)
(* children of its old or its new parent, nor when it ends halfway.        *)
THEOREM MovesKeepNamespaceWhenFresh ==
  ASSUME StaleNs = FALSE, StaleSn = FALSE, Careful = TRUE, AllowCascadingDeletion = FALSE
  PROVE  KSpec => MovesKeepNamespace
<1>1. KInit => HeldInv
  BY DEF KInit, NoCommand, HeldInv, Regrafts
<1>2. KTypeOK /\ Ground /\ HeldInv /\ [KNext]_kvars => HeldInv'
  BY StepKeepsHeldInv
<1>3. KTypeOK /\ HeldInv /\ HeldInv' /\ [KNext]_kvars =>
        [cmd.kind \in {"move", "cut", "graft"} /\ cmd.alone /\ cmd' # NoCommand
           /\ cmd.name = cmd'.name /\ cmd'.alone
           /\ cmd.name \in DOMAIN ns /\ ~ns[cmd.name].terminating
         => cmd.name \in DOMAIN ns' /\ ~ns'[cmd.name].terminating]_kvars
  <2> SUFFICES ASSUME KTypeOK, HeldInv, HeldInv', KNext,
                      cmd.kind \in Regrafts, cmd.alone, cmd' # NoCommand,
                      cmd.name = cmd'.name, cmd'.alone,
                      cmd.name \in DOMAIN ns, ~ns[cmd.name].terminating
               PROVE  cmd.name \in DOMAIN ns' /\ ~ns'[cmd.name].terminating
    BY DEF Regrafts
  <2>1. CASE cmd'.kind \in Regrafts
    BY <2>1 DEF HeldInv, Held, Stands
  <2>2. CASE UNCHANGED ns
    BY <2>2
  <2>3. ASSUME NEW next, cmd.next \in Requests, Proceed(next) PROVE cmd'.kind \in Regrafts
    BY <2>3, ProceedKeeps
  <2>4. ASSUME NEW kind \in Regrafts, NEW n, NEW parent, NEW orig, NEW leave, NEW next,
               Begin(kind, n, parent, orig, leave, next)
        PROVE  cmd'.kind \in Regrafts
    BY <2>4 DEF Begin
  <2>5. ASSUME NEW n \in Subs,
               \/ SubCut(n)
               \/ \E parent \in Names : SubGraft(n, parent)
               \/ \E parent \in Names, leave \in BOOLEAN : SubMove(n, parent, leave)
        PROVE  cmd'.kind \in Regrafts
    BY <2>4, <2>5 DEF SubCut, SubGraft, SubMove, Regrafts
  <2>6. CASE GetOriginal \/ Interrupted
             \/ \E n \in Subs : SubDelete(n) \/ \E parent \in Names : SubCreate(n, parent)
    BY <2>2, <2>6 DEF GetOriginal, Interrupted, SubDelete, SubCreate, vars
  <2>7. ASSUME DeleteOriginal \/ CreateNew PROVE cmd'.kind \in Regrafts
    BY <2>3, <2>7 DEF DeleteOriginal, CreateNew, Requests
  <2>8. ASSUME Next, cmd' = [cmd EXCEPT !.alone = cmd.alone /\ (ops' = ops \/ api' = api)]
        PROVE  cmd'.kind \in Regrafts
    <3>1. cmd \in Commands
      BY DEF KTypeOK, NoCommand
    <3> QED
      BY <2>8, <3>1 DEF Commands
  <2> QED
    BY <2>1, <2>5, <2>6, <2>7, <2>8 DEF KNext
<1>4. KSpec => []Ground
  <2>1. Init => Ground
    BY InitFinalizers, InitAsked DEF Ground
  <2>2. Ground /\ [Next]_vars => Ground'
    BY StepKeepsFinalizers, StepKeepsAsked DEF Ground, FinalizerInvariant
  <2> QED
    BY <2>1, <2>2, CommandsAreRequests, PTL DEF Spec
<1> QED
  BY <1>1, <1>2, <1>3, <1>4, KTypeCorrect, PTL DEF KSpec, MovesKeepNamespace
=============================================================================
