------------------------------- MODULE Kubectl -------------------------------
(***************************************************************************)
(* The commands of kubectl-accurate that change something, one after the   *)
(* other, while other users send requests of their own, the controllers of *)
(* SubNamespaces work and restart, and Kubernetes cleans up.               *)
(*                                                                         *)
(* A command reads and writes through the API server, not through a cache. *)
(* Getting a namespace and updating it is one step: the update carries the *)
(* resource version.  All other requests are steps of their own, and the   *)
(* command may end before each of them.                                    *)
(***************************************************************************)
EXTENDS SubNamespaces

CONSTANT MaxOthers  \* bound: after that much has been done, only by commands

ASSUME MaxOthersAssumption == MaxOthers \in Nat

VARIABLE cmd  \* the command that runs, or the last one

kvars == <<vars, cmd>>

Kinds == {"create", "delete", "move", "cut", "graft"}
Requests == {"get", "delete", "create"}
Commands ==
  [kind: Kinds, name: Subs, parent: Names \cup {Absent}, orig: Names \cup {Absent},
   leave: BOOLEAN,           \* --leave-original
   next: Requests \cup {"done", "failed"},
   alone: BOOLEAN]           \* the namespace was not on its way out when it began,
                             \* and nobody else has changed anything since

(* No command, or one that was refused or interrupted.                     *)
NoCommand ==
  [kind |-> "none", name |-> Absent, parent |-> Absent, orig |-> Absent,
   leave |-> FALSE, next |-> "failed", alone |-> FALSE]

Begin(kind, n, parent, orig, leave, next) ==
  /\ cmd.next \notin Requests
  /\ cmd' = [kind |-> kind, name |-> n, parent |-> parent, orig |-> orig,
             leave |-> leave, next |-> next,
             alone |-> n \in DOMAIN ns => ~ns[n].terminating]

Proceed(next) == cmd' = [cmd EXCEPT !.next = next]

-----------------------------------------------------------------------------

(* sub create: there is no such namespace yet.                             *)
SubCreate(n, parent) ==
  /\ n \notin DOMAIN ns
  /\ Begin("create", n, parent, Absent, FALSE, "create")
  /\ UNCHANGED vars

(* sub delete: find the parent.                                            *)
SubDelete(n) ==
  /\ n \in DOMAIN ns
  /\ ns[n].parent # Absent
  /\ Begin("delete", n, Absent, ns[n].parent, FALSE, "delete")
  /\ UNCHANGED vars

(* sub move: change the label first.                                       *)
SubMove(n, parent, leave) ==
  /\ n \in DOMAIN ns
  /\ ns[n].parent \notin {Absent, parent}
  /\ Relabel(n, ns[n].type, parent)
  /\ Begin("move", n, parent, ns[n].parent, leave, "get")

(* sub cut: make a root of it.                                             *)
SubCut(n) ==
  /\ n \in DOMAIN ns
  /\ ns[n].parent # Absent
  /\ Relabel(n, NSTypeRoot, Absent)
  /\ Begin("cut", n, Absent, ns[n].parent, FALSE, "delete")

(* sub graft: it is whatever it was no more.                               *)
SubGraft(n, parent) ==
  /\ n \in DOMAIN ns
  /\ ns[n].parent = Absent
  /\ Relabel(n, Absent, parent)
  /\ Begin("graft", n, parent, Absent, FALSE, "create")

(* Mutant: a move that leaves the original has nothing more to do.         *)
GetOriginalLeave ==
  /\ cmd.next = "get"
  /\ Proceed(IF <<cmd.orig, cmd.name>> \notin DOMAIN sn THEN "failed"
             ELSE IF cmd.leave THEN "done" ELSE "delete")
  /\ UNCHANGED vars

(* sub move needs the SubNamespace in the original parent, for its spec.   *)
GetOriginal ==
  /\ cmd.next = "get"
  /\ Proceed(IF <<cmd.orig, cmd.name>> \notin DOMAIN sn THEN "failed"
             ELSE IF cmd.leave THEN "create" ELSE "delete")
  /\ UNCHANGED vars

(* Deleting what is being deleted changes nothing; what is gone is no      *)
(* error but to sub delete.                                                *)
DeleteOriginal ==
  /\ cmd.next = "delete"
  /\ LET k == <<cmd.orig, cmd.name>>
     IN  \/ DeleteSubNamespace(k)
         \/ /\ IF k \in DOMAIN sn THEN sn[k].deleting ELSE cmd.kind # "delete"
            /\ UNCHANGED vars
  /\ Proceed(IF cmd.kind = "move" THEN "create" ELSE "done")

CreateNew ==
  /\ cmd.next = "create"
  /\ <<cmd.parent, cmd.name>> \in Keys
  /\ CreateSubNamespace(<<cmd.parent, cmd.name>>)
  /\ Proceed("done")

(* A request is refused, the API server does not answer, the user gives up.*)
Interrupted ==
  /\ cmd.next \in Requests
  /\ cmd' = NoCommand
  /\ UNCHANGED vars

KInit == Init /\ cmd = NoCommand

KNext ==
  \/ \E n \in Subs :
       \/ SubDelete(n)
       \/ SubCut(n)
       \/ \E parent \in Names :
            \/ SubCreate(n, parent)
            \/ SubGraft(n, parent)
            \/ \E leave \in BOOLEAN : SubMove(n, parent, leave)
  \/ GetOriginal
  \/ DeleteOriginal
  \/ CreateNew
  \/ Interrupted
  \/ /\ Next
     /\ ops' = ops \/ api' = api \/ ops < MaxOthers
     /\ cmd' = [cmd EXCEPT !.alone = @ /\ (ops' = ops \/ api' = api)]

(* Nobody has to end a command: fairness is that of the controllers.       *)
KSpec == KInit /\ [][KNext]_kvars
KFairSpec == KSpec /\ Fairness

-----------------------------------------------------------------------------

(* Objects, caches, events, queue and commands are of the right kind.      *)
KTypeOK == TypeOK /\ cmd \in Commands \cup {NoCommand}

(* What a command that has come to its end says it has done.  Of two users *)
(* who ask for the same name below two parents one is told of a conflict,  *)
(* and gets it when the other has it deleted.  Of sub delete nothing is    *)
(* said here: a loop over children may create again what it has listed.    *)
Kept ==
  LET n == cmd.name
      k == <<cmd.parent, n>>
  IN  CASE cmd.kind = "create" -> k \in DOMAIN sn /\ sn[k].status # "none" /\ n \in DOMAIN ns
        [] cmd.kind \in {"move", "graft"} ->
             /\ n \in DOMAIN ns /\ Parent(ns[n]) = cmd.parent
             /\ k \in DOMAIN sn /\ sn[k].status = "current"
        [] cmd.kind = "cut" ->
             /\ n \in DOMAIN ns /\ Type(ns[n]) = NSTypeRoot
             /\ <<cmd.orig, n>> \notin DOMAIN sn
        [] OTHER -> TRUE

(* A command that has come to its end keeps what it says, for good, unless *)
(* somebody else does something: whatever its steps met on the way, and    *)
(* wherever earlier commands have ended.                                   *)
PromisesKept == <>[](cmd.next = "done" /\ cmd.alone => Kept)

(* Moving, cutting and grafting lose no namespace: while nobody else does  *)
(* something it is not deleted, though its SubNamespace is.                *)
MovesKeepNamespace ==
  [][cmd.kind \in {"move", "cut", "graft"} /\ cmd.alone /\ cmd' # NoCommand
       /\ cmd.name = cmd'.name /\ cmd'.alone
       /\ cmd.name \in DOMAIN ns /\ ~ns[cmd.name].terminating
     => cmd.name \in DOMAIN ns' /\ ~ns'[cmd.name].terminating]_kvars

(* "A SubNamespace resource will be created in the NEW_PARENT namespace.   *)
(* The SubNamespace in the original parent will be deleted if exists":     *)
(* sub move does not fail for the lack of one.                             *)
MoveNeedsNoOriginal ==
  cmd.kind = "move" /\ cmd.next = "failed" => <<cmd.parent, cmd.name>> \in DOMAIN sn
=============================================================================
