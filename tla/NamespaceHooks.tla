--------------------------- MODULE NamespaceHooks ---------------------------
(***************************************************************************)
(* The validating webhook for Namespaces, hooks/namespace.go, as           *)
(* predicates: each says whether an admission request is allowed.          *)
(*                                                                         *)
(* A namespace is a record                                                 *)
(*    type, parent, template: the accurate.cybozu.com labels, each Absent  *)
(*                            when the key is not there                    *)
(*    terminating:            whether it has a deletion timestamp          *)
(* and a view is a function from the names of the namespaces somebody sees *)
(* to these records.  The webhook reads through the manager's cache, so    *)
(* its view need not be what the API server stores.                        *)
(***************************************************************************)

CONSTANTS Names,                  \* the names namespaces may have
          Absent,                 \* a label key that is not there
          AllowCascadingDeletion  \* the setting of the same name

NSTypeRoot == "root"
NSTypeTemplate == "template"

ASSUME NamesAssumption == "" \notin Names /\ Absent \notin Names \cup {""}
ASSUME CascadingAssumption == AllowCascadingDeletion \in BOOLEAN

-----------------------------------------------------------------------------

(* Indexing a label map in Go: an absent key reads as the empty string.    *)
Value(label) == IF label = Absent THEN "" ELSE label

Type(ns) == Value(ns.type)
Parent(ns) == Value(ns.parent)
Template(ns) == Value(ns.template)

(* What the namespace hangs below: its parent, else its template.          *)
GetParent(ns) == IF Parent(ns) # "" THEN Parent(ns) ELSE Template(ns)

(* The two cache indices the handlers list by.                             *)
ChildrenOf(view, n) == {x \in DOMAIN view : Parent(view[x]) = n}
InstancesOf(view, n) == {x \in DOMAIN view : Template(view[x]) = n}

(* Mutants, here and below: the handler with the bug its comment names.    *)

(* A parent that is not found is no error.                                 *)
CheckParentIgnoreNotFound(view, name, typ) ==
  name \in DOMAIN view => Type(view[name]) = typ \/ Parent(view[name]) # ""

(* Any namespace will do as a parent.                                      *)
CheckParentAnyType(view, name, typ) == name \in DOMAIN view

(* checkParent: name is seen and is of the wanted type, or is itself a     *)
(* sub-namespace (whatever the wanted type is).                            *)
CheckParent(view, name, typ) ==
  /\ name \in DOMAIN view
  /\ Type(view[name]) = typ \/ Parent(view[name]) # ""

(* A sub-namespace may carry a type and a template.                        *)
HandleCreateMixed(view, n, ns) ==
  /\ Parent(ns) # "" => Parent(ns) # n /\ CheckParent(view, Parent(ns), NSTypeRoot)
  /\ Template(ns) # "" => Template(ns) # n /\ CheckParent(view, Template(ns), NSTypeTemplate)

HandleCreate(view, n, ns) ==
  /\ Parent(ns) # "" =>
       /\ Parent(ns) # n
       /\ ns.template = Absent
       /\ ns.type = Absent
       /\ CheckParent(view, Parent(ns), NSTypeRoot)
  /\ Template(ns) # "" =>
       /\ Template(ns) # n
       /\ CheckParent(view, Template(ns), NSTypeTemplate)

(* Only the direct parent is compared.                                     *)
WalksOneStep(view, n, p) ==
  p \in DOMAIN view => p # n /\ GetParent(view[p]) # n

(* The loop at the top of handleUpdate reaches the top of a tree: the set  *)
(* m of the names it visits starts at p, leads only upward, never to n     *)
(* nor to a name that is not seen, and never back into itself.             *)
WalksToTop(view, n, p) ==
  p # "" =>
    \E m \in SUBSET (DOMAIN view \ {n}) :
      /\ p \in m
      /\ \A x \in m : GetParent(view[x]) \in m \cup {""}
      /\ \A S \in (SUBSET m) \ {{}} : \E x \in S : GetParent(view[x]) \notin S

(* The type label may change under the feet of the instances.              *)
HandleUpdateRootsOnly(view, n, new, old) ==
  /\ WalksToTop(view, n, GetParent(new))
  /\ Type(old) = NSTypeRoot /\ Type(new) # NSTypeRoot => ChildrenOf(view, n) = {}
  /\ GetParent(new) = "" /\ Parent(old) # "" /\ Type(new) # NSTypeRoot =>
       ChildrenOf(view, n) = {}
  /\ HandleCreate(view, n, new)

HandleUpdate(view, n, new, old) ==
  /\ WalksToTop(view, n, GetParent(new))
  /\ Type(old) # Type(new) =>
       /\ Type(old) = NSTypeRoot => ChildrenOf(view, n) = {}
       /\ Type(old) = NSTypeTemplate => InstancesOf(view, n) = {}
  /\ GetParent(new) = "" /\ Parent(old) # "" /\ Type(new) # NSTypeRoot =>
       ChildrenOf(view, n) = {}
  /\ HandleCreate(view, n, new)

(* A sub-namespace is deleted without a look at its children.              *)
HandleDeleteTopsOnly(view, n, ns) ==
  /\ Type(ns) = NSTypeRoot /\ ~AllowCascadingDeletion => ChildrenOf(view, n) = {}
  /\ Type(ns) = NSTypeTemplate => InstancesOf(view, n) = {}

(* The switch of handleDelete takes the first case that applies; a list of *)
(* dependants is asked for only in one of its first three cases.           *)
HandleDelete(view, n, ns) ==
  LET guardsRoot == Type(ns) = NSTypeRoot /\ ~AllowCascadingDeletion
      guardsTemplate == ~guardsRoot /\ Type(ns) = NSTypeTemplate
      guardsSub == ~guardsTemplate /\ Parent(ns) # "" /\ ~AllowCascadingDeletion
  IN  /\ guardsRoot \/ guardsSub => ChildrenOf(view, n) = {}
      /\ guardsTemplate => InstancesOf(view, n) = {}
=============================================================================
