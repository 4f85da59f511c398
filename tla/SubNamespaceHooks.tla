-------------------------- MODULE SubNamespaceHooks --------------------------
(***************************************************************************)
(* The webhooks for SubNamespaces, hooks/subnamespace.go.  A SubNamespace  *)
(* n in the namespace p asks for a namespace n below p; it is known by its *)
(* key <<p, n>>.                                                           *)
(***************************************************************************)
EXTENDS NamespaceHooks, Naturals, FiniteSets

CONSTANT NamingPolicies  \* each maps the roots it is about to the names it allows

(* getRootNamespace: up the parent labels to the first root; "" when the   *)
(* walk meets a namespace that is not there.  It has no guard against a    *)
(* cycle and would not return from one: RootOf is no root then.            *)
RootOf(view, n) ==
  LET step(x) ==
        IF x = "" \/ Type(view[x]) = NSTypeRoot THEN x
        ELSE IF Parent(view[x]) \in DOMAIN view THEN Parent(view[x]) ELSE ""
      walk[i \in Nat] == IF i = 0 THEN n ELSE step(walk[i - 1])
  IN  walk[Cardinality(DOMAIN view)]

(* notMatchingNamingPolicy, the other way round.                           *)
MatchesNamingPolicies(name, root) ==
  \A policy \in NamingPolicies : root \in DOMAIN policy => name \in policy[root]

(* The namespace of the SubNamespace is a root or a sub-namespace, and its *)
(* root's naming policies like the name.  Labels and annotations that are  *)
(* not valid are not modelled.                                             *)
AdmitsCreate(view, k) ==
  /\ k[1] \in DOMAIN view
  /\ Type(view[k[1]]) = NSTypeRoot \/ Parent(view[k[1]]) # ""
  /\ RootOf(view, k[1]) # "" /\ Type(view[RootOf(view, k[1])]) = NSTypeRoot
  /\ MatchesNamingPolicies(k[2], RootOf(view, k[1]))

(* A SubNamespace whose namespace has children is not deleted.             *)
AdmitsDelete(view, k) ==
  ~AllowCascadingDeletion /\ k[2] \in DOMAIN view /\ Parent(view[k[2]]) = k[1]
    => ChildrenOf(view, k[2]) = {}
=============================================================================
