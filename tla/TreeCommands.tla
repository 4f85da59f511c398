----------------------------- MODULE TreeCommands -----------------------------
(***************************************************************************)
(* The commands of kubectl-accurate that set labels of a namespace, and    *)
(* those that print the trees: list, sub list and template list.  Every    *)
(* one that changes labels is an update like those of other users.         *)
(***************************************************************************)
EXTENDS NamespaceTree, Sequences, FiniteSets

ASSUME CommandTypesAssumption == {NSTypeRoot, NSTypeTemplate} \subseteq TypeValues

(* set-type: type Absent stands for the argument none.                     *)
SetType(n, type) ==
  /\ n \in DOMAIN api
  /\ IF type = Absent THEN api[n].type # Absent ELSE Type(api[n]) # type
  /\ UpdateLabels(n, [api[n] EXCEPT !.type = type])

TemplateSet(n, template) ==
  /\ n \in DOMAIN api
  /\ UpdateLabels(n, [api[n] EXCEPT !.template = template])

TemplateUnset(n) ==
  /\ n \in DOMAIN api
  /\ api[n].template # Absent
  /\ UpdateLabels(n, [api[n] EXCEPT !.template = Absent])

CommandNext ==
  \/ Next
  \/ \E n \in Names :
       \/ \E type \in {NSTypeRoot, NSTypeTemplate, Absent} : SetType(n, type)
       \/ \E template \in Names : TemplateSet(n, template)
       \/ TemplateUnset(n)

CommandSpec == Init /\ [][CommandNext]_vars

-----------------------------------------------------------------------------
(* The lines that are printed.  A line is the path from the top of its     *)
(* tree: two lines for one namespace are two paths.                        *)

(* The tops of list and of template list, when none is named.              *)
ListRoots == {n \in DOMAIN api : Type(api[n]) = NSTypeRoot}

(* Mutant: a template is a top though it has a template of its own.        *)
TemplateListRootsAll == {n \in DOMAIN api : Type(api[n]) = NSTypeTemplate}

TemplateListRoots ==
  {n \in DOMAIN api : Type(api[n]) = NSTypeTemplate /\ api[n].template = Absent}

(* childMap: by the label, where it is there, blank or not.                *)
ListChildren == [n \in Names |-> {c \in DOMAIN api : api[c].parent = n}]
TemplateListChildren == [n \in Names |-> {c \in DOMAIN api : api[c].template = n}]

(* showNSRecursive, to a depth of more calls than there are namespaces.    *)
Lines(tops, childMap) ==
  LET depth[i \in Nat] ==
        IF i = 0 THEN {<<n>> : n \in tops}
        ELSE UNION {{Append(line, c) : c \in childMap[line[i]]} : line \in depth[i - 1]}
  IN  UNION {depth[i] : i \in 0..Cardinality(Names)}

(* Every one of these namespaces is printed once, and nothing else is: the *)
(* recursion comes to its end.                                             *)
ShowsOnce(lines, names) ==
  /\ {line[Len(line)] : line \in lines} = names
  /\ Cardinality(lines) = Cardinality(names)

-----------------------------------------------------------------------------

(* list prints every root and every sub-namespace once, whatever labels    *)
(* have been set in whatever order, and comes to its end.                  *)
ListShowsTree ==
  ShowsOnce(Lines(ListRoots, ListChildren),
            {n \in DOMAIN api : Type(api[n]) = NSTypeRoot \/ Parent(api[n]) # ""})

(* template list prints every template and every instance once.  Where a   *)
(* template label is there without a value it does not: such a template    *)
(* is no top, and hangs below nothing.                                     *)
TemplateListShowsTree ==
  (\A n \in DOMAIN api : api[n].template # "") =>
    ShowsOnce(Lines(TemplateListRoots, TemplateListChildren),
              {n \in DOMAIN api : Type(api[n]) = NSTypeTemplate \/ Template(api[n]) # ""})
=============================================================================
