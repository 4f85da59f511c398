--------------------------- MODULE MCNamespaceTree ---------------------------
(* NamespaceTree on a few namespaces; the names are interchangeable.       *)
EXTENDS TreeCommands, TLC

CONSTANTS a, b, c, d

ThreeNames == {a, b, c}
FourNames == {a, b, c, d}

Symmetric == Permutations(Names)

NoBlank == {Absent}
BothBlanks == {Absent, ""}
RootOrTemplate == {NSTypeRoot, NSTypeTemplate}
AnyType == {NSTypeRoot, NSTypeTemplate, "other"}

AllDisciplines == {"live", "template", "revert"}
AllButLive == {"template", "revert"}
AllButTemplate == {"live", "revert"}
AllButRevert == {"live", "template"}
=============================================================================
