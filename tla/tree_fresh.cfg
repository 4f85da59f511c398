\* Requests decided one at a time on the stored state, sent with care.
SPECIFICATION CommandSpec
CONSTANTS
  a = a
  b = b
  c = c
  d = d
  Absent = Absent
  Names <- ThreeNames
  Blanks <- BothBlanks
  TypeValues <- AnyType
  MaxLag = 0
  Discipline <- AllDisciplines
  AllowCascadingDeletion = FALSE
INVARIANTS
  TypeOK
  NoDanglingSub
  NoDanglingInstance
  Acyclic
  ParentsAreRootOrSub
  TemplatesAreTemplates
  NobodyBelowTerminating
  ListShowsTree
  TemplateListShowsTree
PROPERTIES
  ImplementsForest
SYMMETRY Symmetric
