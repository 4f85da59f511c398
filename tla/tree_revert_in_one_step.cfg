\* Somebody turns a sub-namespace into an instance in one step.
SPECIFICATION Spec
CONSTANTS
  a = a
  b = b
  c = c
  d = d
  Absent = Absent
  Names <- FourNames
  Blanks <- NoBlank
  TypeValues <- RootOrTemplate
  MaxLag = 0
  Discipline <- AllButRevert
  AllowCascadingDeletion = FALSE
PROPERTIES
  NoRevertWithChildren
SYMMETRY Symmetric
