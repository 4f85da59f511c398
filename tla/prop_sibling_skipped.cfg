\* One of two siblings is being deleted while a resource is propagated.
SPECIFICATION Spec
CONSTANTS
  a = a
  b = b
  c = c
  f = f
  Absent = Absent
  NoJob = NoJob
  Names <- ThreeNames
  Fields = {}
  Trees <- OnlySiblings
  AllowCascadingDeletion = FALSE
  Stale = FALSE
  AnyTime = FALSE
  MayDelete = TRUE
  Careless = FALSE
  MaxOps = 2
INVARIANTS
  CopiesInPlace
CHECK_DEADLOCK FALSE
