\* Caches up to date, careful users, namespaces relabelled at rest and never deleted.
SPECIFICATION FairSpec
CONSTANTS
  a = a
  b = b
  c = c
  f = f
  Absent = Absent
  NoJob = NoJob
  Names <- ThreeNames
  Fields <- OneField
  Trees <- AllTrees
  AllowCascadingDeletion = FALSE
  Stale = FALSE
  AnyTime = FALSE
  MayDelete = FALSE
  Careless = FALSE
  MaxOps = 3
INVARIANTS
  TypeOK
  CopiesInPlace
  NoStaleCopies
PROPERTIES
  OriginsKept
  ComesToRest
CHECK_DEADLOCK FALSE
