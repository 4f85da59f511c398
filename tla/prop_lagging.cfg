\* Caches lag, users do anything at any time, namespaces are deleted.
SPECIFICATION FairSpec
CONSTANTS
  a = a
  b = b
  c = c
  f = f
  Absent = Absent
  NoJob = NoJob
  Names <- ThreeNames
  Fields = {}
  Trees <- SubTrees
  AllowCascadingDeletion = FALSE
  Stale = TRUE
  AnyTime = TRUE
  MayDelete = TRUE
  Careless = TRUE
  MaxOps = 3
PROPERTIES
  ComesToRest
CHECK_DEADLOCK FALSE
