\* Commands, other users' requests, fresh caches.
SPECIFICATION KFairSpec
CONSTANTS
  r1 = r1
  r2 = r2
  s1 = s1
  Absent = Absent
  NoJob = NoJob
  Names <- OneSub
  Roots <- TwoRoots
  NamingPolicies <- NoPolicies
  AllowCascadingDeletion = FALSE
  StaleNs = FALSE
  StaleSn = FALSE
  Careful = TRUE
  MaxOps = 4
  MaxOthers = 2
INVARIANTS
  KTypeOK
  FinalizerKept
  JobObjectDeleting
PROPERTIES
  MovesKeepNamespace
  PromisesKept
CHECK_DEADLOCK FALSE
