\* Both caches up to date, careful users: a circle of namespaces.
SPECIFICATION Spec
CONSTANTS
  r1 = r1
  r2 = r2
  s1 = s1
  s2 = s2
  Absent = Absent
  NoJob = NoJob
  Names <- TwoSubs
  Roots <- OneRoot
  NamingPolicies <- NoPolicies
  AllowCascadingDeletion = FALSE
  StaleNs = FALSE
  StaleSn = FALSE
  Careful = TRUE
  MaxOps = 5
INVARIANTS
  NoCircle
CHECK_DEADLOCK FALSE
