\* The cache of Namespaces lags: another parent's namespace is deleted.
SPECIFICATION Spec
CONSTANTS
  r1 = r1
  r2 = r2
  s1 = s1
  s2 = s2
  Absent = Absent
  NoJob = NoJob
  Names <- OneSub
  Roots <- TwoRoots
  NamingPolicies <- NoPolicies
  AllowCascadingDeletion = FALSE
  StaleNs = TRUE
  StaleSn = FALSE
  Careful = TRUE
  MaxOps = 3
PROPERTIES
  DeletesOnlyOwn
CHECK_DEADLOCK FALSE
