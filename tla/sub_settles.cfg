\* Two levels of sub-namespaces, cascading deletion, a lagging cache of Namespaces.
SPECIFICATION FairSpec
CONSTANTS
  r1 = r1
  r2 = r2
  s1 = s1
  s2 = s2
  Absent = Absent
  NoJob = NoJob
  Names <- TwoSubs
  Roots <- OneRoot
  NamingPolicies <- NoPolicies
  AllowCascadingDeletion = TRUE
  StaleNs = TRUE
  StaleSn = FALSE
  Careful = FALSE
  MaxOps = 3
INVARIANTS
  TypeOK
  OnlyWhereAsked
PROPERTIES
  EventuallySettled
  DeletionCompletes
CHECK_DEADLOCK FALSE
