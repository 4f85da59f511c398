\* A sub-namespace is moved while its old parent hands its labels on.
SPECIFICATION Spec
CONSTANTS
  r = r
  q = q
  s = s
  Absent = Absent
  NoJob = NoJob
  Names <- ThreeNames
  Starts <- TwoRoots
  Keys = {"team"}
  Values <- TwoValues
  LabelKeys <- OneKey
  SubNamespaceLabelKeys <- OneKey
  NamingPolicies <- NoPolicies
  AllowCascadingDeletion = FALSE
  StaleNs = FALSE
  StaleSn = FALSE
  MaxOps = 2
PROPERTIES
  OnlyUsersMove
CHECK_DEADLOCK FALSE
