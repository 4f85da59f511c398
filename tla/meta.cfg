\* Up-to-date caches; users label, move and write SubNamespaces.
SPECIFICATION FairSpec
CONSTANTS
  r = r
  q = q
  s = s
  Absent = Absent
  NoJob = NoJob
  Names <- ThreeNames
  Starts <- TwoRoots
  Keys = {"team"}
  Values <- TwoValues
  LabelKeys <- OneKey
  SubNamespaceLabelKeys <- OneKey
  NamingPolicies <- NoPolicies
  AllowCascadingDeletion = FALSE
  StaleNs = FALSE
  StaleSn = FALSE
  MaxOps = 3
INVARIANTS
  TypeOK
  LabelsInPlace
PROPERTIES
  ComesToRest
CHECK_DEADLOCK FALSE
