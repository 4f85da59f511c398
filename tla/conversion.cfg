\* One object, read and written as v1 and as v2alpha1.
SPECIFICATION Spec
CONSTANTS
  x = x
  y = y
  NoCopy = NoCopy
  Specs <- TwoSpecs
  Types <- TwoTypes
  Note = "note"
  UserTexts <- Junk
  MaxGeneration = 2
INVARIANTS
  TypeOK
  RoundTrip
PROPERTIES
  EditsOnly
  NewSpecNotYetOK
