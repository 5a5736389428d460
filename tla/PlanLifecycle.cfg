SPECIFICATION Spec
CONSTANTS
  Plans = {p1}
  Commands = {c1, c2}
  Media <- MCMedia
  Image <- MCImage
  Suffix <- MCSuffix
  Selections <- MCSelections
  MaxVersion = 1
  NoPlan = NoPlan
SYMMETRY Interchangeable
CHECK_DEADLOCK FALSE
INVARIANTS
  TypeOK
  ImportedWasApproved
  OnlySafeMembers
  ImportedIsLinked
