SPECIFICATION Spec
CONSTANTS
  Paths = {"image", "tree"}
  ProfileSet <- MCProfileSet
  InventorySet <- MCInventorySet
  FilesSet <- MCFilesSet
  Reclassified <- MCReclassified
  Observations <- MCObservations
CHECK_DEADLOCK FALSE
INVARIANTS
  WritesOnlyMutable
  NothingIsReplaced
  QualifiedIsSafe
