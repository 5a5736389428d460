SPECIFICATION Spec
CONSTANTS
  Sessions = {1, 2}
  Nobody = Nobody
  NoFile = NoFile
CHECK_DEADLOCK FALSE
INVARIANTS
  TypeOK
  Exclusion
  EndedMeansStopped
  AbandonedIsReported
PROPERTIES
  StopFreesTheLock
