SPECIFICATION Spec
CONSTANTS
  Members = {1, 2}
  PartCount = 1
  Importers = {i1}
  Kind = "directory"
  Command = "transaction-resume"
  Recoverers = {r1}
  Executions = {x1}
  NoExecution = NoExecution
  MaxPlans = 1
  ChecksSource = TRUE
  Dependencies <- NoDependencies
  OneAtATime = TRUE
CHECK_DEADLOCK FALSE
INVARIANTS
  TypeOK
  CompletedEntryIsPlaced
  FinishedIsFinished
PROPERTIES
  DestinationWriteOnce
  CompletedActionsAreKept
  EntriesFollowTable
