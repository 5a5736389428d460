SPECIFICATION FairRaceSpec
CONSTANTS
  Members = {1}
  PartCount = 1
  Recoverers = {r1, r2}
  Executions = {x1}
  NoExecution = NoExecution
  MaxPlans = 1
  ChecksSource = TRUE
  Dependencies <- NoDependencies
CHECK_DEADLOCK FALSE
INVARIANTS
  PlanLockExcludes
PROPERTIES
  EveryOtherEndUnlocks
  CommandsEnd
