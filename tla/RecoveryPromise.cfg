SPECIFICATION PromiseSpec
CONSTANTS
  Members = {1, 2}
  PartCount = 1
  Recoverers = {r1}
  Executions = {x1}
  NoExecution = NoExecution
  MaxPlans = 1
  ChecksSource = TRUE
  Dependencies <- ForwardDependency
CHECK_DEADLOCK FALSE
PROPERTIES
  KeepsPromise
