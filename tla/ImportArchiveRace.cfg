SPECIFICATION ImportSpec
CONSTANTS
  Members = {1}
  PartCount = 1
  Importers = {i1, i2}
  Kind = "archive"
  Command = "plan-execute"
CHECK_DEADLOCK FALSE
PROPERTIES
  SettledFilesStay
