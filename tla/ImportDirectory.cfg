SPECIFICATION FreeSidecarSpec
CONSTANTS
  Members = {1, 2}
  PartCount = 2
  Importers = {i1}
  Kind = "directory"
  Command = "transaction-resume"
CHECK_DEADLOCK FALSE
INVARIANTS
  ImportTypeOK
  AfterImport
  NoTornContent
  CompletedIsPreserved
PROPERTIES
  DestinationWriteOnce
