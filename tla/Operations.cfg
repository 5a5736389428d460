CONSTANTS
  Objects = {o1}
  Contents = {a, b}
  Operators = {c1}
  MaxEvents = 3
  NoRecord = NoRecord
  Emptied = Emptied
  Jobs = {j1, j2}
  NoJob = NoJob
SPECIFICATION Spec
INVARIANTS TypeOK RecordsAreBacked ListedHistoryIsKept LocksAreOwned
SYMMETRY Symmetry
CHECK_DEADLOCK FALSE
