CONSTANTS
  Objects = {o1, o2}
  Contents = {a}
  Operators = {c1}
  MaxEvents = 4
  NoRecord = NoRecord
  Emptied = Emptied
SPECIFICATION OpSpec
INVARIANTS HistoryGrows
CHECK_DEADLOCK FALSE
