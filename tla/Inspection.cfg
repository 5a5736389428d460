CONSTANTS
  Commands = {c1, c2}
  MaxPages = 2
  MaxTotal = 3
  NoCheck = NoCheck
SPECIFICATION Spec
INVARIANTS TypeOK CountedOnce CompletedIsWhole
PROPERTIES CommandsEnd
CHECK_DEADLOCK FALSE
