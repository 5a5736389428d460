SPECIFICATION Spec
CONSTANTS
  Names = {f1, f2}
  Described = {f1}
  Target <- Apart
  Commands = {c1}
CHECK_DEADLOCK FALSE
INVARIANTS
  TypeOK
  DoneIsThere
  BooksAgree
PROPERTIES
  OnlyVerifiedMedia
