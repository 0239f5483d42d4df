CONSTANTS
  NULL = NULL
  Clients = {alice, bob}
  Capacity = 8
  CutBefore = {"MSG", "HELO", "BYE"}
  ann = ann
  joe = joe
  Names = {ann}
  Usernames <- SomeUsernames
  MaxLines = 0
SPECIFICATION Spec
SYMMETRY Symmetry
INVARIANT ConnectedIsQueued
CHECK_DEADLOCK FALSE
