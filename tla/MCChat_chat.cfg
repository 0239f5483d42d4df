CONSTANTS
  NULL = NULL
  Clients = {alice, bob}
  Capacity = 5
  CutBefore = {"MSG", "HELO", "BYE"}
  ann = ann
  joe = joe
  Names = {ann, joe}
  Usernames <- SomeUsernames
  MaxLines = 2
SPECIFICATION FairSpec
INVARIANTS QueuedHearAll StaleEntriesGo TalksOnlyWhenJoined
PROPERTIES BroadcastEnds 
CHECK_DEADLOCK FALSE
