\* Two hook calls, one of them without a deadline, and the shutdown call of Close.
CONSTANTS
  Calls = {hook, command, shutdown}
  Deadline = {hook, shutdown}
  CloseCall = shutdown
  PipeCap = 1
SPECIFICATION FairSpec
INVARIANTS
  NoSendBlocks
  NoLeak
  OwnAnswer
PROPERTIES
  DeadlineHolds
  CloseFrees
CHECK_DEADLOCK FALSE
