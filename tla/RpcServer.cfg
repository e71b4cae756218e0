CONSTANTS
  MaxMsgs = 2
  MaxRuns = 2
  MaxTurns = 2
  MaxAttempts = 1
  MaxCalls = 1
SPECIFICATION RpcFairSpec
INVARIANTS
  SessionHasOneOwner
  AbortTargetIsCurrent
PROPERTIES
  PromptEnds
  SteerServed
CHECK_DEADLOCK FALSE
