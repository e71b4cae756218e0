\* Three runs of two turns, two prompts, two tool calls a turn.
CONSTANTS
  MaxMsgs = 2
  MaxRuns = 3
  MaxTurns = 2
  MaxCalls = 2
SPECIFICATION Spec
PROPERTIES
  ImplementsLoop
CHECK_DEADLOCK FALSE
