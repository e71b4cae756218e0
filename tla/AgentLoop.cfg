\* Three messages over two runs of two turns, two tool calls a turn.
CONSTANTS
  MaxMsgs = 3
  MaxRuns = 2
  MaxTurns = 2
  MaxAttempts = 1
  MaxCalls = 2
SPECIFICATION Spec
INVARIANTS
  NoMessageTwice
  CallsAnswered
  SteeringSkips
  AbortStopsWork
PROPERTIES
  DeliverySpec
CHECK_DEADLOCK FALSE
