\* Two sessions, four entries, two actions answered.
CONSTANTS
  MaxEntries = 4
  MaxSessions = 2
  MaxActions = 2
SPECIFICATION Spec
INVARIANTS
  MirrorFollows
  CallbacksCalled
CHECK_DEADLOCK FALSE
