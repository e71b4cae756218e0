\* The code against RESEARCH.md:111, firstKeptEntryId is honoured; in a fork.
CONSTANTS
  Files = {f1, f2}
  NoFile = NoFile
  Bodies <- ConversationBodies
  MaxIds = 8
  MaxFaults = 0
  MaxLegacy = 0
  MaxMsgs = 2
  KeepRecent = 1
  MaxOthers = 2
  MaxOpen = 1
  Models = {m1}
  Foreign = Foreign
SPECIFICATION ConvSpec
INVARIANTS
  ForkLosesNothing
SYMMETRY Symmetry
CHECK_DEADLOCK FALSE
