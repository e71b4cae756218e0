\* Two files; up to five entries over both, two messages, two state or label entries a session.
CONSTANTS
  Files = {f1, f2}
  NoFile = NoFile
  Bodies <- ConversationBodies
  MaxIds = 5
  MaxFaults = 0
  MaxLegacy = 0
  MaxMsgs = 2
  KeepRecent = 1
  MaxOthers = 2
  MaxOpen = 1
  Models = {m1, m2}
  Foreign = Foreign
SPECIFICATION ConvSpec
INVARIANTS
  NothingLost
  ModelFollows
PROPERTIES
  BranchesFixed
SYMMETRY Symmetry
CHECK_DEADLOCK FALSE
