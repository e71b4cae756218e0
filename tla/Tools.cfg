SPECIFICATION Spec
CONSTANTS
  Files = {1, 2}
  Letters = {"a", "b"}
  MaxText = 4
  MaxPage = 2
  MaxFound = 2
  MaxLine = 2
  MaxCommands = 2
INVARIANTS
  PagesAndMatches
  UniqueUpToOverlap
  NoFalseSuccess
  AbortMeetsItsCommand
 
CHECK_DEADLOCK FALSE
