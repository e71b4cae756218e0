\* Three requests; a dialog with a timeout.
CONSTANTS
  MaxRequests = 3
  Dialogs = {d1}
  Timed = {d1}
  NoDialog = NoDialog
SPECIFICATION FairSpec
INVARIANTS
  ActionsReachHost
PROPERTIES
  RequestsServed
CHECK_DEADLOCK FALSE
