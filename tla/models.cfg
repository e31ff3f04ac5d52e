CONSTANTS
  MaxRuns = 2
  Records = {"r1", "r2"}
  Revisions = {1, 2}
  Releases = {1, 2}
  Devices = {"d1", "d2"}
  Uses <- ModelUses
SPECIFICATION LiveSpec
INVARIANTS Bookkeeping TextsGo NamedIsThere
PROPERTIES AppliedIsRunning OperationsEnd
CHECK_DEADLOCK FALSE
