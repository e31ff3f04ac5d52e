SPECIFICATION Spec
CONSTANTS
  PageSize = 2
  Columns = 2
  Clients = {1}
  MaxLists = 2
  MaxConnections = 1
  Uses <- BurstUses
CHECK_DEADLOCK FALSE
INVARIANTS OpenListIsSeen
