SPECIFICATION LiveSpec
CONSTANTS
  PageSize = 2
  Columns = 2
  Clients = {1, 2}
  MaxLists = 2
  MaxConnections = 3
  Uses <- CandidateUses
CHECK_DEADLOCK FALSE
INVARIANTS CandidatesOK ScreenIsTrue ListIsLocked
PROPERTIES TapSwitches ClosedListLeaves
