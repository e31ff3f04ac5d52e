SPECIFICATION LiveSpec
CONSTANTS
  Groups = {g1, g2}
  Uses <- WorkerUses
CHECK_DEADLOCK FALSE
INVARIANTS Bookkeeping DiscardsItsOwn SettlesOnTheService
PROPERTIES IsBackend RequestsAnswered StopEnds TogglesStand
