SPECIFICATION LiveSpec
CONSTANTS
  s1 = s1
  s2 = s2
  b1 = b1
  b2 = b2
  NoBase = NoBase
  Sessions = {s1, s2}
  Numbers = {1, 2}
  Literals <- OnlyLiterals
  Bases = {b1, b2}
  Window = 2
  QueueLimit = 2
  Uses <- CollectingUses
CHECK_DEADLOCK FALSE
INVARIANTS Bookkeeping ForgottenStaysOut TrainedOnce CountShown
PROPERTIES SettlesInTime
