SPECIFICATION Spec
CONSTANTS
  Groups = {g1, g2}
  Uses <- SilentUses
CHECK_DEADLOCK FALSE
INVARIANTS ConnectionShown
