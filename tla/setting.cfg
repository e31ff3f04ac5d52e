SPECIFICATION Spec
CONSTANTS
  MaxSymbols = 1
  NoDoc = NoDoc
  Docs = {d1}
  Uses <- SettingUses
  MaxEpochs = 2
  PreviousText = 1
CHECK_DEADLOCK FALSE
INVARIANTS QuietMeansFinal
