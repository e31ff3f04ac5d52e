SPECIFICATION LiveSpec
CONSTANTS
  MaxSymbols = 1
  NoDoc = NoDoc
  Docs = {d1, d2}
  Uses <- DocumentsUses
  MaxEpochs = 2
  PreviousText = 1
CHECK_DEADLOCK FALSE
INVARIANTS DocumentsKeepApart
PROPERTIES SealedTextSettles
