SPECIFICATION Spec
CONSTANTS
  MaxSymbols = 2
  NoDoc = NoDoc
  Docs = {d1}
  Uses <- TypingUses
  MaxEpochs = 2
  PreviousText = 1
CHECK_DEADLOCK FALSE
INVARIANTS Bookkeeping ScreenMatches ConversionMatchesReading AwaitedStillPending DocumentsSettle
PROPERTIES ResultsKeepTheirPlace ChangedTextIsLeft
