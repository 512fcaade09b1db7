CONSTANTS
  LogTable = 6
  LogAlphas = {3, 5}
  Histograms <- SearchedHistograms
  Log2Of <- Log2Of64
  Behind <- IndexLists
  Infinite = 1073741823
  ChunkBits = 7
  Signature = 3
  ExtraWidth <- Widths
  MaxTokens = 3
SPECIFICATION Spec
INVARIANT StreamDecodes
PROPERTY TablesAlwaysFit
CHECK_DEADLOCK FALSE
