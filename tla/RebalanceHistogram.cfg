CONSTANTS
  LogTable = 6
  LogAlphas = {5}
  Histograms <- EqualSymbols
  Log2Of <- Log2Of64
  Behind <- IndexLists
  Infinite = 1073741823
  ChunkBits = 7
  Signature = 3
  ExtraWidth <- Widths
  MaxTokens = 0
SPECIFICATION Spec
INVARIANT PopulationsRepresentable
CHECK_DEADLOCK FALSE
