CONSTANTS
  MaxTokens = 4
  FirstItems = 1
  BufferSizes = {0}
  FirstBuffer = 4
SPECIFICATION JsonSpec
INVARIANT DoubleQuotesRead
CHECK_DEADLOCK FALSE
