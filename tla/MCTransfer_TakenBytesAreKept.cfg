CONSTANTS
  Body <- MCBody
  Responses <- MCResponses
  Byte <- MCByte
  Nul = 0
  BufSize = 3
  Watermark = 2
  OldSizes = {}
  MaxRetries = 2
SPECIFICATION Spec
INVARIANT TakenBytesAreKept
