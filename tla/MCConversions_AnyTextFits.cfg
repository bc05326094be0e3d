CONSTANTS
  Byte <- MCByte
  MaxLen = 5
  Code <- MCCode
  MaxCode = 5
  TraceByte <- MCTraceByte
  Width = 3
  MaxSize = 7
  SizeT = 65536
SPECIFICATION ConversionsSpec
INVARIANT AnyTextFits
