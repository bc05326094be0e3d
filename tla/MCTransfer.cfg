CONSTANTS
  Body <- MCBody
  Responses <- MCResponses
  Byte <- MCByte
  Nul = 0
  BufSize = 3
  Watermark = 2
  OldSizes = {0, 2, 6}
  MaxRetries = 2
SPECIFICATION LiveSpec
INVARIANTS
  TypeOK
  BodyAccounted
  UploadUnbroken
  FirstAttemptSendsAll
  ResponseExact
PROPERTY TransferEnds
