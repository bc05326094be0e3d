CONSTANTS
  Text = {a, b}
  Response = {r}
  Empty = Empty
  MaxParts = 2
SYMMETRY Symmetry
SPECIFICATION Spec
INVARIANTS
  TypeOK
  SourceIsSent
  ResponseReachesDestination
  ProgressRecordLive
