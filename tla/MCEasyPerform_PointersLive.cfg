CONSTANTS
  Text = {a, b}
  Response = {r}
  Empty = Empty
  MaxParts = 2
SPECIFICATION Spec
INVARIANT PointersLive
