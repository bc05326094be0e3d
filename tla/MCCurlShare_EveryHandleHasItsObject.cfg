CONSTANTS
  Object = {o1, o2}
  Handle = {h1, h2, h3}
  Share = {s1, s2, s3}
  Conn = {c1}
  NULL = NULL
SPECIFICATION Spec
INVARIANT EveryHandleHasItsObject
CHECK_DEADLOCK FALSE
