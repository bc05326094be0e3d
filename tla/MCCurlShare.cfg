CONSTANTS
  Object = {o1, o2}
  Handle = {h1, h2, h3}
  Share = {s1, s2, s3}
  Conn = {c1}
  NULL = NULL
SYMMETRY Symmetry
SPECIFICATION Spec
INVARIANTS
  TypeOK
  InUseCountExact
  NoDanglingShare
  SettingsInForce
  HandlesNotShared
  PooledConnectionsOwned
CHECK_DEADLOCK FALSE
