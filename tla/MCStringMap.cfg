CONSTANTS
  Key <- MCKey
  Value = {1, 2}
  HashKey <- MCHash
  DEFAULT_HASH_TABLE_SIZE = 2
  DEFAULT_BLOCK_SIZE_RATIO = 2
  DEFAULT_MAX_BLOCK_SIZE = 3
  Wanted = {4}
SPECIFICATION Spec
INVARIANTS
  TypeOK
  CellsAccounted
  EveryKeyIsFound
  LoadBounded
  IterationComplete
PROPERTY ImplementsDictionary
