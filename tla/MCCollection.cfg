CONSTANTS
  Item = {i1, i2, i3}
  Name = {a, b, c}
  MaxSize = 4
SYMMETRY Symmetry
SPECIFICATION Spec
INVARIANTS
  TypeOK
  NameFindsItem
  MembersKnowIt
  IndexContiguous
PROPERTY ImplementsNamedList
