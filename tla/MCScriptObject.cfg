CONSTANTS
  Class <- MCClass
  endmeths <- MCendmeths
  endprops <- MCendprops
  Spelling <- MCSpelling
  Lower <- MCLower
  HashFunction <- MCHashFunction
  Header = {h1, h2}
  Recipient = {r1}
  Node = {n1, n2, n3, n4}
  NULL = NULL
  Pragma = Pragma
SYMMETRY Symmetry
SPECIFICATION ScriptSpec
INVARIANTS
  ScriptTypeOK
  NameFindsDeclaration
  AnswersMatchDeclarations
  OptionsPointToLists
  NodesAccounted
PROPERTY ImplementsRequestHeaders
