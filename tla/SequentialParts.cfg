SPECIFICATION Spec
CONSTANTS
  Hint <- MCHint
  MaxNumber = 20
  NameSpaces <- MCNameSpaces
  Elements <- MCElements
  AttrLists <- MCAttrLists
  Others <- MCOthers
  MaxDepth = 2
  MaxSeq = 2
  Pieces <- MCPieces
  Seeds <- MCSeeds
  MaxMore <- MCMaxMore
  Nodes = {n1, n2, n3, n4, n5, n6}
  Expiries = {0, 1}
  RootNames <- MCRootNames
  Key <- MCKey
  ServerKey <- MCServerKey
  xorKeySeed <- MCxorKeySeed
  xorClientKey <- MCxorClientKey
  BlockSize = 16
  KeySize = 16
CHECK_DEADLOCK FALSE
INVARIANTS
  TypeOK
  ReadsBack
  PrefixesBijective
  ScopesAgree
  StructsReadBack
  TextsReadBack
  HeadersExact
  MessagesReadBack
  HeapExact
