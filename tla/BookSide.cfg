SPECIFICATION SideSpec
CONSTANTS
  KeyBits = 3
  Keys = {0, 1, 2, 4}
  Len_nodes = 8
  Expiries = {1, 2, 9}
  Times = {2, 3}
INVARIANTS
  NodesPartitioned
  ExpiryCacheExact
  FullExactly
  OperationsExact
