CONSTANTS
  Callers = {p1, p2, p3}
  Data = {j1, j2}
  Size = 2
  PosMod = 8
  MaxLag = 2
  NoData = NoData
  NoCaller = NoCaller
SPECIFICATION Spec
INVARIANTS TypeOK CellExclusive
PROPERTIES IsBoundedQueue
SYMMETRY Symmetry
