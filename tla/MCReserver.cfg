SPECIFICATION Spec
CONSTANTS
  t1 = t1
  t2 = t2
  Thread <- MCThread
  Block <- MCBlock
  cnRealm = 2
  Size <- MCSize
  csHeap = 2
  csGlobalHeap = 2
  csSystem = 4
  LocalNum <- MCLocalNum
  GlobalNum <- MCGlobalNum
  mnRevolver = 1
  NULL = NULL
SYMMETRY Symmetry
INVARIANTS TypeOK OnePlace RightRealm
PROPERTIES FailsOnlyIfTight
