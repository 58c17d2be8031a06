SPECIFICATION Spec
CONSTANTS
  t1 = t1
  t2 = t2
  Thread <- MCThread
  csHeap = 11
  Request <- MCRequest
  cnFree = 5
  NULL = NULL
SYMMETRY Symmetry
INVARIANTS TypeOK Tiling ListsAgree Merged Holders
PROPERTIES FailsOnlyIfFull ImplementsHeldBlocks
