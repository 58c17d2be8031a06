SPECIFICATION FairSpec
CONSTANTS
  t1 = t1
  t2 = t2
  Thread <- MCThread
  Block <- MCBlock
  cnRealm = 1
  Size <- MCSize
  csHeap = 2
  csGlobalHeap = 2
  csSystem = 3
  LocalNum <- MCLocalNum
  GlobalNum <- MCGlobalNum
  mnRevolver = 2
  NULL = NULL
PROPERTY CallsReturn
