SPECIFICATION Spec
CONSTANTS
  sAny = 24
  sPool = 2432
  sCram = 7808
  Request <- MCRequest
  Alignment <- MCAlignment
  Residue <- MCResidue
  Page = 67108864
  Largest = 1048577
  MaxHeld = 2
INVARIANTS Contained OneBlockEach ReAllocKeeps RightClass
