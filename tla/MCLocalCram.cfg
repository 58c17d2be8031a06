SPECIFICATION Spec
CONSTANTS
  o = o
  t1 = t1
  t2 = t2
  Thread <- MCThread
  Owner = o
  Parcel <- MCParcel
  LastRealm = 1
  cnRevolver = 4
  cnCounter = 8
  bitB = 3
  NULL = NULL
  Invalid = Invalid
SYMMETRY Symmetry
INVARIANTS
  CarvedFitsRing
  ParcelsApart
  OnePlace
  Accounting
  DeleteWhenIdle
PROPERTY ImplementsAllocator
