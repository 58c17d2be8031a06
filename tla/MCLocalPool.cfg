SPECIFICATION Spec
CONSTANTS
  o = o
  t1 = t1
  t2 = t2
  Thread <- MCThread
  Owner = o
  Parcel <- MCParcel
  LastRealm = 0
  cnRevolver = 4
  cnCounter = 8
  NULL = NULL
  Invalid = Invalid
SYMMETRY Symmetry
INVARIANTS
  TypeOK
  SlotHoldsOne
  DrawnSlotIsFree
  OnePlace
  Accounting
  DeleteWhenIdle
  DeletedOnceIfCached
  IInv
PROPERTIES
  ClosedForGood
  ImplementsAllocator
