SPECIFICATION FairSpec
CONSTANTS
  o = o
  t1 = t1
  t2 = t2
  Thread <- MCOneThread
  Owner = o
  Parcel <- MCParcel
  LastRealm = 1
  cnRevolver = 4
  cnCounter = 8
  bitB = 2
  NULL = NULL
  Invalid = Invalid
PROPERTY ClearanceReclaims
