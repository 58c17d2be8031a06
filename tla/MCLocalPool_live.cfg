SPECIFICATION FairSpec
CONSTANTS
  o = o
  t1 = t1
  t2 = t2
  Thread <- MCThread
  Owner = o
  Parcel <- MCParcel
  LastRealm = 0
  cnRevolver = 2
  cnCounter = 4
  NULL = NULL
  Invalid = Invalid
PROPERTIES
  FreeReturns
  LastFreeDeletes
  ExitReclaims
