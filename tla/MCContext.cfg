SPECIFICATION FairSpec
CONSTANTS
  main = main
  t1 = t1
  Thread <- MCThread
  Main = main
  cnRealm = 2
  MaxAny = 1
INVARIANTS Ready GivenBack
PROPERTY CallsReturn
