SPECIFICATION FairSpec
CONSTANT MaxCall = 3
INVARIANT Handover
PROPERTY CallsReturn
