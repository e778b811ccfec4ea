CONSTANT tn = 6
SPECIFICATION ConnectFairSpec
INVARIANTS
  PortFree
  RightEnds
PROPERTY
  AllConnect
