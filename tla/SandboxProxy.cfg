\* Three connections under caps that they reach together.
SPECIFICATION FairSpec
CONSTANTS
  w1 = w1
  w2 = w2
  w3 = w3
  Workers <- ThreeWorkers
  Caps <- TightCaps
  MaxChunks = 1
  MaxMessages = 2
INVARIANTS
  TypeOK
  
PROPERTIES
  
  KeepsProtocol
  ProxyEnds
CHECK_DEADLOCK FALSE
