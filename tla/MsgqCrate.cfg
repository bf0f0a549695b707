SPECIFICATION FairSpec
CONSTANTS
  Producers = {p1, p2}
  Consumers = {c1, c2}
  Capacity = 3
  Limits <- AllPrograms
  MaxInits = 2
  MaxKills = 1
INVARIANTS TokensConserved OrdersCovered
PROPERTIES ImplementsCrate BatchesForever
CHECK_DEADLOCK FALSE
