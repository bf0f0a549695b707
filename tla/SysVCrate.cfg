SPECIFICATION FairSpec
CONSTANTS
  Producers = {p1, p2, p3}
  Consumers = {c1, c2}
  Capacity = 3
  MaxKills = 1
  None = None
INVARIANTS PlacesConserved
PROPERTIES ImplementsCrate BatchesForever
CHECK_DEADLOCK FALSE
