SPECIFICATION FairSpec
CONSTANTS
  Producers = {p1, p2, p3}
  Consumers = {c1, c2}
  Capacity = 3
  MaxKills = 1
  None = None
INVARIANTS TypeOK MutualExclusion StoreInBounds WokenOnlyWhenFull PlacesConserved
PROPERTIES ImplementsCrate BatchesForever
CHECK_DEADLOCK FALSE
