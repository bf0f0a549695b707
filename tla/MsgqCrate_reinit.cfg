SPECIFICATION FairSpec
CONSTANTS
  Producers = {p1, p2}
  Consumers = {c1}
  Capacity = 3
  Limits <- JustPosix
  MaxInits = 3
  MaxKills = 0
PROPERTIES FullCrateAwakensConsumer
CHECK_DEADLOCK FALSE
