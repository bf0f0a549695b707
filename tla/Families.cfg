SPECIFICATION Spec
CONSTANTS
  MaxForks = 5
  MaxArgument = 2
  Room = 2
  MaxNames = 3
  Files = 3
  MaxLines = 2
  Chunk = 512
  Initial = 1028
  Sizes <- FileSizes
INVARIANTS RecordsExact NothingLost InTurn
PROPERTIES AllCollected FamilyEnds
CHECK_DEADLOCK FALSE
