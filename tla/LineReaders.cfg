SPECIFICATION Spec
CONSTANTS
  Count = 3
  BufferLen = 3
  MaxLen = 7
INVARIANTS TerminatorPlaced FifoLinesWhole
PROPERTIES ImplementsLines AllTaken
CHECK_DEADLOCK FALSE
