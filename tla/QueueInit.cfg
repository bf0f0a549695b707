SPECIFICATION SpecFromStart
CONSTANTS
  Processes = {p1, p2}
  Messages = {m1, m2}
  Capacity = 2
  MaxKills = 1
  None = None
INVARIANT CrashOnlyIfRaced
PROPERTY QueueFromStart
CHECK_DEADLOCK FALSE
