SPECIFICATION FairSpec
CONSTANTS
  Processes = {t1, t2, t3}
  Messages = {m1, m2}
  Capacity = 2
  MaxKills = 1
  None = None
INVARIANTS SemaphoresAgree
PROPERTIES ImplementsQueue NoLostWakeUp
CHECK_DEADLOCK FALSE
