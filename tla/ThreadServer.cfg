SPECIFICATION FairSpec
CONSTANTS
  Clients = {c1, c2}
  MaxLines = 1
  MaxSends = 1
  None = None
INVARIANTS OneThreadPerClient
PROPERTIES ServesNoOlder QuitHonoured InputIsRead
CHECK_DEADLOCK FALSE
