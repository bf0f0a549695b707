SPECIFICATION SpecEither
CONSTANTS
  Clients = {c1, c2}
  MaxLines = 2
  MaxSends = 1
  None = None
INVARIANTS NoForeignConnection BlockedOnNewOnly
PROPERTY DroppedOnRequestOnly
CHECK_DEADLOCK FALSE
