SPECIFICATION FairSpec
CONSTANTS
  Users = {u1, u2}
  MaxLines = 2
PROPERTIES ServedInTurn QuitHonoured
CHECK_DEADLOCK FALSE
