SPECIFICATION FairSpec
CONSTANTS
  Clients = {c1, c2}
  MaxLines = 1
  MaxSends = 1
PROPERTIES DescriptorsReleased Accepted InputIsRead
CHECK_DEADLOCK FALSE
