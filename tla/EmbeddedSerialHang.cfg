SPECIFICATION FairSpec
CONSTANTS
  Size = 2
  MaxWritten = 5
  MaxSent = 6
  MaxReceived = 0
  Byte = {0, 1, 2, 3, 4, 5}
  Nothing = Nothing
PROPERTY
  WaitEnds
CHECK_DEADLOCK FALSE
