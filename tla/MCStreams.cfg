SPECIFICATION MCSpec
CONSTANTS
  Size = 3
  MaxWritten = 6
  MaxSent = 7
  MaxReceived = 5
  Byte = {0, 1, 2, 3, 4, 5, 6}
  Nothing = Nothing
  Clients = {c1, c2, c3}
  NoClient = NoClient
  MaxFailures = 1
INVARIANTS
  TypesOK
  NothingIsLost
  OneAtATime
  FreedIsUnused
PROPERTIES
  BufferedMovesOn
  WaitingIsServed
  CloseEnds
CHECK_DEADLOCK FALSE
