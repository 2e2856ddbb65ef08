SPECIFICATION FairSpec
CONSTANTS
  BufferSize = 3
  Padding = 1
  Apps = {a1}
  Reader = Reader
  MaxClients = 2
  ResponseLength = 4
  UpdateLength = 2
  MaxMessages = 2
INVARIANTS
  TypeOK
  MessagesAreWhole
  UpdatesAreAsked
PROPERTY
  WritersFinish
CHECK_DEADLOCK FALSE
