SPECIFICATION FairSpec
CONSTANTS
  Clients = {c1, c2}
  NoClient = NoClient
  MaxFailures = 0
PROPERTY
  QuitEnds
CHECK_DEADLOCK FALSE
