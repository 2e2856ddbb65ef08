SPECIFICATION Spec
CONSTANTS
  Clients = {c1, c2}
  NoClient = NoClient
  MaxFailures = 0
INVARIANT
  JoinedOnce
CHECK_DEADLOCK FALSE
