SPECIFICATION Spec
CONSTANTS
  Definitions <- MCDefinitions
  MaxDefined = 3
  Characters <- MCCharacters
  Value = {"v0", "v1"}
  WrongType = "wrongType"
  MaxValues = 2
  Missing <- MCMissing
INVARIANTS
  TypeOK
  WalksAreExact
PROPERTY
  RefinesDevice
CHECK_DEADLOCK FALSE
