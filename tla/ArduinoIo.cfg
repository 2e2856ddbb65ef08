SPECIFICATION FairSpec
CONSTANTS
  PinOffset = 2
  NumberOfPins = 3
  LastPin = 3
  LastAnalog = 0
  IntMax = 2
  Settable = {2}
  Readings = {668, 1023}
  MaxChanges = 2
INVARIANTS
  TypeOK
  CountsAreReal
  AnswersAreTrue
PROPERTIES
  StableLevelIsRead
