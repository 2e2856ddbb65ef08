SPECIFICATION MCSpec
CONSTANTS
  MaxLevel = 3
  Epsilon = 1
  DelayBeforeHold = 2
  LevelDelay = 2
  Settable = {2, 5}
  \* Days of four seconds.
  SecondsPerMinute = 1
  MinutesPerHour = 2
  HoursPerDay = 2
  DaysPerWeek = 2
  TempReadings = {533, 613, 625}
  Settings = {205}
  Times = {0, 100}
  TempClockFields = {1, 256}
  HeatReadings = {600, 800}
  Criticals = {30}
  Modes = {0, 2, 3, 4, 5}
  \* Requests move the clock to where the modes decide otherwise.
  FanClockFields = {7, 255}
INVARIANTS
  TypesOK
  MachinesAgree
  LightIsSteady
  LevelIsShown
  HostIsTold
  FanIsRight
PROPERTIES
  DimmingIsSmooth
  HoldReachesEveryLevel
  NoFlutter
  HeatIsVented
CHECK_DEADLOCK FALSE
