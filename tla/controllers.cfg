SPECIFICATION FairSpec
CONSTANTS
  a = a
  b = b
  Entities = {a, b}
  Zones = {0, 1}
  TaskIds = {1, 2, 3, 4, 5, 6, 7, 8, 9, 10}
  MaxClock = 2
  MaxActs = 2
  FirstDelays = {0, 1}
  NextDelays = {1}
  Interval = 1
  Scenarios <- MCScenarios
  None = none
INVARIANTS
  TypeOK
  TimersFollow
  RightZone
  NeverAsleep
  OneClock
  NoGhosts
PROPERTIES
  TimersAreAlarms
  ComesToRest
CHECK_DEADLOCK FALSE
