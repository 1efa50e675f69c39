SPECIFICATION Spec
CONSTANTS
  First <- MCFirst
  Last <- MCLast
  Zones = {0, 1}
  ScriptZone = 0
  MaxAllocs = 3
  MaxQueue = 2
  MaxActs = 2
  Scenarios <- MCScenarios
  None = none
INVARIANTS
  TypeOK
  Sound
  NoSharedSerial
  CleansUp
PROPERTIES
  AllocatorIsPool
CHECK_DEADLOCK FALSE
