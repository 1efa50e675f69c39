CONSTANTS
  m1 = m1
  me = me
  None = None
  Mobiles = {m1}
  Me = me
  MaxCoord = 4
  Width = 5
  Tiles <- Corridor
  Headings <- EastWest
  BlockSize = 2
  ViewRange = 1
  LinkCapacity = 20
  Scenarios <- MCScenarios
  KeepsTicking = TRUE
  Bound = 3
SPECIFICATION Spec
INVARIANTS
  TypeOK
  QuietPicture
  QuietAgreement
