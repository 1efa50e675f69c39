CONSTANTS
  m1 = m1
  me = me
  None = None
  Mobiles = {m1}
  Me = me
  MaxCoord = 4
  Width = 5
  Tiles <- Corridor
  Headings <- EastWest
  BlockSize = 2
  ViewRange = 1
  LinkCapacity = 20
  Scenarios <- MCLiving
  KeepsTicking = TRUE
  Bound = 2
SPECIFICATION FairSpec
PROPERTY Converges
