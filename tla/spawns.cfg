CONSTANTS
  z1 = z1
  z2 = z2
  p1 = p1
  s1 = s1
  None = None
  Zones = {z1, z2}
  Points = {p1}
  Spawners = {s1}
  Home <- MCHome
  MaxCount = 2
  Serials = {1, 2, 3, 4, 5}
  MaxActs = 4
  Scenarios <- MCScenarios
SPECIFICATION FairSpec
INVARIANTS
  TypeOK
  PopulationBounded
  Accounted
PROPERTY Refilled
