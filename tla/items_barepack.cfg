SPECIFICATION Spec
CONSTANTS
  Players = {"a", "b"}
  Zones = {"here", "there"}
  Serials <- MCSerials
  Kinds <- MCKinds
  Stackable <- MCStackable
  Newbie <- MCNewbie
  Layers <- MCLayers
  MaxAmount = 2
  Scenarios <- MCBarePack
  None = None
PROPERTIES
  CorpseReturns
CHECK_DEADLOCK FALSE
