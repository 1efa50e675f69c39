SPECIFICATION Spec
CONSTANTS
  Players = {"a", "b"}
  Zones = {"here", "there"}
  Serials <- MCSerials
  Kinds <- MCKinds
  Stackable <- MCStackable
  Newbie <- MCNewbie
  Layers <- MCLayers
  MaxAmount = 2
  Scenarios <- MCScenes
  None = None
INVARIANTS
  TypeOK
  ExactlyOnePlace
  IndexesExact
  ContentsFollow
PROPERTIES
  NothingFromNothing
CHECK_DEADLOCK FALSE
