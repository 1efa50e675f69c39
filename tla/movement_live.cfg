SPECIFICATION FairSpec
CONSTANTS
  Clients = {c1}
  Bot = bot
  NoView = noView
  MaxPending = 1
  MaxSeq = 4
  MaxCoord = 2
  Ground <- MCFlat
  LoginPos <- MCLogin
  MaxWaiting = 1
  SnapTargets <- MCSnapTargets
  Rejecting = TRUE
  Silent = TRUE
  CalmSnaps = FALSE
  MaxSteps = 2
  Timed = TRUE
  MaxUpsets = 1
PROPERTIES
  EveryStepAnswered
  ResyncEnds
CHECK_DEADLOCK FALSE
