SPECIFICATION Spec
CONSTANTS
  Clients = {c1}
  Bot = bot
  NoView = noView
  MaxPending = 3
  MaxSeq = 4
  MaxCoord = 2
  Ground <- MCFlat
  LoginPos <- MCLogin
  MaxWaiting = 1
  SnapTargets <- MCSnapTargets
  Rejecting = FALSE
  Silent = FALSE
  CalmSnaps = TRUE
  MaxSteps = 6
  Timed = FALSE
  MaxUpsets = 1
INVARIANTS
  AgreeWhenIdle
  PendingSeqsDistinct
CHECK_DEADLOCK FALSE
