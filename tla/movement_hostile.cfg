SPECIFICATION Spec
CONSTANTS
  Clients = {c1, c2}
  Bot = bot
  NoView = noView
  MaxPending = 2
  MaxSeq = 4
  MaxCoord = 2
  Ground <- MCSlope
  LoginPos <- MCLogin
  MaxWaiting = 1
  SnapTargets <- MCSnapTargets
  Rejecting = TRUE
  Silent = FALSE
  CalmSnaps = FALSE
  MaxSteps = 3
  Timed = FALSE
  MaxUpsets = 1
SYMMETRY MCSymmetry
INVARIANTS
  TypeOK
  StepsAccountedFor
  ViewsAgree
PROPERTIES
  ImplementsStepService
CHECK_DEADLOCK FALSE
