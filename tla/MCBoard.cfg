SPECIFICATION Spec
CONSTANTS
  Width = 4
  Height = 4
  Ground <- MCGround
  Rock <- MCRock
  Place <- MCPlace
  InitVie = 3
  MaxVie = 3
  Speeds <- MCSpeeds
  Radius = 1
  Loss <- MCLoss
  Blow = 10
  BatLoss = 1
  FallSpeed = 10
  FallLoss = 1
  BoxVie = 1
  Impacts <- MCImpacts
  Thrown <- MCThrown
  Fastest = 10
  MaxShots = 2
  MaxMoves = 1
  MaxBoxes = 1
  MaxTimeOvers = 1
  MaxInputs = 3
  InboxMax = 1
INVARIANTS TypeOK NotBuried WallsKnown AtRest BoxFindsPlace UpdateReturns
CHECK_DEADLOCK FALSE
