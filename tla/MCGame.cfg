SPECIFICATION Spec
CONSTANTS
  Users = {u1, u2}
  Owner = u1
  NoUser = NoUser
  NoWorm = NoWorm
  INIT_NB_TEAMS = 3
  INIT_NB_LOMBS = 2
  LombChoices = {1, 2}
  TeamChoices = {2}
  MaxPlayers = 4
  Columns = 2
  WaterTop = 1
  InboxMax = 2
INVARIANT TypeOK
INVARIANT TurnInv
INVARIANT EndIsFinal
INVARIANT WaterInMap
PROPERTY EndOnlyWhenDecided
PROPERTY RosterFrozen
CHECK_DEADLOCK FALSE
