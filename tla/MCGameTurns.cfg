SPECIFICATION FairSpec
CONSTANTS
  Users = {u1, u2}
  Owner = u1
  NoUser = NoUser
  NoWorm = NoWorm
  INIT_NB_TEAMS = 2
  INIT_NB_LOMBS = 2
  LombChoices = {2}
  TeamChoices = {2}
  MaxPlayers = 4
  Columns = 2
  WaterTop = 2
  InboxMax = 1
PROPERTIES WormEventuallyPlays GameTerminates ImplementsTurns
CHECK_DEADLOCK FALSE
