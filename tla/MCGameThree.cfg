SPECIFICATION FairSpec
CONSTANTS
  Users = {u1, u2, u3}
  Owner = u1
  NoUser = NoUser
  NoWorm = NoWorm
  INIT_NB_TEAMS = 2
  INIT_NB_LOMBS = 1
  LombChoices = {1}
  TeamChoices = {2}
  MaxPlayers = 4
  Columns = 2
  WaterTop = 1
  InboxMax = 1
INVARIANT LedgerAgrees
PROPERTY WormEventuallyPlays
CHECK_DEADLOCK FALSE
