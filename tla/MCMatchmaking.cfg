SPECIFICATION FairSpec
CONSTANTS
  Users = {u1, u2}
  MaxRooms = 1
  MaxPlayers = 1
  QueueMax = 2
  MaxEvents = 1
INVARIANT TypeOK
PROPERTIES SomeoneIsMatched PlayersReleased
CHECK_DEADLOCK FALSE
