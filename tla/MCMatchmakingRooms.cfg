SPECIFICATION Spec
CONSTANTS
  Users = {u1, u2}
  MaxRooms = 2
  MaxPlayers = 1
  QueueMax = 2
  MaxEvents = 0
INVARIANTS MatchedOnce LobbyServed
PROPERTIES ImplementsLobbies
CHECK_DEADLOCK FALSE
