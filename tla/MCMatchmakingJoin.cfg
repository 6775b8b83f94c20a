SPECIFICATION Spec
CONSTANTS
  Users = {u1, u2}
  MaxRooms = 1
  MaxPlayers = 1
  QueueMax = 2
  MaxEvents = 1
PROPERTY TheRoomResponded
CHECK_DEADLOCK FALSE
