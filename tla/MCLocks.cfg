SPECIFICATION FairSpec
CONSTANTS
  Sessions = {s1}
  Rooms = {r1}
  Broker = broker
  Nobody = Nobody
  Leaked = Leaked
INVARIANTS MutexInv FramesPaired OwnStatement NobodyWaitsInCircle
PROPERTY PubIsReleased
CHECK_DEADLOCK FALSE
