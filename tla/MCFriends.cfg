SPECIFICATION Spec
CONSTANTS
  Users = {u1, u2, u3}
  Conns = {c1, c2}
  NoUser = NoUser
  MaxAsks = 2
  MaxLogins = 3
  QueueMax = 1
SYMMETRY Symmetry
INVARIANTS TypeOK OneRowPerPair ConsentsUnlessMixed RequestTold
CHECK_DEADLOCK FALSE
