SPECIFICATION Spec
CONSTANTS
  c1 = c1
  c2 = c2
  Clients = {c1, c2}
  NoOne = NoOne
  r1 = r1
  r2 = r2
  Rooms = {r1, r2}
  NoRoom = NoRoom
  k1 = k1
  k2 = k2
  Conns = {k1, k2}
  NoConn = NoConn
  Sizes = {0, 1, 2}
  Limits = {1}
  Payors = {10, 11, 12}
  InitMoney = 15
  VoteTicks = 1
  SettleTicks = 1
SYMMETRY Symmetry
INVARIANT AllRoundsInStep
PROPERTY OnlyRefusalsMisplace
