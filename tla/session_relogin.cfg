SPECIFICATION Spec
CHECK_DEADLOCK FALSE
CONSTANTS
  k1 = k1
  k2 = k2
  k3 = k3
  oA = oA
  oB = oB
  Conns = {k1, k2, k3}
  OpenIds = {oA, oB}
  Accounts <- OneEach
  MaxLogins = 2
  Lossy = FALSE
INVARIANT CurrentPlays
