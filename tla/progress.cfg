SPECIFICATION ProgressSpec
CHECK_DEADLOCK FALSE
CONSTANTS
  k1 = k1
  k2 = k2
  k3 = k3
  oA = oA
  oB = oB
  Conns = {k1, k2, k3}
  OpenIds = {oA, oB}
  Accounts <- OneEach
  MaxLogins = 1
  Lossy = FALSE
  SendCap = 4
  QueueMax = 1
  Sizes = {2, 5}
  MaxPackets = 3
  RecvCap = 4
  HeaderSize = 2
  RecvMax = 2
  Clients = {c1, c2}
  NoOne = NoOne
  Rooms = {r1, r2}
  NoRoom = NoRoom
  NoConn = NoConn
INVARIANTS OneConnectionPerAccount CurrentPlays PendingIsWatched DeliveredInOrder
PROPERTIES LoginAnswered OnlyRecommitSpoils Delivered TimeoutsFireWhenQuiet
