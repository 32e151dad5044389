SPECIFICATION TcpSpec
CHECK_DEADLOCK FALSE
CONSTANTS
  SendCap = 4
  QueueMax = 1
  Sizes = {1, 2}
  MaxPackets = 3
  RecvCap = 4
  HeaderSize = 2
  RecvMax = 2
INVARIANT OnlyPackets
