SPECIFICATION WholeSpec
CONSTANTS
  Peers = {p1, p2}
  Valid = {p1}
  Server = s
  p1 = p1
  p2 = p2
  Links <- PeerLinks
  MaxFaults = 2
  None = None
  Configs <- Shipped
  MayFail = {"private server", "tcp conns"}
  MayThrow = {"main timer"}
  Byte = 8
  Word = 256
  BitsOr <- BitOr
  AllTypes <- Types
  Nodes <- SmallNodes
  NodesMax = 2
  NoListen = "none"
  Keys = {a, b, c}
  Intervals = {1, 2}
  MaxRegs = 2
  MaxTime = 1
  OneShot = {2}
  Corots = {f1, f2, f3}
  NoCorot = NoCorot
  MaxWork = 1
  N = 2
  Items = {a, b}
  Nothing = Nothing
  Chosen = {"links", "process", "config", "table", "timer", "coroutines", "queue"}
INVARIANTS HandshakeAgrees NobodyLeftBehind ConnectsAsListed IndexAgrees HandlersStay StackIsOwn OneTurnEach
PROPERTIES LinksReconverge StopEnds IsFifo
CHECK_DEADLOCK FALSE
