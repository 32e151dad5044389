SPECIFICATION Spec
CONSTANTS
  c1 = c1
  c2 = c2
  c3 = c3
  Clients = {c1, c2, c3}
  NoOne = NoOne
  r1 = r1
  r2 = r2
  Rooms = {r1, r2}
  NoRoom = NoRoom
  k1 = k1
  k2 = k2
  Conns = {k1, k2}
  NoConn = NoConn
  Sizes = {2}
  Limits = {1, 2}
  Payors = {12}
  InitMoney = 15
  VoteTicks = 2
  SettleTicks = 1
SYMMETRY Symmetry
INVARIANT VotesSound
PROPERTY AbortedByConsent
PROPERTY FailedVoteResumesRound
PROPERTY TableFixedWhilePlaying
