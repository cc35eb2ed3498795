SPECIFICATION SpoolSpec
CONSTANTS
  b1 = b1
  b2 = b2
  b3 = b3
  d1 = d1
  d2 = d2
  Inputs <- MCInputs
  Sessions = {s1, s2}
  Receipts = {r1}
  Capacities = {1, 2}
  MaxPosition = 5
  MaxEpoch = 2
  NoSession = NoSession
  NoAck = NoAck
  NoLoss = NoLoss
INVARIANTS
  ResumeNeverGaps
  SpoolSound
PROPERTIES
  HistoryKept
