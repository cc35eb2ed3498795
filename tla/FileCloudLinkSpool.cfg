SPECIFICATION Spec
CONSTANTS
  b1 = b1
  b2 = b2
  d1 = d1
  Inputs <- MCInputs
  Sessions = {s1}
  Receipts = {r1}
  Capacities = {1, 2}
  MaxPosition = 3
  MaxEpoch = 2
  NoSession = NoSession
  NoAck = NoAck
  NoLoss = NoLoss
  CompactAfter = 2
  MaxCrashes = 1
  MaxErrors = 1
  MaxTempSeq = 2
  MaxJournal = 7
INVARIANTS
  
  JournalSound

  
CHECK_DEADLOCK FALSE
SYMMETRY BatchSymmetry
