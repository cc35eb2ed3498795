SPECIFICATION FairSpec
CONSTANTS
  c1 = c1
  c2 = c2
  c3 = c3
  p1 = p1
  p2 = p2
  Commands = {c1, c2, c3}
  Points = {p1, p2}
  PointOf <- MCPointOf
  SeqModulus = 8
  Starts = {7}
  WireCapacity = 3
  QueueCapacity = 1
  Workers = 2
  MaxFaults = 2
INVARIANTS
  FailuresHarmless

  
  
CHECK_DEADLOCK FALSE
