SPECIFICATION FairSpec
CONSTANTS
  Definitions = {onchange, interval}
  OnChange = {onchange}
  Values = {0, 1}
  Starts = {0}
  Missing = Missing
  Deadband = 0
  Manuals = {m1}
  Mutations = {q1}
  MaxEvents = 3
  MaxFaults = 2
INVARIANTS
  HoldsPreventReplay
  ScheduleTruthful
PROPERTIES
  ChangesConsumed
CHECK_DEADLOCK FALSE
