SPECIFICATION FairSpec
CONSTANTS
    MaxRequests = 3
    MaxFaults = 2
INVARIANTS
  DisabledNeverRuns
  ProjectionKnown
PROPERTIES
  NewestWins
  Converges
CHECK_DEADLOCK FALSE
