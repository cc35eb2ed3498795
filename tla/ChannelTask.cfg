SPECIFICATION FairSpec
CONSTANTS
    MaxAttempts = 2
    MaxRounds = 1
    ZeroThreshold = 2
    QueueCapacity = 2
    EventCapacity = 2
    MaxFaults = 5
    MaxRequests = 3

  
PROPERTIES
  
  CallerReturns
CHECK_DEADLOCK FALSE
