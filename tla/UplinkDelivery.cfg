SPECIFICATION FairSpec
CONSTANTS
  MaxMessages = 2
  Capacity = 2
  MaxFaults = 2
  BatchLimit = 2
  QueueCapacity = 2
  Greetings = 1
INVARIANTS
  AcceptedKeptInOrder
PROPERTIES
  
  Delivers
CHECK_DEADLOCK FALSE
