SPECIFICATION FairSpec
CONSTANTS
  Databases = {d1, d2}
  Embedded = {d1}
  Disabled = Disabled
  Requests = {q1, q2}
  BufferCap = 2
  BatchSizes = {1, 2}
  MaxPoints = 3
  MaxRequests = 2
  MaxFaults = 2
INVARIANTS
  
  SamplesKept
PROPERTIES
  WritesCatchUp
