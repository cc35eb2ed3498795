SPECIFICATION FairSpec
CONSTANTS
  t1 = t1
  t2 = t2
  NoTopology = NoTopology
  Topologies = {t1, t2}
  LayoutOf <- MCLayoutOf
  FirstPlane = "health"
  Views = {v1}
  Generations = {g1}
  FaultPoints = {"allocate", "stage", "invalidate", "rename", "reopen", "commit", "sync_parent_directory"}
  MaxEpoch = 4
  MaxWrites = 2
  MaxChanges = 2
  MaxCrashes = 2
  MaxFaults = 2
  MaxEvents = 2
INVARIANTS
  ViewsCommitted
  WritesSafe
  CommittedPairCoherent
PROPERTIES
  StepsSafe
  Converges
