CONSTANTS
  Commands = {c1}
  Actions = {a1}
  Measurements = {m1}
  Layouts = {l1, l2}
  None = None
  Failures = TRUE
  MaxDisturbances = 2
SPECIFICATION FairSpec
INVARIANTS
  RoutesNeverStale
  CommandsWellRouted
  GenerationsFenced
PROPERTIES
  TopologyReconciles
