SPECIFICATION Spec
CONSTANTS
  Points = {p1}
  NoData = NoData
  MaxRules = 2
  MaxChanges = 2
  MaxRequests = 3
  MaxFaults = 1
  MaxEvents = 5
INVARIANTS
  AlertsConsistent
  EpisodesConsistent
PROPERTIES
  AlarmsConverge
