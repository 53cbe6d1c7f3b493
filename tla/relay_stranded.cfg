SPECIFICATION FairSpec
CONSTANTS
  Turns = {t1}
  MaxConnections = 2
  Capacity = 1
  MaxRows = 2
  MaxTombstones = 1
  WriteOutcomes = {"ok", "pre", "post"}
  MaxFaults = 0
PROPERTY AcceptedReaches
CHECK_DEADLOCK FALSE
