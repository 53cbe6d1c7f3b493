SPECIFICATION Spec
CONSTANTS
  t1 = t1  t2 = t2  t3 = t3  lane = lane
  Interactions = {t1, t2}
  NoCall = NoCall  NoRequest = NoRequest
  Lanes = {lane}  LaneOf <- OneLane
  Capacity = 2
  Window = 1  Skew = 0  Ahead = 1
  MaxEntries = 2  MaxLines = 2
  MaxClock = 2  MaxFaults = 1
  AppendOutcomes = {"ok", "open"}
  WriteOutcomes = {"ok"}
INVARIANTS
  LedgerLoads
CHECK_DEADLOCK FALSE
