SPECIFICATION FairSpec
CONSTANTS
  t1 = t1  t2 = t2  t3 = t3  lane = lane
  Interactions = {t1, t2}
  NoCall = NoCall  NoRequest = NoRequest
  Lanes = {lane}  LaneOf <- OneLane
  Capacity = 2
  Window = 0  Skew = 0  Ahead = 1
  MaxEntries = 2  MaxLines = 1
  MaxClock = 2  MaxFaults = 1
  AppendOutcomes = {"ok", "definite", "lost", "torn", "whole"}
  WriteOutcomes = {"ok", "pre", "post"}
INVARIANTS
  OutboxIsSound
  LedgerIsExact
  RanIsRecorded
PROPERTIES
  RanIsCounted
CHECK_DEADLOCK FALSE
