SPECIFICATION FairSpec
CONSTANTS
  Turns = {"first", "again", "other"}
  Says <- Words
  MaxRequests = 2
  MaxRollback = 1
  WriteOutcomes = {"ok", "pre", "post"}
  MaxFaults = 1
INVARIANTS
  RequestsAreSound
  SuccessIsItsOwn
  AwaitedIsKnown
PROPERTIES
  CallsEnd
CHECK_DEADLOCK FALSE
