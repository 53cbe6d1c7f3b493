SPECIFICATION FairSpec
CONSTANTS
  Turns = {t1, t2}
  MaxConnections = 2
  Capacity = 1
  MaxRows = 2
  MaxTombstones = 1
  WriteOutcomes = {"ok", "pre", "post"}
  MaxFaults = 2
INVARIANTS
  QueueIsSound
  AnswersAreTrue
PROPERTIES
  HandedOverOnce
  OwnerActsAlone
  ReplayReaches
CHECK_DEADLOCK FALSE
