SPECIFICATION Spec
CONSTANTS
  MaxSafe <- Exact
  Good <- GoodValues
  Values <- AllValues
INVARIANTS
  TalkIsUnderstood
  NothingRounded
  Lockstep
CHECK_DEADLOCK FALSE
