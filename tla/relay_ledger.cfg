SPECIFICATION Spec
CONSTANTS
  Gateways = {g1, g2}
  NoGateway = NoGateway
  Requests = {r1}
  Lanes = {l1}
  Messages = {m1}
  NoMessage = NoMessage
  MaxActions = 2
  MaxDeliveries = 2
  MaxResults = 2
  MaxRetired = 1
  MaxSequence = 2
  Retention = 1
  MaxClock = 1
  MaxFaults = 2
  WriteOutcomes = {"ok", "pre", "post"}
SYMMETRY Symmetry
INVARIANTS
  LedgerIsSound
  OneDeliveryPerAction
  AnsweredIsDurable
  RetirementIsExact
PROPERTIES
  ReceiptTakesWhatWasRead
  HeadIsNeverPassed
CHECK_DEADLOCK FALSE
