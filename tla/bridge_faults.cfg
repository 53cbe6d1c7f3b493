SPECIFICATION Spec
CONSTANTS
  k1 = k1  k2 = k2  i1 = i1  i2 = i2  s1 = s1  s2 = s2
  Keys = {k1}
  Installations = {i1}
  Sockets = {s1, s2}
  SocketOwner <- OneOwner
  NoBinding = NoBinding  NoTombstone = NoTombstone
  NoSocket = NoSocket  NoTimer = NoTimer
  MaxBindings = 1  MaxTombstones = 1
  OwnerAbandonment = 9  ConsumedRetention = 0  TombstoneRetention = 1
  MaxClock = 0  MaxRollback = 0  MaxFrames = 1
  SaveOutcomes = {"ok", "pre", "post"}
  HandsetOps = {"reply_received", "reply_ack", "reply_ack_retire"}
INVARIANTS
  TypeOK
  FileIsCurrent
  ConsumedIsProved
  ReplyRetained
  AcknowledgedIsConsumed
SYMMETRY SocketSymmetry
