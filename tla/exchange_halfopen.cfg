SPECIFICATION ExchangeSpec
CONSTANTS
  k1 = k1  k2 = k2  i1 = i1  i2 = i2  s1 = s1  s2 = s2
  Keys = {k1}
  Installations = {i1}
  Sockets = {s1, s2}
  SocketOwner <- OneOwner
  NoBinding = NoBinding  NoTombstone = NoTombstone
  NoSocket = NoSocket  NoTimer = NoTimer
  MaxBindings = 1  MaxTombstones = 1
  OwnerAbandonment = 9  ConsumedRetention = 8  TombstoneRetention = 9
  MaxClock = 1  MaxRollback = 0  MaxFrames = 2
  SaveOutcomes = {"ok"}
  HandsetOps = {}
  HandsetSaves = {TRUE, FALSE}
  HalfOpen = TRUE
INVARIANTS
  HandsetIsTruthful
PROPERTIES
  KeepsPromise
