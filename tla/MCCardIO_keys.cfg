\* Key and authentication caches: every key setting and way to authenticate, refused and thrown loads.
SPECIFICATION Spec
CONSTANTS
  NumSectors = 2
  NumData = 1
  Keys = {zero, ff}
  ClientKeys = {zero, ff}
  ZeroKey = zero
  FactoryKey = ff
  NoKey = nokey
  Slots = {1, 2}
  DefaultSlot = 1
  Vals = {v0}
  ZeroVal = v0
  Configs <- MCFactoryConfigs
  MaxKeys = 2
  Calls = {"setDefaultKey", "setKeys", "addKey", "clearKeys", "authenticate", "authenticateSlot", "readBlock"}
  Faults = {"error", "thrown"}
  CardTrailers <- BlankCard
  TrailerInputs <- NoTrailers
INVARIANTS
  SlotCacheCoherent
  TransferUnderAuth
PROPERTIES
  FailureForgets
