\* A configuration change on a sector managed by key B.
SPECIFICATION Spec
CONSTANTS
  NumSectors = 2
  NumData = 1
  Keys = {zero, ff}
  ClientKeys = {ff}
  ZeroKey = zero
  FactoryKey = ff
  NoKey = nokey
  Slots = {1}
  DefaultSlot = 1
  Vals = {v0, v1}
  ZeroVal = v0
  Configs <- MCConfigs
  MaxKeys = 2
  Calls = {"setKeys", "readTrailer", "setAccessConfig"}
  Faults = {}
  CardTrailers <- KeyBCard
  TrailerInputs <- NoTrailers
PROPERTIES
  SetAccessConfigKeepsKeys
