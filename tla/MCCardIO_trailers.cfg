\* Trailers: writes, configuration changes, backup and restore, with two keys.
\* The key chosen from the image's access bits serves data block 0.
SPECIFICATION Spec
CONSTANTS
  NumSectors = 2
  NumData = 1
  Keys = {zero, ff}
  ClientKeys = {ff}
  ZeroKey = zero
  FactoryKey = ff
  NoKey = nokey
  Slots = {1}
  DefaultSlot = 1
  Vals = {v0}
  ZeroVal = v0
  Configs <- MCConfigs
  MaxKeys = 2
  Calls = {"setKeys", "writeBlock", "writeTrailer", "setAccessConfig", "saveAllTrailers", "restoreAllTrailers"}
  Faults = {"thrown"}
  CardTrailers <- KeyBCard
  TrailerInputs <- FactoryCard
INVARIANTS
  KeyChoiceServesBlock0
