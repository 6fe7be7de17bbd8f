\* Memory image against card: every card call with one key, every fault.
SPECIFICATION FairSpec
CONSTANTS
  NumSectors = 2
  NumData = 1
  Keys = {zero, ff}
  ClientKeys = {ff}
  ZeroKey = zero
  FactoryKey = ff
  NoKey = nokey
  Slots = {1}
  DefaultSlot = 1
  Vals = {v0, v1}
  ZeroVal = v0
  Configs <- MCFactoryConfigs
  MaxKeys = 2
  Calls = {"readCard", "readSector", "readBlock", "writeBlock", "authenticate", "authenticateSlot", "readTrailer"}
  Faults = {"error", "unlisted", "short", "thrown", "reset"}
  CardTrailers <- FactoryCard
  TrailerInputs <- NoTrailers
INVARIANTS
  MemoryMirrors
PROPERTIES
  TryReadSectorComplete
  CallsReturn
