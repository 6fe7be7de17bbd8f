\* The public readSector on a card one of whose blocks does not answer.
SPECIFICATION Spec
CONSTANTS
  NumSectors = 2
  NumData = 1
  Keys = {zero, ff}
  ClientKeys = {ff}
  ZeroKey = zero
  FactoryKey = ff
  NoKey = nokey
  Slots = {1}
  DefaultSlot = 1
  Vals = {v0, v1}
  ZeroVal = v0
  Configs <- MCFactoryConfigs
  MaxKeys = 2
  Calls = {"readSector"}
  Faults = {"error"}
  CardTrailers <- FactoryCard
  TrailerInputs <- NoTrailers
PROPERTIES
  ReadSectorTrueMeansAll
