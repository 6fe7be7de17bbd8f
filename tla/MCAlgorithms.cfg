\* One step to every input, and any sequence of edits of the access bytes.
CONSTANTS
  CardType = "4K"
  Sectors <- MCSectors
  LoadedBytes <- MCLoadedBytes
  SizeT = 1073741824
  Word = 1073741824
  NoIV <- MCNoIV
  Garbled <- MCGarbled
  Statuses <- MCStatuses
  Offsets <- MCOffsets
  FileNumbers <- MCFileNumbers
  Settings <- MCSettings
  Layouts <- MCLayouts
  BlockNumbers <- MCBlockNumbers
  Exchanges <- MCExchanges
SPECIFICATION PartsSpec
CHECK_DEADLOCK FALSE
INVARIANTS
  LayersAgree
  StatusLayersFit
  CiphersInvert
  FilesFaithful
  MessagingRecovers
  EditsRepair
  RequestHonoured
  TrailerGrantsNoMore
  BlockAnswersAgree
PROPERTIES
  EditsAreLocal
