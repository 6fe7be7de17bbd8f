CONSTANTS
  Kind = "classic"
  MaxSector = 2
  Slots = {0, 1}
  Keys = {zero, k1}
  ZeroKey = zero
  NoKey = nokey
  NoSession = nosession
  Timeouts = {0, 2}
  MaxClock = 4
SPECIFICATION Spec
INVARIANTS QueriesAgree LiveMeansAuthenticated
PROPERTIES RevivedOnlyByCall
