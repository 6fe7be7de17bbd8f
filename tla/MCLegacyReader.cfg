CONSTANTS
  c1 = c1
  Cards = {c1}
  NoCard = nocard
  LastSector = 2
  UserSectors = {0}
  WriteSizes = {2, 4, 12}
  PageReads = 2
SPECIFICATION Spec
INVARIANTS HoldsWhatItOpened UnderItsAuthentication WritesInPlace TextsAgree
PROPERTIES UidIsOfThisRead OperationEnds
