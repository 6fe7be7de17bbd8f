CONSTANTS
  CardSizes = {1, 2}
  PageSize = 2
  ByteSpace = 2
  Sizes = {2, 3}
  Answers = {0, 1, 2, 3}
  Values = {0, 1}
  MaxLength = 5
  MaxOut = 5
SPECIFICATION FairSpec
INVARIANTS SizeRestored TransfersInOrder
PROPERTIES CallsEnd
