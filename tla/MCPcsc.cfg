CONSTANTS
  Objects = {p, q}
  Readers = {r1}
  NoName = noname
  MaxIds = 4
  MaxCards = 2
  MaxFrames = 2
  Retries = {0, 2}
SPECIFICATION FairSpec
INVARIANTS OpenIsOwned AnswerWhole
PROPERTIES HandlesChangeHands CallsEnd
