SPECIFICATION Spec
CONSTANTS
  Calls = {open, write, read}
  Workers = {w1, w2}
  Capacity = 1
  Opener = open
  Writers = {write}
  Readers = {read}
  Size = 2
INVARIANTS SharedStateAlive NoResultRace OutcomeDelivered FileOpenInUse ReadsWhole
PROPERTIES CallsReturn NothingLeaks
CHECK_DEADLOCK FALSE
