SPECIFICATION Spec
CONSTANTS
  NumCores = 2
INVARIANTS JoinIsComplete NoWorkCutShort SignalsCaught MaskRestored
PROPERTIES StopsEnd
CHECK_DEADLOCK FALSE
