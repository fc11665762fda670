CONSTANTS
  Waits = {w1, w2}
  Level0Size = 2
  LevelNSize = 2
  Units = 2
  Delays = {1, 7, 13, 16, 31}
  MaxTicks = 24
  MaxScheduleTick = 7
SPECIFICATION WheelSpec
SYMMETRY WaitSymmetry
INVARIANTS SlotMapConsistent FiresOnTime
CHECK_DEADLOCK FALSE
