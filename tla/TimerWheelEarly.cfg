CONSTANTS
  Waits = {w1}
  Level0Size = 4
  LevelNSize = 2
  Units = 2
  Delays <- AllDelays
  MaxTicks = 60
  MaxScheduleTick = 20
SPECIFICATION WheelSpec
INVARIANTS NeverEarly
CHECK_DEADLOCK FALSE
