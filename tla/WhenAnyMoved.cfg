SPECIFICATION Spec
CONSTANTS
  Kinds = {"any"}
  Tasks = {t1, t2}
  Parent = parent
  Timer = timer
  TrivialMove = FALSE
  MaxWaits = 1
INVARIANTS ReturnsTheResult
CHECK_DEADLOCK FALSE
