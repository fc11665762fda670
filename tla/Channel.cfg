SPECIFICATION Spec
CONSTANTS
  Threads = {t1, t2, t3, t4}
  Capacity = 2
  MaxSends = 5
SYMMETRY ThreadSymmetry
INVARIANTS NoLostWakeup ClosedBlocksNobody
PROPERTIES ImplementsFifo
CHECK_DEADLOCK FALSE
