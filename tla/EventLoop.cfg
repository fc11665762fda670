CONSTANTS
  Tasks = {t1, v1, v2}
  Services = {v1, v2}
  Threads = {s1}
  GracefulCallers = {"owner", "foreign"}
  MaxSuspends = 2
SPECIFICATION FairSpec
INVARIANTS HandlesResumableOnce CallbackFrameAlive NoOrphanedTask NoLostSubmitWakeup
PROPERTIES StopReturns GracefulDrains
CHECK_DEADLOCK FALSE
