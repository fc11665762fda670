CONSTANTS
  Tasks = {v1}
  Services = {v1}
  Threads = {s1}
  GracefulCallers = {"foreign"}
  MaxSuspends = 1
SPECIFICATION Spec
INVARIANTS GracefulStopCrossCore
CHECK_DEADLOCK FALSE
