SPECIFICATION Spec
CONSTANTS
  ControlPlaneMachines = {m1, m2, m3}
  WorkerMachines = {w1}
  NoLock = NoLock
  Concurrency = 2
  MaxLag = 0
  MaxFaults = 0
SYMMETRY Symmetry
INVARIANT OnlyOneInit
CHECK_DEADLOCK FALSE
