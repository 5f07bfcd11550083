SPECIFICATION FairSpec
CONSTANTS
  ControlPlaneMachines = {m1, m2}
  WorkerMachines = {}
  NoLock = NoLock
  Concurrency = 2
  MaxLag = 1
  MaxFaults = 1
INVARIANTS TypeOK OnlyRacesInitTwice InitProtected
PROPERTIES NoInitOnceInitialized EveryoneBootstraps
CHECK_DEADLOCK FALSE
