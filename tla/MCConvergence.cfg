SPECIFICATION FairSpec
CONSTANTS
  MaxMachines = 7
  InitMachines = 3
  Replicas = {3}
  MaxFailures = 1
  UserRequests = {"upgrade"}
  MaxUserOps = 1
  CacheLag = TRUE
  MaxFaults = 1
INVARIANTS TypeOK SurgeBound OneDeletionAtATime QuorumKept
PROPERTIES Convergence LeaderForwarded
