SPECIFICATION Spec
CONSTANTS
  MaxMachines = 4
  InitMachines = 0
  Replicas = {1, 3}
  MaxFailures = 1
  UserRequests = {"scale", "upgrade", "annotate", "delete"}
  MaxUserOps = 2
  CacheLag = FALSE
  MaxFaults = 1
INVARIANT InitializesOneMachine
PROPERTIES NeverTheLastMachine LiveMemberNotRemoved MemberLeavesBeforeHost
