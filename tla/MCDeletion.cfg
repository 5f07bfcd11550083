SPECIFICATION FairSpec
CONSTANTS
  Attempts <- MCAttempts
  Replicas = 1
  Workers = {w1}
  MaxFaults = 1
INVARIANTS TypeOK NothingDangles MachinesAreWhole
PROPERTIES NoMachineForDeletedControlPlane DeletedInOrder DeletionCompletes
