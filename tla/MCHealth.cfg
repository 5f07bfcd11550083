SPECIFICATION Spec
CONSTANTS
  Machines = {m1, m2, m3}
  MaxChanges = 2
  MaxFaults = 1
SYMMETRY MachineSymmetry
INVARIANTS LostNodesNotHealthy EtcdHealthyMeansConsistent
