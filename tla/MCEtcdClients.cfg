SPECIFICATION FairSpec
CONSTANTS
  Nodes = {n1, n2, n3}
  Nobody = Nobody
  MaxChanges = 4
INVARIANTS ClientsClosed RecycledPodsForgotten
PROPERTY LeaderReached
