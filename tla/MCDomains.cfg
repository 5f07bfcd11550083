SPECIFICATION FairPlacementSpec
CONSTANTS
  Domains = {a, b, c}
  NoDomain = NoDomain
  MaxReplicas = 4
  MaxChanges = 3
  Unmarking = FALSE
INVARIANT RolloutSpreads
PROPERTY RolloutCompletes
CHECK_DEADLOCK FALSE
