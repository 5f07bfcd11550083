SPECIFICATION FairSpec
CONSTANTS
  Labels = {a, b}
  Values = {1, 2}
  None = None
  Kinds = {"machine", "legacyMachine", "external"}
  MaxChanges = 2
  MaxFaults = 1
INVARIANT CachedRequestsAreNoOps
PROPERTY TemplateApplied
