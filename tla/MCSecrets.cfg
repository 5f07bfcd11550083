SPECIFICATION FairSpec
CONSTANTS
  Configs = {c1, c2}
  NoConfig = NoConfig
  EtcdEmbedded = FALSE
  LegacyTokens = {TRUE, FALSE}
  UserSecrets <- MCUserSecrets
  MaxKeys = 4
  MaxRotations = 1
  MaxFaults = 1
INVARIANT KubeconfigFits
PROPERTIES ImplementsIdentity KubeconfigRotated Provisioned
