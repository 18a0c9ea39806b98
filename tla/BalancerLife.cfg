CONSTANTS
  Ids = {l1}
  NoId = NoId
  Checks = {h1}
  Backends = {b1, b2}
  Values = {1, 2}
  Empty = Empty
  Unset = Unset
  Unknown = Unknown
  Default <- MCDefault
  Configs <- MixedConfigs
  MaxFaults = 1
  MaxEdits = 1
SPECIFICATION FairSpec
INVARIANTS TypeOK NoServingOrphan RecordAgrees TargetsLast SuccessMeansConfigured
PROPERTIES OnlyNeededRequests Convergence
