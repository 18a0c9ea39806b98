SPECIFICATION Spec
CONSTANTS
  i1 = i1  i2 = i2  NoId = NoId  v1 = v1  v2 = v2
  Null = Null  Empty = Empty  Unknown = Unknown
  Ids = {i1, i2}
  Values = {v1, v2}
  Default <- MCDefault
  Configs <- MCConfigs
  Resource <- Table
  Kinds <- AllKinds
  MaxFaults = 1
  MaxEdits = 1
SYMMETRY Symmetry
VIEW View
INVARIANTS TypeOK NoServingOrphan RecordAgrees SuccessMeansConfigured
PROPERTIES SuccessMeansReady KeepsIdentifier ReplacedForAReason NoLostUpdate
CONSTRAINT Own
