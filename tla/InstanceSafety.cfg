CONSTANTS
  Ids = {i1, i2}
  NoId = NoId
  Values = {1, 2}
  Zero = Zero
  Unset = Unset
  Unknown = Unknown
  Default <- MCDefault
  Configs <- NewConfigs
  MaxFaults = 2
  MaxEdits = 1
SPECIFICATION Spec
SYMMETRY Symmetry
INVARIANTS TypeOK NoSilentOrphan RecordAgrees UpdateAfterResize SuccessMeansConfigured
PROPERTY KeepsLedger
