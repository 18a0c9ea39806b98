CONSTANTS
  Ids = {i1, i2}
  NoId = NoId
  Values = {1, 2}
  Zero = Zero
  Unset = Unset
  Unknown = Unknown
  Default <- MCDefault
  Configs <- FullConfigs
  MaxFaults = 1
  MaxEdits = 1
SPECIFICATION FairSpec
PROPERTIES HandlersReturn Convergence
