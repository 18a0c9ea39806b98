CONSTANTS
  Ids = {i1}
  NoId = NoId
  Values = {1, 2}
  Zero = Zero
  Unset = Unset
  Unknown = Unknown
  Default <- MCDefault
  Configs <- NoBackupConfigs
  MaxFaults = 0
  MaxEdits = 1
SPECIFICATION Spec
PROPERTY RetentionInRange
