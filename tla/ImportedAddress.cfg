SPECIFICATION Spec
CONSTANTS
  i1 = i1  i2 = i2  NoId = NoId  v1 = v1  v2 = v2
  Null = Null  Empty = Empty  Unknown = Unknown
  Ids = {i1}
  Values = {v1, v2}
  Default <- MCDefault
  Configs <- MCConfigs
  Resource <- Table
  Kinds <- OneKind
  MaxFaults = 1
  MaxEdits = 0
PROPERTY ReplacedOnlyIfDifferent
