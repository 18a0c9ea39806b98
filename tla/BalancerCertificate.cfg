CONSTANTS
  Ids = {l1}
  NoId = NoId
  Checks = {h1}
  Backends = {b1}
  Values = {1, 2}
  Empty = Empty
  Unset = Unset
  Unknown = Unknown
  Default <- MCDefault
  Configs <- CertConfigs
  MaxFaults = 0
  MaxEdits = 1
SPECIFICATION Spec
PROPERTY CertificateReplaced
