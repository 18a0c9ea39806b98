SPECIFICATION Spec
CONSTANTS
  i1 = i1  i2 = i2  v1 = v1
  Unset = Unset  Refused = Refused
  Null = Null  Blank = Blank  Mangled = Mangled  Gone = Gone
  Ids = {i1, i2}
  Values = {v1}
  Kinds <- AllKinds
  Source <- Table
  Setups <- MCSetups
  PageSize = 1
  MaxFaults = 1
  MaxChanges = 2
SYMMETRY Symmetry
CONSTRAINT Still
INVARIANTS AddressesAnswered
