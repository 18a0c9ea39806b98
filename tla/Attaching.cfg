SPECIFICATION Spec
CONSTANTS
  e1 = e1  e2 = e2  t1 = t1  t2 = t2  h1 = h1  h2 = h2
  Nowhere = Nowhere  NoPair = NoPair
  Entries = {e1, e2}
  Things = {t1, t2}
  Hosts = {h1, h2}
  MaxFaults = 2
  MaxEdits = 1
SYMMETRY Symmetry
INVARIANTS TypeOK NothingForgotten SuccessMeansAttached
