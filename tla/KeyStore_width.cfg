SPECIFICATION Spec
CONSTANTS
  p1 = p1
  p2 = p2
  d1 = d1
  d2 = d2
  Absent = Absent
  Torn = Torn
  Proc <- TwoClients
  Dir <- OneDir
  Width = {2, 3}
  MaxKeys = 2
  MaxCrash = 1
INVARIANTS WidthMismatchIsLoud
CHECK_DEADLOCK FALSE
