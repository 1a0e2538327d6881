SPECIFICATION CmdSpec
CONSTANTS
  p1 = p1
  p2 = p2
  d1 = d1
  d2 = d2
  b1 = b1
  Absent = Absent
  Torn = Torn
  Proc <- TwoClients
  Dir <- TwoDirs
  Box <- OneBox
  Width = {2}
  MaxKeys = 2
  MaxCrash = 1
  MaxRequests = 2
SYMMETRY SharedSymmetry
INVARIANTS CmdTypeOK RightResult DirectoriesArePairs RightWhenUndisturbed RightAnswer
CHECK_DEADLOCK FALSE
