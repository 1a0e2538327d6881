SPECIFICATION Spec
CONSTANTS
  t0 = t0
  t1 = t1
  t2 = t2
  t3 = t3
  t4 = t4
  u1 = u1
  u2 = u2
  u3 = u3
  u4 = u4
  Unknown = Unknown
  LtSlots = 4
  GiantStep = 2
  Levels = 8
  MaxPolyDegree = 15
  Degrees = {1, 15}
  Unit = 8
  FitError = 1
  Models <- CkksModels
  Row <- Rows
INVARIANTS WithinTolerance DecryptsToReference LevelsSuffice RotationsHaveKeys
