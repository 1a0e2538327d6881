SPECIFICATION Spec
CONSTANTS
  t0 = t0
  t1 = t1
  t2 = t2
  t3 = t3
  t4 = t4
  u1 = u1
  u2 = u2
  u3 = u3
  u4 = u4
  Models <- MCModelsEvaluated
INVARIANTS TypeOK DeclaredAsEvaluated WidthSound Lossless GoldenWithSpareBit FusionKeepsSound EnsembleVotes
PROPERTIES FusionExact
