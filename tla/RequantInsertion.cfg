SPECIFICATION Spec
CONSTANTS
  t0 = t0
  t1 = t1
  t2 = t2
  t3 = t3
  t4 = t4
  t5 = t5
  t6 = t6
  t7 = t7
  Cases <- MCAllCases
INVARIANTS TypeOK WidthsAgree Narrowed SplicedOnly FallbackNeverClips LookupsInDomain Idempotent FitsStill SizedExactly LanesOfChannels TracksFloat
