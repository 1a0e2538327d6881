SPECIFICATION Spec
CONSTANTS
  Calls <- MCCalls
  Blocks = {2, 3}
  Accuracies = {0, 1, 2}
  Tolerance = 1
  MinBits <- MCMinBits
INVARIANTS TypeOK LocalMinimum
PROPERTIES ImplementsDescent
