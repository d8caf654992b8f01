SPECIFICATION RingSpec
CONSTANTS
  Requests = {r1}
  Inputs <- MCInputs
  Amounts = {0, 1}
  MaxU64 = 3
  MaxOutputs = 2
  Branches = {a, b}
INVARIANTS RingsAreRight SoundInputResolved
