SPECIFICATION Spec
CONSTANTS
  Branches = {a}
  Txs = {t1, t2}
  MaxReorg = 2
  InitHeight = 1
  MaxHeight = 5
  Requests = {r1}
  Ranges <- MCRanges
  MaxSpan = 2
  Window = 2
SYMMETRY Symmetry
INVARIANTS WholeWhenCalm NoTxTwice
