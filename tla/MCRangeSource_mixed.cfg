SPECIFICATION Spec
CONSTANTS
  Branches = {a}
  Txs = {t1, t2}
  MaxReorg = 1
  InitHeight = 1
  MaxHeight = 4
  Requests = {r1}
  Ranges <- MCRanges
  MaxSpan = 2
  Window = 1
INVARIANTS RowIsOneBlock
