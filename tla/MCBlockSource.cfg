SPECIFICATION Spec
CONSTANTS
  Branches = {a, b}
  Txs = {}
  MaxReorg = 2
  InitHeight = 2
  MaxHeight = 5
  Requests = {r1, r2}
  Ids <- MCIds
  Window = 2
  ServesOrphans = FALSE
  Asked = 1
SYMMETRY Symmetry
INVARIANTS TypeOK HeightCacheSound HitsAnswerTheQuestion
