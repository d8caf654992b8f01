SPECIFICATION Spec
CONSTANTS
  t1 = t1
  t2 = t2
  Branches = {a}
  Txs = {t1, t2}
  MaxReorg = 1
  InitHeight = 1
  MaxHeight = 4
  Requests = {r1, r2}
  Asks <- MCAsks
  MaxTxsPerCall = 2
  Window = 2
SYMMETRY Symmetry
INVARIANTS TxCacheSound FoundOrMissed InRequestedOrder
