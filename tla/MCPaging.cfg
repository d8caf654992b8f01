SPECIFICATION PagingSpec
CONSTANTS
  Word = 32
  PageLimits = {0, 1, 2, 3, 7}
  PerPage = 3
  MaxBlocks = 9
INVARIANTS AsksWithinChain WalkSeesEveryBlock
