SPECIFICATION Spec
CONSTANTS
  Requests = {"page", "tip"}
  Routes <- MCRoutes
  Ledger <- MCLedger
  Pooled <- MCPooled
  Received <- MCReceived
  Undecodable <- MCUndecodable
  Unresolved <- MCUnresolved
  Offers <- MCOffers
  Faults <- MCFaults
  Limits <- MCLimits
  Log <- MCLog
  Window = 2
  StartHeight = 8
  MaxHeight = 9
  Ttl = 2
  CallMax = 1
  DefaultLimit = 2
  MAX_TRANSACTIONS_LIMIT = 3
  MAX_MEMPOOL_LIMIT = 2
  BitsPerChar = 1
  HexChars = {0, 1}
  HashLen = 4
  MIN_ANONYMITY_SET = 1
  MAX_PRIVATE_TX_MATCHES = 2
  Word = 32
  PerPage = 2
  StripWidth = 20
  HaloWidth = 5
  AgeTicks = {1, 4, 9}
CONSTRAINT TipContended
INVARIANTS HonestStatuses PrivateServesTheSet AnswersShowTheChain
PROPERTIES TipIsRecent
