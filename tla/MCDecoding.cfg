SPECIFICATION DecodingSpec
CONSTANTS
  Blobs <- MCBlobs
  Samples <- MCSamples
  MaxLen = 6
  Alphabet = {0, 1, 2, 3, 4, 5, 6}
  Digit = 2
  Width = 5
  HashLen = 2
  NonceMax = 3
  PaddingMax = 4
  MinerGate = 6
  PaymentId8Len = 1
  HexBytes = {0, 9, 10, 15, 16, 159, 160, 255}
  Chars = {43, 48, 57, 58, 65, 70, 71, 97, 102, 103}
  MaxText = 4
  HashHexLen = 4
  HeightChars = 3
  Word = 500
  Decimals = 3
  Atomics = 20500
  MaxSecs = 100000000
  WideMax = 2600
  MaxAmount = 20
  SigHexLen = 4
  FullHexLen = 8
  CompactHexLen = 2
  RingMax = 2
  StripWidth = 20
  HaloWidth = 5
  Log <- MCLog
  AgeTicks = {1, 4, 9}
INVARIANTS RoundTrip ValuesReadBack FactsAreTrue PruningIsSeen RepliesDecode ListingsHold
PROPERTIES DecodesTheFormat FirstFieldsStand
CHECK_DEADLOCK FALSE
