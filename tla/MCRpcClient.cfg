SPECIFICATION ClientSpec
CONSTANTS
  Calls = {"block", "alt_chains", "txids_loose", "headers_range", "mempool", "transactions"}
  JsonRpc = {"block", "alt_chains", "txids_loose", "headers_range"}
  Timeout = 2
  MaxBytes = 3
  Lengths = {0, 2, 3, 4}
  Frames = {1, 2, 3}
  Undeclared = Undeclared
INVARIANTS WithinDeadline BufferBounded OkIsTheDaemonsOk NotFoundIsTheDaemonsWord RetryLaterIsEarned
PROPERTIES EveryCallEnds
