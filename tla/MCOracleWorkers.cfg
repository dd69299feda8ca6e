SPECIFICATION Spec
CONSTANTS
  w1 = w1
  w2 = w2
  mock1 = mock1
  mock2 = mock2
  mock3 = mock3
  eth = eth
  arb = arb
  s1 = s1
  s2 = s2
  s3 = s3
  Workers = {w1, w2}
  Prices = {eth, arb}
  Sources <- MCSources
  MaxRetries = 1
  Jobs <- MCJobs
  PriceOf <- MCPriceOf
  ValidationDisabled = {w2}
INVARIANTS
  TypeOK
  MutexIsExact
  ValidatedMocksAreProven
  NobodyRunsOnStop
PROPERTIES
  StopEnds
  NoJobStarves
