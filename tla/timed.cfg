CONSTANTS
  t1 = t1
  t2 = t2
  k1 = k1
  k2 = k2
  v1 = v1
  v2 = v2
  NoThread = NoThread
  Thread <- TwoThreads
  Key <- OneKey
  Value <- TwoValues
  Capacity = 2
  Expiration = 1
  TicksPerSecond = 2
  MaxTick = 2
  ClockMayStepBack = TRUE
SPECIFICATION HFairSpec
INVARIANTS TypeOK WellFormed ScanIsSound
PROPERTIES ExpirationWindow LiveEntriesKept GetKeyAnswers ImplementsContract CallsProgress CallsReturn
