CONSTANTS
  t1 = t1
  t2 = t2
  k1 = k1
  k2 = k2
  v1 = v1
  v2 = v2
  NoThread = NoThread
  Thread <- OneThread
  Key <- OneKey
  Value <- TwoValues
  Capacity = 2
  Expiration = 1
  TicksPerSecond = 1
  MaxTick = 2
  ClockMayStepBack = FALSE
SPECIFICATION Spec
PROPERTIES LiveKeyServed
