CONSTANTS
  t1 = t1
  t2 = t2
  k1 = k1
  k2 = k2
  v1 = v1
  v2 = v2
  f1 = f1
  f2 = f2
  Thread <- TwoThreads
  Key <- OneKey
  Value <- TwoValues
  File <- TwoFiles
  DefaultsMayChange = TRUE
SPECIFICATION HSpec
SYMMETRY Interchangeable
INVARIANTS TypeOK
PROPERTIES KeepsWhatItChecked LoadIsComplete
