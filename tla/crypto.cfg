CONSTANTS
  t1 = t1
  t2 = t2
  k1 = k1
  w1 = w1
  p1 = p1
  p2 = p2
  Null = Null
  Thread <- TwoThreads
  Key <- OneKey
  Word <- OneWord
  Provider <- TwoProviders
  MaxLayers = 2
  Blanks <- NoBlanks
  TableLocksObject = TRUE
SPECIFICATION Spec
SYMMETRY Interchangeable
INVARIANTS TypeOK ReadsAreFresh
PROPERTIES ReturnsWhatWasSet
