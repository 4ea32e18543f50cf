CONSTANTS
  t1 = t1
  t2 = t2
  k1 = k1
  w1 = w1
  p1 = p1
  p2 = p2
  Null = Null
  Thread <- OneThread
  Key <- OneKey
  Word <- OneWord
  Provider <- OneProvider
  MaxLayers = 2
  Blanks <- SomeBlanks
  TableLocksObject = TRUE
SPECIFICATION Spec
PROPERTIES ReturnsWhatWasSetOrDefault
