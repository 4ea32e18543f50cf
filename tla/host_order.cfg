CONSTANTS
  w1 = w1
  w2 = w2
  b = b
  Word <- MCWord
  Blank <- b
  Numeral <- MCNumeral
  String <- MCString
  Host <- MCHost
  Precedes <- MCPrecedes
  Modulus = 8
  MAX_PORT = 3
  MaxHeld = 3
SPECIFICATION Spec
INVARIANTS EqualIsNotLess
