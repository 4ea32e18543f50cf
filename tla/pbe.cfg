CONSTANTS
  p1 = p1
  p2 = p2
  left1 = left1
  left2 = left2
  ALGO_BLOCK_SIZE = 2
  Byte <- MCByte
  Plain <- MCPlain
  Password = {p1, p2}
  Salt <- MCSalt
  SALT <- MCSALT
  MinLong <- MCMinLong
  MaxLong = 3
  Asked <- MCAsked
  DefaultIterations = 3
  Weak <- MCWeak
  Leftover = {left1, left2}
  Noise <- MCNoise
  MaxForeign = 1
  MaxMade = 1
SPECIFICATION FairSpec
INVARIANTS TypeOK RoundTrip DigestedAsAsked
PROPERTIES CallsEnd ImplementsContract
