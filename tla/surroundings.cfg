CONSTANTS
  sep = sep
  blank = blank
  dir = dir
  config = config
  file = file
  true = true
  false = false
  yes = yes
  word = word
  half = half
  vast = vast
  vaster = vaster
  nan = nan
  infinity = infinity
  FILE_SEPARATOR = sep
  Space = blank
  Name = {dir, config, file}
  Config = config
  Variable <- MCVariable
  File <- MCFile
  MinutesPerHour = 3
  HoursPerDay = 2
  MaxInstant = 8
  Offset <- MCOffset
  Missing = Missing
  Decimal = {half, vast, vaster}
  NaN = nan
  Infinity = infinity
  Letters = {true, false, yes, word}
  True = true
  False = false
  AlsoTrue = {yes}
  ShortMax = 0
  IntMax = 1
  LongMax = 3
  FloatHuge <- MCFloatHuge
  DoubleHuge = {vaster}
  Text <- MCText
SPECIFICATION SurroundingsSpec
INVARIANTS ReadingsTyped DateTimeIsRight SidesFindTheSame SidesReadTheSame
