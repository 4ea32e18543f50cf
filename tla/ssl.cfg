CONSTANTS
  rel = rel
  root = root
  bare = bare
  c1 = c1
  c2 = c2
  torn = torn
  w1 = w1
  w2 = w2
  jks = jks
  odd = odd
  Empty = Empty
  Absent = Absent
  NULL = NULL
  Path <- MCPath
  Slashed <- MCSlashed
  Content = {c1, c2, torn}
  System <- MCSystem
  Own <- MCOwn
  Password = {w1, w2}
  Type = {jks, odd}
  Given <- MCGiven
  Supported = {jks}
  Opens <- MCOpens
  Damaged = {torn}
  Recovers <- MCRecovers
SPECIFICATION HSpec
INVARIANTS TypeOK ContextIsComplete
PROPERTIES StoresAreCurrent
