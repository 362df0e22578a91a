\* Two producers and two consumers, one of which also clears
SPECIFICATION FairSpec
CONSTANTS
  p1 = p1
  p2 = p2
  c1 = c1
  c2 = c2
  a = a
  b = b
  Producers = {p1, p2}
  Consumers = {c1, c2}
  Clearers = {c2}
  Codes = {a, b}
  Capacity = 2
INVARIANTS
  TypeOK
  NoSleepingTaker
PROPERTY IsLiveFifo
