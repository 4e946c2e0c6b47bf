SPECIFICATION FairCacheSpec
CONSTANTS
  a1 = a1
  a2 = a2
  Objects = {a1, a2}
  KindOf <- MCKindOf
  App = a1
  Keys <- MCKeys
  Calls = {c1}
  NoData = NoData
  MaxVersion = 2
  Retry = 1
INVARIANTS
  CacheTypeOK
  ReadYourWrites
PROPERTIES
  EventuallyFresh
CHECK_DEADLOCK FALSE
