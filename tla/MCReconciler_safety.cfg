\* One name, edited, deleted and re-created, over two connections, with a restart.
SPECIFICATION RecSpec
CONSTANTS
  Names = {n1}
  Conns = {c1, c2}
  NoEntry = NoEntry
  Entry <- MCEntry
  MaxUid = 2
  MaxGen = 2
  MaxRot = 1
  Unstable = {c1, c2}
  MaxRestarts = 1
  Stamps = {0}
INVARIANTS
  RecTypeOK
  ObservedSpecIsServed
  OrderMatchesEntries
  AlwaysScheduled
CHECK_DEADLOCK FALSE
