\* One name, edited over two connections, one of them with a rotating credential and
\* a failing network, with a restart.
SPECIFICATION FairRecSpec
CONSTANTS
  Names = {n1}
  Conns = {c1, c2}
  NoEntry = NoEntry
  Entry <- MCEntry
  MaxUid = 1
  MaxGen = 2
  MaxRot = 2
  Unstable = {c1}
  MaxRestarts = 1
  Stamps = {0}
PROPERTIES
  Converges
  ProbedForEver
  DeletedForgotten
CHECK_DEADLOCK FALSE
