\* The handler behind the production middleware chain.
SPECIFICATION StreamSpec
CONSTANTS
  s1 = s1
  prod = prod
  dev = dev
  Publishers = {p1}
  Subscribers = {s1}
  Deferred = d
  Callers = {d}
  MaxEvents = 2
  BufSize = 1
  Events <- MCEvents
  ClusterOf <- MCClusterOf
  Allowed <- MCAllowed
  Chain <- ProductionChain
PROPERTY
  StreamOpens
CHECK_DEADLOCK FALSE
