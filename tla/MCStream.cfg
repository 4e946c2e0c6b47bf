\* One watcher, two browsers, one of which may read its cluster.
SPECIFICATION StreamSpec
CONSTANTS
  s1 = s1
  prod = prod
  dev = dev
  Publishers = {p1}
  Subscribers = {s1,s2}
  Deferred = d
  Callers = {d}
  MaxEvents = 3
  BufSize = 2
  Events <- MCEvents
  ClusterOf <- MCClusterOf
  Allowed <- MCAllowed
  Chain <- BareChain
INVARIANTS
  OrderedFeed
  NoSilentLoss
PROPERTIES
  EventuallyForwarded
  NoSubscriberLeak
  ImplementsFeed
CHECK_DEADLOCK FALSE
