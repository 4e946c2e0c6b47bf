\* Two watchers that publish for ever, two subscriptions, each unsubscribed from two call sites.
SPECIFICATION FairHubSpec
CONSTANTS
  Publishers = {p1, p2}
  Subscribers = {s1, s2}
  Callers = {c1, c2}
  Events = {e1}
  BufSize = 1
INVARIANTS
  HubTypeOK
  NoPanic
PROPERTIES
  SilentAfterDelete
  CallsReturn
