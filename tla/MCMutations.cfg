\* Two requests of any kind on one object that an operator edits and Flux reconciles.
SPECIFICATION FairMutSpec
CONSTANTS
  Requests = {r1, r2}
  Objects = {o1}
  Versions = {v1, v2}
  Unpinned = Unpinned
  NoRevision = NoRevision
  MaxEdits = 1
INVARIANTS
  MutTypeOK
  AuditTruth
PROPERTIES
  RequestsServed
  ImplementsAtomic
CHECK_DEADLOCK FALSE
