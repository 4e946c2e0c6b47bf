\* One rollback of a pinned HelmRelease.
SPECIFICATION MutSpec
CONSTANTS
  Requests = {r1}
  Objects = {o1}
  Versions = {v1, v2}
  Unpinned = Unpinned
  NoRevision = NoRevision
  MaxEdits = 0
INVARIANT
  RollbackForces
CHECK_DEADLOCK FALSE
