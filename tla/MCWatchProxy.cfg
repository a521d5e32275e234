SPECIFICATION FairSpec
CONSTANTS
  Kind = {pod, secret}
  Namespace = {ns1}
  Cluster = cluster
  PathCap = 1
  OutCap = 1
  ErrCap = 1
CHECK_DEADLOCK FALSE
INVARIANTS
  SafeSession
PROPERTIES
  EverythingEnds
  LockReleased
