SPECIFICATION FairSpec
CONSTANTS
  Pod = Pod
  Service = Service
  p1 = p1
  p2 = p2
  s1 = s1
  Key = {p1, s1}
  Kind = {Pod, Service}
  KindOf <- MCKindOf
  PodKind = Pod
  Fetch = {resources}
  Skew = TRUE
  Lossy = FALSE
  MaxRV = 3
  MaxTries = 1
  Acts = {"create", "remove", "end"}
CHECK_DEADLOCK FALSE
PROPERTIES
  DeletionShown
