SPECIFICATION Spec
CONSTANTS
  Pod = Pod
  Service = Service
  p1 = p1
  p2 = p2
  s1 = s1
  Key = {p1, p2}
  Kind = {Pod}
  KindOf <- MCKindOf
  PodKind = Pod
  Fetch = {resources}
  Skew = TRUE
  Lossy = TRUE
  MaxRV = 3
  MaxTries = 1
  Acts = {"create", "remove", "session"}
SYMMETRY Symmetry
INVARIANTS
  TypeOK
  SeenIsCounted
PROPERTIES
  EventsMoveForward
