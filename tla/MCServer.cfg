SPECIFICATION ServerSpec
CONSTANTS
  u1 = u1
  u2 = u2
  p1 = p1
  p2 = p2
  p3 = p3
  nsA = nsA
  nsB = nsB
  Login <- ServerLogin
  NoUser = NoUser
  NoToken = NoToken
  DeadToken = DeadToken
  AuthenticatedGroups <- NoGroups
  SessionTimeout = 4
  MaxDelay = 1
  Tls = TRUE
  BearerToken = TRUE
  SessionUser = SessionUser
  SessionGroups <- ServerGroups
  Carried <- ServerCarried
  Nobody = Nobody
  ErrcCapacity = 2
  MaxChunks = 2
  Node = {n1, n2}
  Namespace = {nsA, nsB}
  MetricPod = {p1, p2, p3}
  NamespaceOf <- ServerNamespaceOf
  Containers <- ServerContainers
  VolCapacity <- ServerVolCapacity
  VolUsed <- ServerVolUsed
  NodeUsage = {3}
  NoNetwork = {p3}
  NanoPerMilli = 2
  NoSummary = NoSummary
  MaxRounds = 2
  Name = {deployment, ingress}
  Group = {apps, extensions}
  Reader = {r1, r2}
  Nil = nil
CHECK_DEADLOCK FALSE
INVARIANTS
  ServerTypeOK
  ServedAsGranted
  ActiveStaysSignedIn
  ActsAsUser
  SummaryAddsUp
  OffersWhatIsConfigured
  PublishedTogether
PROPERTIES
  EndNoticed
  SocketReleased
  NeitherStarves
