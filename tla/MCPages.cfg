SPECIFICATION PagesSpec
CONSTANTS
  s1 = s1
  s2 = s2
  b1 = b1
  b2 = b2
  r1 = r1
  r2 = r2
  r3 = r3
  u1 = u1
  u2 = u2
  m1 = m1
  m2 = m2
  m3 = m3
  Workload = {w1, w2}
  Pod = {p1}
  ReplicaCount = {1}
  Owned = Owned
  Detached = Detached
  Gone = Gone
  NoContents = NoContents
  NoRequest = NoRequest
  MaxCalls = 2
  EditKey = {r1, r2}
  PageKey = {r1}
  Texts <- PagesTexts
  NoEditKey = NoEditKey
  Empty = Empty
  Item = {r1, r2}
  Space = {s1, s2}
  SpaceOf <- PagesSpaceOf
  Ready = {r1}
  NoItem = NoItem
  BoundSubject <- PagesBoundSubject
  Binding = {b1, b2}
  Role = {r1, r2}
  SpaceOfBinding <- PagesSpaceOfBinding
  SpaceOfRole <- PagesSpaceOfRole
  Rules <- PagesRules
  ForUrls = {u2}
  Everywhere = Everywhere
  NotApplicable = NotApplicable
  None = None
  MaxSubjects = 2
  Kibi = 4
  Milli = 10
  Amounts = {0, 3, 70}
  Places = {0, 50, 99, 100, 500, 949, 1050, 5040, 9996, 10500, 95000, 99960, 104999, 1234567}
  Leaf = {4, 5, 6}
  Letters = {37, 49, 117, 255}
  MaxLength = 6
  Member = {m1, m2, m3}
  HomeOf <- PagesHomeOf
  NoHome = NoHome
  OwnersOf <- PagesOwnersOf
  Bare = {m1}
  Unready = {m2, m3}
  MaxRecent = 2
  Row = {r1, r2}
  Scalable = {r1}
  Tap = Tap
  NoRow = NoRow
  NoAct = NoAct
  NoValue = NoValue
  ListPages = {"workloads", "access", "related", "nodePods", "nodes", "namespaces", "volumes", "classes", "quotas", "thirdParty"}
  KindOn <- PagesKindOn
  Subject = r1
  Owns <- PagesOwns
  RelatedTo <- PagesRelatedTo
  TextColumn <- PagesText
  NumberColumn <- PagesNumber
  OptionalColumn <- PagesOptional
  Taps = {"name", "namespace", "status", "claim", "volumes"}
  TableStatus = {"ok", "error"}
  MaxErrors = 3
  MaxRetries = 2
CHECK_DEADLOCK FALSE
INVARIANTS
  PagesTypeOK
  EditsKept
  AccessShown
  NumbersRight
  NoticesRight
  TablesRight
