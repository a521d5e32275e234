SPECIFICATION AsyncSpec
CONSTANTS
  Caller = {c1, c2, c3}
  Name = {resources, contents}
  Unnamed = unnamed
  MaxRequests = 3
  PodContainer = {"c1", "c2"}
  NoContainer = ""
  Null = "null"
  MaxSockets = 3
  Container = {k1}
  Undefined = Undefined
  MaxTries = 2
  BufferSize = 2
  MaxFollowers = 2
  MaxLines = 3
  InfoKey = {k1, k2}
  Nothing = Nothing
CHECK_DEADLOCK FALSE
INVARIANTS
  AsyncTypeOK
  IInv
  StreamsUsable
PROPERTIES
  EveryCallerReturns
  FollowedOrReported
  PageResolves
