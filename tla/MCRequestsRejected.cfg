SPECIFICATION FairSpec
CONSTANTS
  Caller = {c1, c2, c3}
  Name = {resources, contents}
  Unnamed = unnamed
  MaxRequests = 3
CHECK_DEADLOCK FALSE
PROPERTY
  NameFreed
