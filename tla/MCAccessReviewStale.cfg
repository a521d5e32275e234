SPECIFICATION FairSpec
CONSTANTS
  Check <- MCCheck
  Namespace = {ns1, ns2}
  Cluster = cluster
  Cap = 1
PROPERTIES
  EveryRequestAnswered
