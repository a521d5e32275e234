SPECIFICATION FairSpec
CONSTANTS
  Kind = {pod, node}
  Namespaced = {pod}
  Namespace = {ns1}
  Cluster = cluster
PROPERTIES
  EveryRequestAnswered
