SPECIFICATION FairSpec
CONSTANTS
  Kind = {pod, node}
  Namespaced = {pod}
  Namespace = {ns1, ns2}
  Cluster = cluster
INVARIANTS
  NoItemTwice
  ResponseComplete
  IInv
PROPERTIES
  AnsweredWhenSized
