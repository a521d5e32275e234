SPECIFICATION StoreSpec
CONSTANTS
  e1 = e1
  e2 = e2
  e3 = e3
  Resource = {"dep", "pod"}
  Attributes <- StoreAttributes
  OwnerOf <- StoreOwnerOf
  NoOwner = NoOwner
  Filter <- StoreFilter
  Status = {"ok", "error"}
  NamespaceChoice <- StoreNamespaceChoice
  KindChoice <- StoreKindChoice
  MaxPending = 1
  Owner = {0}
  Child = {1, 2}
  OwnerKind = {"CronJob", "StatefulSet"}
  Bodies <- StoreBodies
  Undefined = Undefined
  Uid = {e1, e2, e3}
  About <- StoreAbout
  Order <- StoreOrder
  Times = {1, 2}
  MaxRecentEvents = 2
  MaxReceived = 3
  NoEventKey = NoEventKey
CHECK_DEADLOCK FALSE
INVARIANTS
  StoreTypeOK
  FiltersHonoured
  RelationsCurrent
  EventsKept
