SPECIFICATION Spec
CONSTANTS
  s1 = s1
  s2 = s2
  Streams = {s1, s2}
  MaxHistory = 2
  Capacity = 1
  MaxAlerts = 4
  MaxConnects = 2
CHECK_DEADLOCK FALSE
INVARIANTS TypeOK HistoryIsNewest OnceInOrder SubscribedWhileServed
PROPERTIES DeliveredUnlessDropped ImplementsFeed
