SPECIFICATION Spec
CONSTANTS
  t1 = t1
  t2 = t2
  Tids = {t1, t2}
  Syscalls <- FamilySyscalls
  Configs <- BothProfiles
  AttachedAtStart <- AllAttached
  MapSize = 1
  RingSize = 2
  MaxCalls = 3
SYMMETRY Symmetry
CHECK_DEADLOCK FALSE
INVARIANTS NoDuplicateRecord OrderPerThread PendingIsInFlight
