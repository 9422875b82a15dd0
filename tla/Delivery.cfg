SPECIFICATION Spec
CONSTANTS
  MaxEvents = 3
  MaxConns = 3
  MaxFaults = 2
  WireSize = 1
  QueueSize = 2
  AlertQueueSize = 1
CHECK_DEADLOCK FALSE
INVARIANTS TypeOK InOrderPerConnection SentIsAccountedFor
PROPERTIES ImplementsIntake SentIsSettled Reconnects StopsWhenTold
