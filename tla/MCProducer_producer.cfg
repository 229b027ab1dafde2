\* A worker (synchronous) or an API server (asynchronous) with every kind of goroutine;
\* a failed delivery and a kafka.Error; room for two messages and one event.
SPECIFICATION FairSpec
CONSTANTS
  Starter = starter
  Fronts = {f1}
  Singles = {p1, p2}
  DisplayNum = 2
  QueueCap = 2
  EventsCap = 1
  Modes = {TRUE, FALSE}
  Error = Error
  Nothing = Nothing
  Free = Free
  MaxFails = 1
  MaxErrors = 1
INVARIANTS
  TypeOK
  Balance
  OwnReport
  InitTasksDelivered
PROPERTIES
  PushReturns
  ListenerGetsMutex
\* Goroutines come to an end.
CHECK_DEADLOCK FALSE
