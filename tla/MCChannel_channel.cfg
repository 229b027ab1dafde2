\* Three threads, two slots, two items: two waiters of one kind, or one of each, and one
\* thread awake; a second push or pop before the thread that the first woke has run.
\* Without symmetry, as there is a liveness property.
SPECIFICATION FairSpec
CONSTANTS
  Threads = {t1, t2, t3}
  Items = {x, y}
  NoItem = NoItem
  Capacity = 2
INVARIANTS
  TypeOK
  NoLostSlot
  NoLostItem
  NoGetSleepsOnClosed
PROPERTIES
  Atomic
  CallsReturn
\* All threads may be blocked in Put: the clients decide, not the channel.
CHECK_DEADLOCK FALSE
