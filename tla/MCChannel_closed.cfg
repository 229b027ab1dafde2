\* Two threads and one slot are enough for a Put that the closed channel accepts.
SPECIFICATION FairSpec
CONSTANTS
  Threads = {t1, t2}
  Items = {x}
  NoItem = NoItem
  Capacity = 1
PROPERTIES
  NothingAddedOnceClosed
\* All threads may be blocked in Put: the clients decide, not the channel.
CHECK_DEADLOCK FALSE
