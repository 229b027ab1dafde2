\* A stop and a start between two looks at Restart.
SPECIFICATION Spec
CONSTANTS
  Tasks = {a}
  EmptyVideos = {}
  Junk = Junk
  DisplayNum = 1
  MaxMessages = 1
  MaxStarts = 2
  MaxStops = 1
  MaxBoots = 0
  DbFails = FALSE
  AckFails = FALSE
INVARIANT
  NoTaskLost
\* Nothing has to be published, and a stopped worker waits for ever.
CHECK_DEADLOCK FALSE
