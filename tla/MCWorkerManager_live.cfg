\* Liveness with one start, one stop and one crash; commits may fail.
SPECIFICATION FairSpec
CONSTANTS
  Tasks = {a}
  EmptyVideos = {}
  Junk = Junk
  DisplayNum = 1
  MaxMessages = 2
  MaxStarts = 1
  MaxStops = 1
  MaxBoots = 1
  DbFails = FALSE
  AckFails = TRUE
PROPERTIES
  TasksFinish
  StopSticks
\* Nothing has to be published, and a stopped worker waits for ever.
CHECK_DEADLOCK FALSE
