\* Start, stop, resume, stop, resume, stop.
SPECIFICATION FairSpec
CONSTANTS
  Tasks = {a}
  EmptyVideos = {}
  Junk = Junk
  DisplayNum = 1
  MaxMessages = 1
  MaxStarts = 3
  MaxStops = 3
  MaxBoots = 0
  DbFails = FALSE
  AckFails = FALSE
PROPERTIES
  StopIsSeen
\* Nothing has to be published, and a stopped worker waits for ever.
CHECK_DEADLOCK FALSE
