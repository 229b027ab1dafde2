\* Two messages (two tasks, a duplicate, junk), the video of b is empty; one start,
\* one stop, one crash; errors of MySQL and failing commits.
SPECIFICATION Spec
CONSTANTS
  Tasks = {a, b}
  EmptyVideos = {b}
  Junk = Junk
  DisplayNum = 1
  MaxMessages = 2
  MaxStarts = 1
  MaxStops = 1
  MaxBoots = 1
  DbFails = TRUE
  AckFails = TRUE
INVARIANTS
  TypeOK
  QueueMatchesMap
  NoTaskLost
  RunningIsRetried
  CommittedHasResults
PROPERTIES
  InOrderAtLeastOnce
  OnlyAStartResumes
\* Nothing has to be published, and a stopped worker waits for ever.
CHECK_DEADLOCK FALSE
