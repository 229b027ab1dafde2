\* Two calls, one of which may arrive while the other runs; summary streams of two
\* videos, whose client may go away; videos of up to three frames over a channel of
\* one, batches of two and responses of two batches.
SPECIFICATION FairSpec
CONSTANTS
  Requests = {r1, r2}
  MaxVideos = 2
  Videos <- MCVideos
  Capacity = 1
  BatchSize = 2
  BatchNum = 2
  Overlap = FALSE
  WriteFails = TRUE
INVARIANTS
  TypeOK
  OneVideoAtATime
  NoUseAfterFree
  FlagTellsTruth
  ResponsesComplete
  AbortReported
  NeverStuck
PROPERTIES
  HealthyProgresses
  HealthyVideoEnds
\* The calls come to an end, and those on a video that cannot be read never do.
CHECK_DEADLOCK FALSE
