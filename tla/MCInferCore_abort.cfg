\* A video whose decoding throws before the announced frames are out.
SPECIFICATION FairSpec
CONSTANTS
  Requests = {r1}
  MaxVideos = 1
  Videos <- AbortedVideos
  Capacity = 1
  BatchSize = 2
  BatchNum = 2
  Overlap = FALSE
  WriteFails = FALSE
PROPERTY
  AbortExits
CHECK_DEADLOCK FALSE
