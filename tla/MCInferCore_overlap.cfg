\* Two calls of AnnotateVideo that both test the flag before either sets it.
SPECIFICATION Spec
CONSTANTS
  Requests = {r1, r2}
  MaxVideos = 1
  Videos <- PlainVideos
  Capacity = 1
  BatchSize = 2
  BatchNum = 2
  Overlap = TRUE
  WriteFails = FALSE
INVARIANT
  FlagKeepsOthersOut
CHECK_DEADLOCK FALSE
