\* The three pipelines, up to three frames in batches of two, so that the last is partial.
SPECIFICATION Spec
CONSTANTS
  Kinds = {"infer", "yolo", "mix"}
  normal = normal
  fire = fire
  smoke = smoke
  Labels <- MCLabels
  Normal = normal
  TopK = 2
  Selections <- MCSelections
  Scores <- MCScores
  BoxLists <- MCBoxLists
  BoxLabels <- MCBoxLabels
  MinScore = 0
  BatchSize = 2
  MaxFrames = 3
INVARIANTS
  TypeOK
  ResultsOfOwnFrame
  SummaryIsBest
  MergedWell
\* A video comes to its end.
CHECK_DEADLOCK FALSE
