\* Two calls of any kind at once, over two groups and a third that may be created; errors
\* of MySQL and Kafka anywhere, and a crash.
SPECIFICATION Spec
CONSTANTS
  Requests = {r1, r2}
  g1 = g1
  g2 = g2
  g3 = g3
  Topics = {g1, g2, g3}
  OldTopics = {g1, g2}
  OldModel = m0
  OldTags = {g1}
  Names = {n1, n2}
  NoName = NoName
  OldName = n0
  AddLists <- MCAddLists
  Selections <- MCSelections
  Free = Free
  Failures = TRUE
  MaxCrashes = 1
INVARIANTS
  TypeOK
  GroupsMatchModels
  AllOrNothing
  LocksReleased
  TaskHasMessages
PROPERTIES
  CallsAreAtomic
\* Calls come to an end.
CHECK_DEADLOCK FALSE
