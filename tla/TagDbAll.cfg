SPECIFICATION TagDbSpec
CONSTANTS
  c1 = c1
  c2 = c2
  t1 = t1
  t2 = t2
  NoRef = NoRef
  Symbolic = Symbolic
  Names = {1, 2, 3, 4}
  Nested = {3}
  DirOf <- McDirOf
  Commits = {c1, c2}
  TagObjects = {t1, t2}
  Points <- McPoints
  Written = {c1, t1}
  FirstLoose <- McFirstLoose
  FirstPacked <- McFirstPacked
  Threads = {1, 2}
  kMaxDerefCount = 2
  MaxLookups = 2
  MaxEvents = 2
INVARIANTS SortIsAlone AnswerIsTrue
PROPERTY LookupsEnd
CHECK_DEADLOCK FALSE
