SPECIFICATION Spec
CONSTANTS
  MinShardWeight = 4
  EntriesPerShard = 2
  SplitsPerThread = 3
  NumThreads = 1
  Objects <- McFull
  Scanned = {}
  Probes <- McProbes
  Paths <- McPaths
  Possible <- McPossible
  DirStackSize = 3
  MaxReq = 2
  Untidy <- McUntidy
  MaxClock = 2
  MaxEvents = 1
  MaxFiles = 5
INVARIANTS SplitsFit

CHECK_DEADLOCK FALSE
