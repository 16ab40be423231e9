SPECIFICATION Spec
CONSTANTS
  MinShardWeight = 7
  EntriesPerShard = 2
  SplitsPerThread = 2
  NumThreads = 2
  Objects <- McObjects
  Scanned <- McScanned
  Probes <- McProbes
  Paths <- McPaths
  Possible <- McPossible
  DirStackSize = 3
  MaxReq = 2
  Untidy <- McUntidy
  MaxClock = 2
  MaxEvents = 1
  MaxFiles = 5
INVARIANTS TreeMatchesIndex ShardsPartition NothingOutlives FdsAreAncestors CandidatesComplete

CHECK_DEADLOCK FALSE
