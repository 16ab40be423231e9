SPECIFICATION Spec
CONSTANTS
  h1 = h1
  h2 = h2
  v1 = v1
  v2 = v2
  NoHead = NoHead
  None = None
  NumThreads = 2
  NumShards = 2
  Oid <- McOid
  Version <- McVersion
  StagedDeltas <- McStaged
  DirtyDeltas <- McDirty
  Flagged <- McFlagged
  Entries <- McEntries
  SmallIndex = {v1, v2}
  Limit <- McLimit
  Faults = {"diff"}
  MaxReq = 1
  MaxFail = 1
INVARIANT FailureIsReported
CHECK_DEADLOCK FALSE
