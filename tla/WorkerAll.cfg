SPECIFICATION FairWorkerSpec
CONSTANTS
  time = time
  next = next
  None = None
  Absent = Absent
  InFlight = InFlight
  Id <- McId
  Chained <- McChained
  MaxJobs = 2
  MaxReq = 3
  MaxStarts = 2
  MayDie = {"starting", "announced", "up"}
INVARIANTS OneInFlight NothingForgotten RepliesBeforeDone
PROPERTY LatestIsServed
CHECK_DEADLOCK FALSE
