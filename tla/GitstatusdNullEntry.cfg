SPECIFICATION FairSpec
CONSTANTS
  top = top
  sub = sub
  topGit = topGit
  subGit = subGit
  Path <- McPath
  Up <- McUp
  GitDir = {topGit, subGit}
  Own <- McOwn
  NoGit = NoGit
  Ttl = 1
  MaxReq = 2
  MaxMoves = 1
  MaxCommits = 1
  Faults = {"odb"}
PROPERTY EveryRequestHasResponse
CHECK_DEADLOCK FALSE
