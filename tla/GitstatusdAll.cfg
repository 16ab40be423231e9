SPECIFICATION FairSpec
CONSTANTS
  top = top
  sub = sub
  topGit = topGit
  subGit = subGit
  Path <- McPath
  Up <- McUp
  GitDir = {topGit, subGit}
  Own <- McOwn
  NoGit = NoGit
  Ttl = 2
  MaxReq = 2
  MaxMoves = 1
  MaxCommits = 1
  Faults = {"discover", "open", "odb", "head", "stats", "tag", "git"}
INVARIANTS AnswersInOrder LruMatchesCache TagHasItsRepo
PROPERTIES ClosedWhenUnused EveryoneAnswered UnusedIsClosed
CHECK_DEADLOCK FALSE
