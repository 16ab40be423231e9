SPECIFICATION FairSpec
CONSTANTS
  top = top
  sub = sub
  other = other
  None = None
  Unset = Unset
  Empty = Empty
  Dir <- McDir
  Up <- McUp
  Disabled = {other}
  Ignored = {top}
  MayDie = TRUE
  MaxPrompts = 3
INVARIANTS OneQuery NextDirTracksQuery ShownIsCurrent KnownIsAbove
PROPERTY GreyEnds
CHECK_DEADLOCK FALSE
