SPECIFICATION Spec
CONSTANTS
  d1 = d1
  d2 = d2
  l1 = l1
  l2 = l2
  Daemons = {d1, d2}
  Left = {l1, l2}
  LeftGrown <- McLeftGrown
  Mine = {l1}
  StaleAge = 2
  MaxClock = 4
  MaxCrash = 1
INVARIANTS VerdictIsTrue NothingLeft
CHECK_DEADLOCK FALSE
