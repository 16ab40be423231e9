SPECIFICATION Spec
CONSTANTS
  top = top
  sub = sub
  other = other
  None = None
  Unset = Unset
  Empty = Empty
  Dir <- McDir
  Up <- McUp
  Disabled = {}
  Ignored = {}
  MayDie = FALSE
  MaxPrompts = 3
INVARIANT GreyIsLastKnown
CHECK_DEADLOCK FALSE
