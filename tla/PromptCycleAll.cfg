SPECIFICATION Spec
CONSTANTS
  d1 = d1
  d2 = d2
  v1 = v1
  v2 = v2
  none = none
  git = git
  other = other
  NoDir = NoDir
  Dir = {d1, d2}
  Buffer = {none, git, other}
  EmptyLine = none
  OnCommand = {git}
  Value = {v1, v2}
  Config <- McConfig
INVARIANTS ScreenIsCurrent OnCommandFollowsLine PromptComesBack
PROPERTIES FinishedStays
SYMMETRY McSymmetry
