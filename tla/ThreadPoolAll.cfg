SPECIFICATION FairSpec
CONSTANTS
  Worker = {w1, w2, w3}
  Client = {c1}
  MaxIdx = 3
  MaxTime = 1
INVARIANTS NoLostWakeup
PROPERTIES WaitDrains CallsReturn ImplementsExecutor
CHECK_DEADLOCK FALSE
