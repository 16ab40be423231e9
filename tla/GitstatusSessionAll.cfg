SPECIFICATION Spec
CONSTANT MaxStarts = 2
\* A shell that has exited stops.
CHECK_DEADLOCK FALSE
INVARIANTS HandshakeDone DogBitesOnlyOrphans
PROPERTIES NothingLeft StartEnds
