SPECIFICATION Spec
CONSTANT MaxStarts = 1
CHECK_DEADLOCK FALSE
PROPERTY QueryEnds
