CONSTANT MaxOutput = 3
SPECIFICATION Spec
INVARIANT NothingSkipped
CHECK_DEADLOCK FALSE
