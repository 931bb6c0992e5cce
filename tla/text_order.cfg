SPECIFICATION Spec
CONSTANT Size = 3
INVARIANT TextIsInReadingOrder
CHECK_DEADLOCK FALSE
