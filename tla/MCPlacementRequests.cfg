SPECIFICATION Spec
CONSTANT MaxRequest = 4
INVARIANTS TypeOK AtMostOnce PosesInOrder
PROPERTIES PoseIsServed ScatterIsServed
CHECK_DEADLOCK FALSE
