SPECIFICATION Spec
CONSTANTS
    w1 = w1
    w2 = w2
    Worker = {w1, w2}
    nMaps = 2
    nReduce = 1
PROPERTY JobEnds
CHECK_DEADLOCK FALSE
