SPECIFICATION LiveSpec
CONSTANTS
    p1 = p1
    p2 = p2
    p3 = p3
PROPERTY DaemonProgress
CHECK_DEADLOCK FALSE
