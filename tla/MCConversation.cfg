CONSTANTS
    NULL = NULL
    MAX_TIMEOUTS = 3
    MaxFaults = 1
    MaxWaiting = 2
    MaxSeq = 3
    MaxStops = 1
SPECIFICATION Spec
INVARIANTS TypeOK NeverFallsThrough TwiddleUnderstands OnePeer PhantomsHearNothing NumbersTellSides
CHECK_DEADLOCK FALSE
