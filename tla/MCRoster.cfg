CONSTANTS
    c1 = c1
    c2 = c2
    c3 = c3
    t1 = t1
    t2 = t2
    Client <- Clients
    Track <- Tracks
SPECIFICATION Spec
INVARIANTS TypeOK OwnersHold OwnerAlone
PROPERTIES CoverageKept
CHECK_DEADLOCK FALSE
