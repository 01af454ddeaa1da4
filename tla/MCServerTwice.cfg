CONSTANTS
    c1 = c1
    c2 = c2
    c3 = c3
    Client <- Clients3
    NULL = NULL
    Name = {"long"}
    Song <- SilentSong
    NUM_SYNC_TRIALS = 1
    MAX_SYNC_TIMEOUT = 1
    INITIAL_DELAY = 0
    MOST_TRACKS = 1000
    InitialMax <- FirstMax
    MaxRequests = 1
    MaxTimer = 0
    MaxOwed = 2
    MaxStopped = 2
    MaxStops = 2
SPECIFICATION Spec
INVARIANTS NoTrackHeldTwice
SYMMETRY ClientSymmetry
CHECK_DEADLOCK FALSE
