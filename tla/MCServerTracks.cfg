CONSTANTS
    c1 = c1
    c2 = c2
    c3 = c3
    Client <- Clients2
    NULL = NULL
    Name = {"long"}
    Song <- SilentSong
    NUM_SYNC_TRIALS = 2
    MAX_SYNC_TIMEOUT = 1
    INITIAL_DELAY = 0
    MOST_TRACKS = 2
    InitialMax <- FirstMax
    MaxRequests = 1
    MaxTimer = 0
    MaxOwed = 2
    MaxStopped = 2
    MaxStops = 2
SPECIFICATION FairSpec
INVARIANTS TypeOK OneSessionAtATime SyncPointers OwnTracksKept NoTrackHeldTwice
PROPERTIES CoverageKept EveryClientIsSynced SilentIsGivenUp ReturningIsCountedOn
CHECK_DEADLOCK FALSE
