CONSTANTS
    c1 = c1
    c2 = c2
    c3 = c3
    Client <- Clients2
    NULL = NULL
    Name = {"short", "solo"}
    Song <- TwoSongs
    NUM_SYNC_TRIALS = 2
    MAX_SYNC_TIMEOUT = 1
    INITIAL_DELAY = 0
    MOST_TRACKS = 1000
    InitialMax <- FirstMax
    MaxRequests = 2
    MaxTimer = 1
    MaxOwed = 1
    MaxStopped = 1
    MaxStops = 1
SPECIFICATION FairSpec
PROPERTIES SongEnds
CHECK_DEADLOCK FALSE
