CONSTANTS
    c1 = c1
    c2 = c2
    c3 = c3
    Client <- Clients2
    NULL = NULL
    Name = {"short"}
    Song <- ShortSong
    NUM_SYNC_TRIALS = 3
    MAX_SYNC_TIMEOUT = 1
    INITIAL_DELAY = 0
    MOST_TRACKS = 1000
    InitialMax <- FirstMax
    MaxRequests = 1
    MaxTimer = 2
    MaxOwed = 2
    MaxStopped = 1
    MaxStops = 1
SPECIFICATION FairSpec
PROPERTIES SongResumes
CHECK_DEADLOCK FALSE
