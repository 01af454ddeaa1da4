CONSTANTS
    NUM_SYNC_TRIALS = 3
    MAX_SYNC_TIMEOUT = 10
    NUM_DELAY_SAMPLES = 3
    INITIAL_DELAY = 1000
    Estimators = {"srtt", "sampled"}
    Delays <- SteadyDelays
    Lag = 1
    MaxUnderWay = 4
    MaxDelayChanges = 1
    MaxStops = 0
SPECIFICATION FairSpec
INVARIANTS TypeOK AnsweringClientStaysActive OneSyncUnderWay
PROPERTIES EstimateSettles SampledSettles
