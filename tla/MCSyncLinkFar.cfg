CONSTANTS
    NUM_SYNC_TRIALS = 3
    MAX_SYNC_TIMEOUT = 10
    NUM_DELAY_SAMPLES = 3
    INITIAL_DELAY = 12
    Estimators = {"srtt"}
    Delays <- FarDelays
    Lag = 1
    MaxUnderWay = 4
    MaxDelayChanges = 1
    MaxStops = 1
SPECIFICATION FairSpec
INVARIANTS SampleBounded
PROPERTIES LowEstimateSticks
