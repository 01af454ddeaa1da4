CONSTANTS
    c1 = c1
    c2 = c2
    Client <- TwoClients
    Track <- TwoTracks
    Delays = {0, 20}
    Lag = 1
    EVENT_COUNTS = 3
    MaxWaiting = 2
    MaxAnswers = 1
    Begins = {0, 12}
    MaxUpsets = 1
    MaxTimer = 35
SPECIFICATION Spec
INVARIANTS TypeOK Together SpacingKept HeardInOrder OnTime MessagesFit
CHECK_DEADLOCK FALSE
