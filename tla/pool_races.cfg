\* Two workers, two bots, three sessions, the reaper and a webhook request.
SPECIFICATION Spec
CONSTANTS
    t1 = t1  t2 = t2  b1 = b1  b2 = b2  s1 = s1  s2 = s2  s3 = s3
    w1 = w1  w2 = w2  h1 = h1
    None = None
    Topics <- TwoTopics
    Bots <- TwoBots
    Sessions <- ThreeSessions
    Workers <- TwoWorkers
    Hooks <- OneHook
    MaxCrashes = 0
    Reaping = TRUE
    TurnTimeouts = FALSE
    StoreErrors = FALSE
SYMMETRY Symmetry
INVARIANTS
    TypeOK
    LiveIsBound
    LeasePointsBack
    OneBotPerSession
PROPERTIES
    ImplementsLedger
    ClosedRevivedLate
\* Once the session ids are used up nothing need happen any more.
CHECK_DEADLOCK FALSE
