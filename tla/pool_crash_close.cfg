\* A crash between the two writes of close_session, then a full recovery.
SPECIFICATION Spec
CONSTANTS
    t1 = t1  t2 = t2  b1 = b1  b2 = b2  s1 = s1  s2 = s2  s3 = s3
    w1 = w1  w2 = w2  h1 = h1
    None = None
    Topics <- OneTopic
    Bots <- TwoBots
    Sessions <- ThreeSessions
    Workers <- OneWorker
    Hooks <- NoHooks
    MaxCrashes = 1
    Reaping = FALSE
    TurnTimeouts = FALSE
    StoreErrors = FALSE
SYMMETRY Symmetry
PROPERTIES
    RecoveredHoldsBot
\* Once the session ids are used up nothing need happen any more.
CHECK_DEADLOCK FALSE
