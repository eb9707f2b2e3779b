\* Two workers spin up in the same topic.
SPECIFICATION Spec
CONSTANTS
    t1 = t1  t2 = t2  b1 = b1  b2 = b2  s1 = s1  s2 = s2  s3 = s3
    w1 = w1  w2 = w2  h1 = h1
    None = None
    Topics <- OneTopic
    Bots <- TwoBots
    Sessions <- ThreeSessions
    Workers <- TwoWorkers
    Hooks <- NoHooks
    MaxCrashes = 0
    Reaping = FALSE
    TurnTimeouts = FALSE
    StoreErrors = FALSE
SYMMETRY Symmetry
INVARIANTS
    OneOpenPerTopic
\* Once the session ids are used up nothing need happen any more.
CHECK_DEADLOCK FALSE
