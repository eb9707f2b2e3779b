\* Births and recoveries under crashes, timeouts and database errors, with
\* fairness.
SPECIFICATION FairSpec
CONSTANTS
    t1 = t1  t2 = t2  b1 = b1  b2 = b2  s1 = s1  s2 = s2  s3 = s3
    w1 = w1  w2 = w2  h1 = h1
    None = None
    Topics <- TwoTopics
    Bots <- OneBot
    Sessions <- TwoSessions
    Workers <- TwoWorkers
    Hooks <- OneHook
    MaxCrashes = 2
    Reaping = TRUE
    TurnTimeouts = TRUE
    StoreErrors = TRUE
PROPERTIES
    BirthsAreAttended
    BirthResolves
    RecoveryRestores
\* Once the session ids are used up nothing need happen any more.
CHECK_DEADLOCK FALSE
