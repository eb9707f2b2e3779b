\* Every call may fail, the process may crash, and an administrator interferes.
SPECIFICATION FairSpec
CONSTANTS
    m1 = m1  m2 = m2
    claw = claw  bastion = bastion  pool1 = pool1
    r1 = r1  r2 = r2  w1 = w1  w2 = w2
    None = None
    Messages <- TwoMessages
    Agents <- TwoAgents
    PoolBots <- OnePoolBot
    Bastions <- OneBastion
    Flagged <- OneFlagged
    Deletable <- OneFlagged
    Mentions <- TwoEach
    Sender <- ClawWrites
    Lonely <- NoMessages
    Requests <- TwoRequests
    Workers <- TwoWorkers
    MaxPosts = 3
    MaxCrashes = 1
    Faults = {"accept", "post", "edit", "store", "registry", "close"}
INVARIANTS
    TypeOK
PROPERTIES
    ImplementsLedger
    LostOnlyByFault
    AcceptedSettles
\* Every worker may die and every delivery be used up.
CHECK_DEADLOCK FALSE
