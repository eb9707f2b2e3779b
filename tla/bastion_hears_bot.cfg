\* A pool bot mentions the bastion; nothing fails.
SPECIFICATION Spec
CONSTANTS
    m1 = m1  m2 = m2
    claw = claw  bastion = bastion  pool1 = pool1
    r1 = r1  r2 = r2  w1 = w1  w2 = w2
    None = None
    Messages <- TwoMessages
    Agents <- TwoAgents
    PoolBots <- OnePoolBot
    Bastions <- OneBastion
    Flagged <- OneFlagged
    Deletable <- NoBots
    Mentions <- ToBastion
    Sender <- PoolBotWrites
    Lonely <- NoMessages
    Requests <- OneRequest
    Workers <- OneWorker
    MaxPosts = 2
    MaxCrashes = 0
    Faults = {}
INVARIANTS
    HumansOnly
CHECK_DEADLOCK FALSE
