\* A turn's tools, the Codex process, host commands, memories, events, the
\* Google token and generated images.
SPECIFICATION FairSpec
CONSTANTS
    t1 = t1  t2 = t2  t3 = t3  k1 = k1  k2 = k2
    None = None
    Tools = {"search", "spin_up", "exec_run"}
    Ghosts = {"gone"}
    Management = {"spin_up"}
    Exec = {"exec_run"}
    Profile = {"search"}
    MaxToolCalls = 2
    MaxBatch = 2
    Turns = {t1, t2, t3}
    Spaces = {"w1", "w2"}
    SpaceOf <- Workspace
    Skills = {k1, k2}
    Wanted <- SkillsOf
    Calls = {"c1", "c2"}
    Members = {"w", "r"}
    Workers = {"l1"}
    Topics = {"p", "q"}
    ChannelOf <- Place
    Homes = {"x y", "x.y"}
    Slug <- Charset
    Librarians = {"w"}
    Limit = 1
    Fetch = 2
    MaxMemories = 3
    Appenders = {"e1", "e2", "e3"}
    KeyOf <- Keyed
    MaxEvents = 2
    Senders = {"t", "b1"}
    Turn = "t"
    QueueSize = 1
    MaxSent = 4
    \* A unit of time is 20 s.
    Reqs = {"g1", "g2"}
    Life = 4
    Skew = 3
    Delay = 1
    Transit = 2
    MaxTime = 5
    MaxRevoked = 2
    MaxTokens = 3
INVARIANTS
    TypeOK
    AccessAgrees
    WorkspaceHolds
    MemoryHolds
    OutsideHolds
    FanOutComplete
PROPERTIES
    NothingAfterTurn
    TurnsEnd
\* Each of them may stop: nobody has to ask for anything, and bounds run out.
CHECK_DEADLOCK FALSE
