\* The immediate and the delayed reconnect both fail.
SPECIFICATION Spec
CONSTANTS
    j1 = j1  j2 = j2  l1 = l1  l2 = l2  c1 = c1  c2 = c2  r1 = r1  r2 = r2
    i1 = i1  i2 = i2  a1 = a1  a2 = a2  s1 = s1  s2 = s2
    None = None
    Jobs = {j1, j2}
    Loops = {l1, l2}
    Cancellers = {c1}
    Period = 2
    LastYear = 2
    Ending = {j2}
    Grace = 1
    MaxDue = 1
    MaxTime = 4
    Reqs = {r1, r2}
    Ids = {i1, i2}
    Faults = {"event", "agent", "post", "enqueue"}
    MaxCrashes = 1
    Callers = {c1, c2}
    MaxSteps = 2
    MaxToolCalls = 2
    MaxTasks = 2
    MaxSteer = 1
    HasUrl = TRUE
    Names = {"claw", "claw2"}
    Bastions = {"boss", "chief"}
    Queries = {"cl", "claw", "boss"}
    Within <- Contained
    MaxBots = 2
    MaxRows = 2
    MaxCalls = 3
    Accounts = {a1, a2}
    Streams = {s1}
    Throwing = {}
    Capacity = 2
    Lasts = {0, 1}
    MaxMessages = 3
    MaxCloses = 2
    All = All
INVARIANTS
    AutoReconnects
\* Nobody has to ask for anything, and the bounds run out.
CHECK_DEADLOCK FALSE
