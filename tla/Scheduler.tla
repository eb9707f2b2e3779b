----------------------------- MODULE Scheduler -----------------------------
(***************************************************************************)
(* Scheduled turns: the tools that create and cancel a schedule, and the   *)
(* poll loop that claims the due rows of `scheduled_jobs` and enqueues a   *)
(* turn for each.  A claim is one transaction (select for update skip      *)
(* locked, then commit); the turns are enqueued after it, one await each.  *)
(* During a redeploy two processes run a loop over the same table.         *)
(***************************************************************************)
EXTENDS Naturals, Sequences, FiniteSets

CONSTANTS
    Jobs,           \* ids of schedules
    Loops,          \* processes with a scheduler loop
    Callers,        \* turns that cancel a schedule
    None,
    Period,         \* cron occurrences are the multiples of Period ...
    LastYear,       \* ... up to this one for the crons in Ending
    Ending,         \* recurring jobs whose cron names its years
    Grace,          \* schedule_misfire_grace_seconds
    MaxDue,         \* schedule_max_due_per_tick
    MaxTime,        \* bound: the clock stops here
    MaxCrashes      \* bound

VARIABLES
    rows,       \* scheduled_jobs
    lock,       \* the claim that has selected the row FOR UPDATE
    loop,       \* each scheduler loop
    cancel,     \* each cancel call
    claims,     \* every occurrence a commit has claimed, in order (history)
    queued,     \* the turns enqueued, in order (history)
    told,       \* schedules a cancel has reported cancelled (history)
    now,
    crashes

vars == <<rows, lock, loop, cancel, claims, queued, told, now, crashes>>
table == <<rows, lock>>
history == <<claims, queued, told>>

Statuses ==
    {"absent", "active", "completed", "missed", "cancelled", "error"}
\* (fault) A row is added with a status nothing looks for.
RowUnseen(st, kind, next) ==
    [status |-> IF st = "active" THEN "pending" ELSE st,
     kind |-> kind, next |-> next]

Row(st, kind, next) == [status |-> st, kind |-> kind, next |-> next]
Rows == [status : Statuses, kind : {"one_shot", "recurring"}, next : Nat]
Claim(j, t, at) == [job |-> j, for |-> t, at |-> at]
Occurrence(c) == <<c.job, c.for>>

\* A tick: the rows it has selected, then the fires it has still to enqueue.
Tick(pc, at, batch, fires, events) ==
    [pc |-> pc, at |-> at, batch |-> batch, fires |-> fires,
     events |-> events]
Asleep == Tick("asleep", 0, {}, {}, FALSE)
NoCall == [pc |-> "idle", job |-> None]

Init ==
    /\ rows = [j \in Jobs |-> Row("absent", "one_shot", 0)]
    /\ lock = [j \in Jobs |-> None]
    /\ loop = [l \in Loops |-> Asleep]
    /\ cancel = [c \in Callers |-> NoCall]
    /\ claims = <<>> /\ queued = <<>> /\ told = {}
    /\ now = 0
    /\ crashes = 0

-----------------------------------------------------------------------------
(* The tools.                                                              *)

\* (fault) The occurrence at or after t.
NextCronInclusive(t) == ((t + Period - 1) \div Period) * Period

\* The next occurrence strictly after t.
NextCron(t) == (t \div Period + 1) * Period

\* croniter raises once the years of the expression are over.
CronRaises(j, t) == j \in Ending /\ NextCron(t) > LastYear

\* schedule_task with run_at, which may be long past, or with delay_seconds.
CreateOneShot(j) ==
    /\ rows[j].status = "absent"
    /\ j \notin Ending
    /\ \E at \in {0, now + 1} :
          rows' = [rows EXCEPT ![j] = Row("active", "one_shot", at)]
    /\ UNCHANGED <<lock, loop, cancel, history, now, crashes>>

\* schedule_task with cron; an expression without a next occurrence raises
\* before the row is added.
CreateRecurring(j) ==
    /\ rows[j].status = "absent"
    /\ ~CronRaises(j, now)
    /\ rows' = [rows EXCEPT ![j] = Row("active", "recurring", NextCron(now))]
    /\ UNCHANGED <<lock, loop, cancel, history, now, crashes>>

\* ScheduleStore.cancel reads the row without a lock ...
CancelRead(c, j) ==
    /\ cancel[c].pc = "idle"
    /\ rows[j].status = "active"
    /\ cancel' = [cancel EXCEPT ![c] = [pc |-> "write", job |-> j]]
    /\ UNCHANGED <<table, loop, history, now, crashes>>

\* (fault) The update does not wait for a claim's row lock.
CancelWriteAtOnce(c) ==
    LET j == cancel[c].job IN
    /\ cancel[c].pc = "write"
    /\ rows' = [rows EXCEPT ![j].status = "cancelled"]
    /\ told' = told \cup {j}
    /\ cancel' = [cancel EXCEPT ![c] = NoCall]
    /\ UNCHANGED <<lock, loop, claims, queued, now, crashes>>

\* ... and updates its status by id, once no claim holds the row's lock.
CancelWrite(c) ==
    LET j == cancel[c].job IN
    /\ cancel[c].pc = "write"
    /\ lock[j] = None
    /\ rows' = [rows EXCEPT ![j].status = "cancelled"]
    /\ told' = told \cup {j}
    /\ cancel' = [cancel EXCEPT ![c] = NoCall]
    /\ UNCHANGED <<lock, loop, claims, queued, now, crashes>>

-----------------------------------------------------------------------------
(* The loop.                                                               *)

Due(t) == {j \in Jobs : rows[j].status = "active" /\ rows[j].next <= t}

Unlocked(t) == {j \in Due(t) : lock[j] = None}

\* What ORDER BY next_run_at LIMIT n can return of a set of rows.
Oldest(S, n) ==
    {B \in SUBSET S :
        /\ Cardinality(B) = IF Cardinality(S) < n THEN Cardinality(S) ELSE n
        /\ \A j \in B, k \in S \ B : rows[j].next <= rows[k].next}

\* A tick that finds nothing changes nothing and is left out.
ClaimSelect(l) ==
    /\ loop[l].pc = "asleep"
    /\ Unlocked(now) # {}
    /\ \E B \in Oldest(Unlocked(now), MaxDue) :
          /\ loop' = [loop EXCEPT ![l] = Tick("claim", now, B, {}, FALSE)]
          /\ lock' = [j \in Jobs |-> IF j \in B THEN l ELSE lock[j]]
    /\ UNCHANGED <<rows, cancel, history, now, crashes>>

WithinGrace(j, at) == at - rows[j].next <= Grace

\* (fault) The handler of a row that raises only logs it.
ClaimedUnquarantined(j, at) ==
    LET r == rows[j] IN
    IF r.kind = "one_shot"
    THEN [r EXCEPT !.status =
             IF WithinGrace(j, at) THEN "completed" ELSE "missed"]
    ELSE IF CronRaises(j, at) THEN r ELSE [r EXCEPT !.next = NextCron(at)]

\* The row as the claim leaves it.  A row that raises is quarantined.
Claimed(j, at) ==
    LET r == rows[j] IN
    IF r.kind = "one_shot"
    THEN [r EXCEPT !.status =
             IF WithinGrace(j, at) THEN "completed" ELSE "missed"]
    ELSE IF CronRaises(j, at)
         THEN [r EXCEPT !.status = "error"]
         ELSE [r EXCEPT !.next = NextCron(at)]

Fires(j, at) ==
    /\ WithinGrace(j, at)
    /\ rows[j].kind = "recurring" => ~CronRaises(j, at)

\* The sequence of a finite set of claims, in some order.
Ordered(S) ==
    CHOOSE s \in [1..Cardinality(S) -> S] : \A c \in S : \E i \in DOMAIN s :
        s[i] = c

ClaimCommit(l) ==
    LET at == loop[l].at
        B == loop[l].batch
        fires == {Claim(j, rows[j].next, at) : j \in {k \in B : Fires(k, at)}}
    IN
    /\ loop[l].pc = "claim"
    /\ rows' = [j \in Jobs |-> IF j \in B THEN Claimed(j, at) ELSE rows[j]]
    /\ lock' = [j \in Jobs |-> IF lock[j] = l THEN None ELSE lock[j]]
    /\ claims' = claims \o Ordered(fires)
    /\ loop' = [loop EXCEPT ![l] =
          Tick("fire", 0, {}, {Occurrence(c) : c \in fires},
               \E j \in B : rows'[j].status \in {"missed", "error"})]
    /\ UNCHANGED <<cancel, queued, told, now, crashes>>

\* schedule_missed and schedule_errored are written after the commit; the
\* first that fails ends the tick, and with it the fires of the batch.
EmitOutcomes(l) ==
    /\ loop[l].pc = "fire"
    /\ loop[l].events
    /\ loop' \in {[loop EXCEPT ![l].events = FALSE],
                  [loop EXCEPT ![l] = Asleep]}
    /\ UNCHANGED <<table, cancel, history, now, crashes>>

\* (fault) A fire is kept until its turn is done.
EnqueueKept(l, f) ==
    /\ loop[l].pc = "fire"
    /\ ~loop[l].events
    /\ f \in loop[l].fires
    /\ \/ queued' = Append(queued, f) /\ UNCHANGED loop
       \/ /\ loop' = [loop EXCEPT ![l].fires = @ \ {f}]
          /\ UNCHANGED queued
    /\ UNCHANGED <<table, cancel, claims, told, now, crashes>>

\* enqueue_turn of one fire: it becomes a turn, or fails and is skipped.
Enqueue(l, f) ==
    /\ loop[l].pc = "fire"
    /\ ~loop[l].events
    /\ f \in loop[l].fires
    /\ loop' = [loop EXCEPT ![l].fires = @ \ {f}]
    /\ queued' \in {queued, Append(queued, f)}
    /\ UNCHANGED <<table, cancel, claims, told, now, crashes>>

TickEnds(l) ==
    /\ loop[l].pc = "fire"
    /\ ~loop[l].events
    /\ loop[l].fires = {}
    /\ loop' = [loop EXCEPT ![l] = Asleep]
    /\ UNCHANGED <<table, cancel, history, now, crashes>>

\* A process ends: an open transaction rolls back, claimed fires are lost.
Crash(l) ==
    /\ crashes < MaxCrashes
    /\ loop[l].pc # "asleep"
    /\ crashes' = crashes + 1
    /\ lock' = [j \in Jobs |-> IF lock[j] = l THEN None ELSE lock[j]]
    /\ loop' = [loop EXCEPT ![l] = Asleep]
    /\ UNCHANGED <<rows, cancel, history, now>>

Clock ==
    /\ now < MaxTime
    /\ now' = now + 1
    /\ UNCHANGED <<table, loop, cancel, history, crashes>>

LoopStep(l) ==
    \/ ClaimSelect(l)
    \/ ClaimCommit(l)
    \/ EmitOutcomes(l)
    \/ \E f \in loop[l].fires : Enqueue(l, f)
    \/ TickEnds(l)

Next ==
    \/ \E j \in Jobs : CreateOneShot(j) \/ CreateRecurring(j)
    \/ \E c \in Callers, j \in Jobs : CancelRead(c, j)
    \/ \E c \in Callers : CancelWrite(c)
    \/ \E l \in Loops : LoopStep(l) \/ Crash(l)
    \/ Clock

Spec == Init /\ [][Next]_vars

\* run_forever outlives any tick that fails; a cancel's update waits only for
\* a lock that is given up.  Time need not pass for a due row to be claimed.
Fairness ==
    /\ \A l \in Loops : WF_vars(LoopStep(l))
    /\ \A c \in Callers : WF_vars(CancelWrite(c))

FairSpec == Spec /\ Fairness

-----------------------------------------------------------------------------
(* Properties.                                                             *)

\* Rows, ticks and cancel calls are ones the code can make.
TypeOK ==
    /\ rows \in [Jobs -> Rows]
    /\ lock \in [Jobs -> Loops \cup {None}]
    /\ \A l \in Loops :
          /\ loop[l].pc \in {"asleep", "claim", "fire"}
          /\ loop[l].batch \subseteq Jobs
          /\ loop[l].events \in BOOLEAN
    /\ cancel \in [Callers -> [pc : {"idle", "write"}, job : Jobs \cup {None}]]
    /\ told \subseteq Jobs
    /\ now \in 0..MaxTime
    /\ crashes \in 0..MaxCrashes

\* A backlog fires once, and no occurrence fires twice: what fires after a
\* claim fell due after it, whichever process's loop claims it.
BacklogCoalesces ==
    \A i, k \in DOMAIN claims :
        i < k /\ claims[i].job = claims[k].job =>
            claims[i].at < claims[k].for

\* Once a cancel has said so, nothing of the schedule is claimed any more,
\* even if the row was being claimed when it was called.
CancelHolds ==
    [][\A i \in DOMAIN claims' \ DOMAIN claims :
           claims'[i].job \notin told]_vars

Ledger == INSTANCE OccurrenceLedger WITH
    Times <- Nat,
    spent <- {Occurrence(claims[i]) : i \in DOMAIN claims},
    open <- UNION {loop[l].fires : l \in Loops},
    turns <- queued

\* Each occurrence is claimed once, by one process, and becomes one turn at
\* most; what a crash, a failed event or a failed enqueue drops stays dropped.
ImplementsLedger == Ledger!Spec

\* A due row does not stay due: no bad row, no full batch and no process that
\* ends while it holds the row's lock keeps it from being claimed.
DueIsClaimed ==
    \A j \in Jobs : j \in Due(now) ~> j \notin Due(now)

=============================================================================
