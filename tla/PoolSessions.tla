---------------------------- MODULE PoolSessions ----------------------------
(***************************************************************************)
(* The warm pool of Zulip bots and the per-topic sessions that lease them: *)
(* PoolStore, SessionStore, the bastion's spin_up_session / close_session, *)
(* capacity reclaim, the idle reaper, the webhook's pool resolver and the  *)
(* startup recovery.  Every database transaction is a step of its own, so  *)
(* the turns of several workers, the reaper, the webhook handlers and a    *)
(* crash interleave wherever the code awaits.                              *)
(***************************************************************************)
EXTENDS Naturals, FiniteSets

CONSTANTS
    Topics,         \* (channel, topic) pairs
    Bots,           \* pool bot rows, seeded or still to be seeded
    Sessions,       \* the session ids uuid4 may hand out
    Workers,        \* job workers, each running one bastion turn at a time
    Hooks,          \* webhook requests in flight
    None,           \* Python's None / SQL NULL
    MaxCrashes,     \* bound on process crashes
    Reaping,        \* do live sessions ever idle past session_idle_seconds?
    TurnTimeouts,   \* may a turn be cancelled (asyncio.timeout) part-way?
    StoreErrors     \* may the database raise where no handler undoes the turn?

ASSUME DistinctNone == None \notin Topics \cup Bots \cup Sessions \cup Workers
ASSUME CrashBound == MaxCrashes \in Nat
ASSUME Switches == /\ Reaping \in BOOLEAN
                   /\ TurnTimeouts \in BOOLEAN
                   /\ StoreErrors \in BOOLEAN

VARIABLES
    pool,       \* seeded bots
    owner,      \* PoolBotRow.current_session_id; None iff status = "free"
    lock,       \* the worker whose lease transaction holds the row's lock
    state,      \* SessionRow.state, "absent" before the INSERT
    topic,      \* SessionRow.channel and .topic
    botOf,      \* SessionRow.pool_bot_id
    wk,         \* each worker: where its tool call is and what it holds
    hook,       \* each webhook request, likewise
    idle,       \* sessions the reaper's current tick still has to mark
    boot,       \* "up", or the phase the startup recovery is in
    todo,       \* rows the startup recovery still has to look at
    crashes     \* crashes so far

rows == <<pool, owner, lock, state, topic, botOf>>
procs == <<wk, hook, idle>>
system == <<boot, todo, crashes>>
vars == <<rows, procs, system>>

SessionStates == {"absent", "provisioning", "live", "dormant", "closed"}
WorkerPcs == {"idle", "create", "lease", "commit", "reclaim", "vclose",
              "vrelease", "bind", "mark_live", "release", "close"}

Jobs == [pc : WorkerPcs, topic : Topics \cup {None},
         sid : Sessions \cup {None}, victim : Sessions \cup {None},
         bot : Bots \cup {None}, retry : BOOLEAN]
Requests == [pc : {"idle", "reopen", "turn"}, sid : Sessions \cup {None},
             bot : Bots \cup {None}]

\* The pcs of a spin-up that may still lease a bot for its session.
Unleased == {"lease", "commit", "reclaim", "vclose", "vrelease"}

\* The pcs of a spin-up that has a session and may still bind or revive it.
InBirth == Unleased \cup {"bind", "mark_live"}

Parked == [pc |-> "idle", topic |-> None, sid |-> None, victim |-> None,
           bot |-> None, retry |-> FALSE]
NoRequest == [pc |-> "idle", sid |-> None, bot |-> None]

Init ==
    /\ pool = {}
    /\ owner = [b \in Bots |-> None]
    /\ lock = [b \in Bots |-> None]
    /\ state = [s \in Sessions |-> "absent"]
    /\ topic = [s \in Sessions |-> None]
    /\ botOf = [s \in Sessions |-> None]
    /\ wk = [w \in Workers |-> Parked]
    /\ hook = [h \in Hooks |-> NoRequest]
    /\ idle = {}
    /\ boot = "up"
    /\ todo = {}
    /\ crashes = 0

Up == boot = "up"

\* The bound Sessions stands for: an id is left for every INSERT under way.
IdsLeft == Cardinality({s \in Sessions : state[s] = "absent"})
             > Cardinality({w \in Workers : wk[w].pc = "create"})

\* The rows SessionStore.resolve_for_topic selects; scalar_one_or_none gives
\* None for no row, the row for one, and raises for more.
Open(t) ==
    {s \in Sessions : topic[s] = t /\ state[s] \notin {"absent", "closed"}}

InState(st) == {s \in Sessions : state[s] = st}
Leased == {b \in Bots : owner[b] # None}
Free == {b \in pool : owner[b] = None}

\* (fault) A misspelt state string.
SetStateMisspelt(s, st) ==
    state' = [state EXCEPT ![s] = IF st = "live" THEN "active" ELSE st]

SetState(s, st) == state' = [state EXCEPT ![s] = st]
Disown(b) == owner' = [owner EXCEPT ![b] = None]
Goto(w, pc) == wk' = [wk EXCEPT ![w].pc = pc]

-----------------------------------------------------------------------------
(* The pool route: POST /pool/bots.                                        *)

SeedBot(b) ==
    /\ Up
    /\ b \notin pool
    /\ pool' = pool \cup {b}
    /\ UNCHANGED <<owner, lock, state, topic, botOf, procs, system>>

-----------------------------------------------------------------------------
(* spin_up_session, one transaction per step.                              *)

\* The topic must look free; the session row is written only later.
SpinUpCheck(w, t) ==
    /\ Up
    /\ wk[w].pc = "idle"
    /\ IdsLeft
    /\ Open(t) = {}
    /\ wk' = [wk EXCEPT ![w] = [Parked EXCEPT !.pc = "create", !.topic = t]]
    /\ UNCHANGED <<rows, hook, idle, system>>

\* (fault) The row is bound to a free bot before one is leased.
CreateSessionBound(w, s) ==
    /\ wk[w].pc = "create"
    /\ state[s] = "absent"
    /\ SetState(s, "provisioning")
    /\ topic' = [topic EXCEPT ![s] = wk[w].topic]
    /\ \E b \in Free : botOf' = [botOf EXCEPT ![s] = b]
    /\ wk' = [wk EXCEPT ![w] = [Parked EXCEPT !.pc = "lease", !.sid = s]]
    /\ UNCHANGED <<pool, owner, lock, hook, idle, system>>

CreateSession(w, s) ==
    /\ wk[w].pc = "create"
    /\ state[s] = "absent"
    /\ SetState(s, "provisioning")
    /\ topic' = [topic EXCEPT ![s] = wk[w].topic]
    /\ wk' = [wk EXCEPT ![w] = [Parked EXCEPT !.pc = "lease", !.sid = s]]
    /\ UNCHANGED <<pool, owner, lock, botOf, hook, idle, system>>

\* (fault) FOR UPDATE is missing: another worker's choice is no obstacle.
LeaseSelectUnlocked(w, b) ==
    /\ wk[w].pc = "lease"
    /\ b \in Free
    /\ lock' = [lock EXCEPT ![b] = w]
    /\ wk' = [wk EXCEPT ![w].pc = "commit", ![w].bot = b]
    /\ UNCHANGED <<pool, owner, state, topic, botOf, hook, idle, system>>

\* SELECT ... WHERE status = 'free' LIMIT 1 FOR UPDATE SKIP LOCKED.
LeaseSelect(w, b) ==
    /\ wk[w].pc = "lease"
    /\ b \in Free
    /\ lock[b] = None
    /\ lock' = [lock EXCEPT ![b] = w]
    /\ wk' = [wk EXCEPT ![w].pc = "commit", ![w].bot = b]
    /\ UNCHANGED <<pool, owner, state, topic, botOf, hook, idle, system>>

\* Nothing free and unlocked: reclaim the first time, give up the second.
LeaseNone(w) ==
    /\ wk[w].pc = "lease"
    /\ \A b \in Free : lock[b] # None
    /\ Goto(w, IF wk[w].retry THEN "close" ELSE "reclaim")
    /\ UNCHANGED <<rows, hook, idle, system>>

\* (fault) The attempt is repeated though it has succeeded.
LeaseCommitRetry(w) ==
    LET b == wk[w].bot IN
    /\ wk[w].pc = "commit"
    /\ owner' = [owner EXCEPT ![b] = wk[w].sid]
    /\ lock' = [lock EXCEPT ![b] = None]
    /\ wk' = [wk EXCEPT ![w].pc = IF wk[w].retry THEN "bind" ELSE "lease",
                        ![w].retry = TRUE]
    /\ UNCHANGED <<pool, state, topic, botOf, hook, idle, system>>

LeaseCommit(w) ==
    LET b == wk[w].bot IN
    /\ wk[w].pc = "commit"
    /\ owner' = [owner EXCEPT ![b] = wk[w].sid]
    /\ lock' = [lock EXCEPT ![b] = None]
    /\ Goto(w, "bind")
    /\ UNCHANGED <<pool, state, topic, botOf, hook, idle, system>>

\* reclaim_for_capacity reads its victim here and acts on it two steps on.
\* Which dormant session is the oldest is left open.
ReclaimPick(w, v) ==
    /\ wk[w].pc = "reclaim"
    /\ state[v] = "dormant"
    /\ wk' = [wk EXCEPT ![w].pc = "vclose", ![w].victim = v,
                        ![w].bot = botOf[v]]
    /\ UNCHANGED <<rows, hook, idle, system>>

\* (fault) With nothing to reclaim, the spin-up tries the pool again.
ReclaimNoneRetry(w) ==
    /\ wk[w].pc = "reclaim"
    /\ InState("dormant") = {}
    /\ Goto(w, "lease")
    /\ UNCHANGED <<rows, hook, idle, system>>

ReclaimNone(w) ==
    /\ wk[w].pc = "reclaim"
    /\ InState("dormant") = {}
    /\ Goto(w, "close")
    /\ UNCHANGED <<rows, hook, idle, system>>

ReclaimClose(w) ==
    /\ wk[w].pc = "vclose"
    /\ SetState(wk[w].victim, "closed")
    /\ wk' = [wk EXCEPT ![w].victim = None,
                ![w].pc = IF wk[w].bot = None THEN "close" ELSE "vrelease"]
    /\ UNCHANGED <<pool, owner, lock, topic, botOf, hook, idle, system>>

ReclaimRelease(w) ==
    /\ wk[w].pc = "vrelease"
    /\ Disown(wk[w].bot)
    /\ wk' = [wk EXCEPT ![w].pc = "lease", ![w].bot = None, ![w].retry = TRUE]
    /\ UNCHANGED <<pool, lock, state, topic, botOf, hook, idle, system>>

\* bind_pool_bot, then the calls to Zulip, which write no row.
BindBot(w) ==
    /\ wk[w].pc = "bind"
    /\ botOf' = [botOf EXCEPT ![wk[w].sid] = wk[w].bot]
    /\ Goto(w, "mark_live")
    /\ UNCHANGED <<pool, owner, lock, state, topic, hook, idle, system>>

MarkLive(w) ==
    /\ wk[w].pc = "mark_live"
    /\ SetState(wk[w].sid, "live")
    /\ wk' = [wk EXCEPT ![w] = Parked]
    /\ UNCHANGED <<pool, owner, lock, topic, botOf, hook, idle, system>>

\* Any exception from the bind on: release the bot, then close the session.
BirthFails(w) ==
    /\ wk[w].pc \in {"bind", "mark_live"}
    /\ Goto(w, "release")
    /\ UNCHANGED <<rows, hook, idle, system>>

-----------------------------------------------------------------------------
(* close_session, and the tail it shares with a failed spin-up.            *)

CloseResolve(w, s) ==
    /\ Up
    /\ wk[w].pc = "idle"
    /\ Open(topic[s]) = {s}
    /\ wk' = [wk EXCEPT ![w] = [Parked EXCEPT
                  !.pc = IF botOf[s] = None THEN "close" ELSE "release",
                  !.sid = s, !.bot = botOf[s]]]
    /\ UNCHANGED <<rows, hook, idle, system>>

\* (fault) The rollback ends with the release.
ReleaseBotOnly(w) ==
    /\ wk[w].pc = "release"
    /\ Disown(wk[w].bot)
    /\ wk' = [wk EXCEPT ![w] = Parked]
    /\ UNCHANGED <<pool, lock, state, topic, botOf, hook, idle, system>>

\* PoolStore.release asks nobody whose the bot is by now.
ReleaseBot(w) ==
    /\ wk[w].pc = "release"
    /\ Disown(wk[w].bot)
    /\ Goto(w, "close")
    /\ UNCHANGED <<pool, lock, state, topic, botOf, hook, idle, system>>

CloseSession(w) ==
    /\ wk[w].pc = "close"
    /\ SetState(wk[w].sid, "closed")
    /\ wk' = [wk EXCEPT ![w] = Parked]
    /\ UNCHANGED <<pool, owner, lock, topic, botOf, hook, idle, system>>

\* The tool call ends where it is: an open transaction is rolled back and
\* nothing else undone.
CutOff(w) ==
    /\ wk' = [wk EXCEPT ![w] = Parked]
    /\ lock' = [b \in Bots |-> IF lock[b] = w THEN None ELSE lock[b]]
    /\ UNCHANGED <<pool, owner, state, topic, botOf, hook, idle, system>>

\* asyncio.timeout cancels the turn at an await.  CancelledError is no
\* Exception, so no handler of the tool runs.
TurnTimeout(w) ==
    /\ TurnTimeouts
    /\ wk[w].pc # "idle"
    /\ CutOff(w)

\* The database raises outside the try of spin_up_session (its INSERT, its
\* leases, the reclaim, the close for want of a bot), in the rollback itself
\* or in close_session: the tool runtime makes it an error result.
StoreRaises(w) ==
    /\ StoreErrors
    /\ wk[w].pc \notin {"idle", "bind", "mark_live"}
    /\ CutOff(w)

BreaksOff(w) == TurnTimeout(w) \/ StoreRaises(w)

-----------------------------------------------------------------------------
(* resolve_pool_bot_for_webhook: a mention of bot b in topic t.            *)

\* (fault) Whatever is not live is reopened.
HookResolveReopenAll(h, b, t) ==
    /\ Up
    /\ hook[h].pc = "idle"
    /\ b \in pool
    /\ \E s \in Sessions :
         /\ Open(t) = {s}
         /\ hook' = [hook EXCEPT ![h] =
                      [pc |-> IF state[s] # "live" THEN "reopen" ELSE "turn",
                       sid |-> s, bot |-> b]]
    /\ UNCHANGED <<rows, wk, idle, system>>

\* (fault) A mention revives the topic's closed session.
HookResolveClosed(h, b, t) ==
    /\ Up
    /\ hook[h].pc = "idle"
    /\ b \in pool
    /\ \E s \in Sessions :
         /\ topic[s] = t
         /\ hook' = [hook EXCEPT ![h] =
                      [pc |-> IF state[s] \in {"dormant", "closed"}
                              THEN "reopen" ELSE "turn",
                       sid |-> s, bot |-> b]]
    /\ UNCHANGED <<rows, wk, idle, system>>

HookResolve(h, b, t) ==
    /\ Up
    /\ hook[h].pc = "idle"
    /\ b \in pool
    /\ \E s \in Sessions :
         /\ Open(t) = {s}
         /\ hook' = [hook EXCEPT ![h] =
                      [pc |-> IF state[s] = "dormant"
                              THEN "reopen" ELSE "turn",
                       sid |-> s, bot |-> b]]
    /\ UNCHANGED <<rows, wk, idle, system>>

HookReopen(h) ==
    /\ hook[h].pc = "reopen"
    /\ SetState(hook[h].sid, "live")
    /\ hook' = [hook EXCEPT ![h].pc = "turn"]
    /\ UNCHANGED <<pool, owner, lock, topic, botOf, wk, idle, system>>

\* The PoolBotTurnResult leaves the resolver.
HookReturn(h) ==
    /\ hook[h].pc = "turn"
    /\ hook' = [hook EXCEPT ![h] = NoRequest]
    /\ UNCHANGED <<rows, wk, idle, system>>

-----------------------------------------------------------------------------
(* SessionReaperLoop.tick.                                                 *)

\* find_idle: any live sessions may have been idle for long enough.
ReaperScan(S) ==
    /\ Up
    /\ Reaping
    /\ idle = {}
    /\ S \subseteq InState("live")
    /\ S # {}
    /\ idle' = S
    /\ UNCHANGED <<rows, wk, hook, system>>

ReaperMark(s) ==
    /\ s \in idle
    /\ SetState(s, "dormant")
    /\ idle' = idle \ {s}
    /\ UNCHANGED <<pool, owner, lock, topic, botOf, wk, hook, system>>

\* One bad session must not skip the rest.
ReaperSkip(s) ==
    /\ StoreErrors
    /\ s \in idle
    /\ idle' = idle \ {s}
    /\ UNCHANGED <<rows, wk, hook, system>>

-----------------------------------------------------------------------------
(* A crash, and recover_pool_consistency before anything else starts.      *)

Crash ==
    /\ crashes < MaxCrashes
    /\ crashes' = crashes + 1
    /\ wk' = [w \in Workers |-> Parked]
    /\ hook' = [h \in Hooks |-> NoRequest]
    /\ idle' = {}
    /\ lock' = [b \in Bots |-> None]
    /\ boot' = "down"
    /\ todo' = {}
    /\ UNCHANGED <<pool, owner, state, topic, botOf>>

RecoverListBirths ==
    /\ boot = "down"
    /\ boot' = "births"
    /\ todo' = InState("provisioning")
    /\ UNCHANGED <<rows, procs, crashes>>

\* release_for_session: every bot whose current_session_id is s.
RecoverRelease(s) ==
    /\ boot = "births"
    /\ s \in todo
    /\ \E b \in Bots : owner[b] = s
    /\ owner' = [b \in Bots |-> IF owner[b] = s THEN None ELSE owner[b]]
    /\ UNCHANGED <<pool, lock, state, topic, botOf, procs, system>>

RecoverClose(s) ==
    /\ boot = "births"
    /\ s \in todo
    /\ \A b \in Bots : owner[b] # s
    /\ SetState(s, "closed")
    /\ todo' = todo \ {s}
    /\ UNCHANGED <<pool, owner, lock, topic, botOf, procs, boot, crashes>>

RecoverListLeases ==
    /\ boot = "births"
    /\ todo = {}
    /\ boot' = "leases"
    /\ todo' = Leased
    /\ UNCHANGED <<rows, procs, crashes>>

\* (fault) A closed session still keeps its lease.
OrphanOpenOnly(b) ==
    LET s == owner[b] IN
    \/ s = None
    \/ state[s] = "absent"
    \/ botOf[s] # b

\* A lease is an orphan's unless an open session points back at the bot.
Orphan(b) ==
    LET s == owner[b] IN
    \/ s = None
    \/ state[s] \in {"absent", "closed"}
    \/ botOf[s] # b

RecoverLease(b) ==
    /\ boot = "leases"
    /\ b \in todo
    /\ owner' = IF Orphan(b) THEN [owner EXCEPT ![b] = None] ELSE owner
    /\ todo' = todo \ {b}
    /\ UNCHANGED <<pool, lock, state, topic, botOf, procs, boot, crashes>>

RecoverDone ==
    /\ boot = "leases"
    /\ todo = {}
    /\ boot' = "up"
    /\ UNCHANGED <<rows, procs, todo, crashes>>

\* The lifespan logs a failed recovery and starts without it.
RecoverFails ==
    /\ StoreErrors
    /\ ~Up
    /\ boot' = "up"
    /\ todo' = {}
    /\ UNCHANGED <<rows, procs, crashes>>

-----------------------------------------------------------------------------

\* What a worker does next once its tool call has begun.
WorkerStep(w) ==
    \/ \E s \in Sessions : CreateSession(w, s)
    \/ \E b \in Bots : LeaseSelect(w, b)
    \/ LeaseNone(w)
    \/ LeaseCommit(w)
    \/ \E v \in Sessions : ReclaimPick(w, v)
    \/ ReclaimNone(w)
    \/ ReclaimClose(w)
    \/ ReclaimRelease(w)
    \/ BindBot(w)
    \/ MarkLive(w)
    \/ ReleaseBot(w)
    \/ CloseSession(w)

\* Tool calls begin, and break off.
WorkerTurn(w) ==
    \/ \E t \in Topics : SpinUpCheck(w, t)
    \/ \E s \in Sessions : CloseResolve(w, s)
    \/ BirthFails(w)
    \/ BreaksOff(w)

HookStep(h) ==
    \/ HookReopen(h)
    \/ HookReturn(h)

RecoverStep ==
    \/ RecoverListBirths
    \/ \E s \in Sessions : RecoverRelease(s) \/ RecoverClose(s)
    \/ RecoverListLeases
    \/ \E b \in Bots : RecoverLease(b)
    \/ RecoverDone

Next ==
    \/ \E b \in Bots : SeedBot(b)
    \/ \E w \in Workers : WorkerStep(w) \/ WorkerTurn(w)
    \/ \E h \in Hooks : HookStep(h)
    \/ \E h \in Hooks, b \in Bots, t \in Topics : HookResolve(h, b, t)
    \/ \E S \in SUBSET Sessions : ReaperScan(S)
    \/ \E s \in Sessions : ReaperMark(s) \/ ReaperSkip(s)
    \/ RecoverStep
    \/ RecoverFails
    \/ Crash

Spec == Init /\ [][Next]_vars

\* Tasks the event loop has started are driven to their next await; nothing
\* obliges a user to speak, a call to fail or the process to die.
Fairness ==
    /\ \A w \in Workers : WF_vars(WorkerStep(w))
    /\ \A h \in Hooks : WF_vars(HookStep(h))
    /\ \A s \in Sessions : WF_vars(ReaperMark(s))
    /\ WF_vars(RecoverStep)

FairSpec == Spec /\ Fairness

-----------------------------------------------------------------------------
(* Properties.                                                             *)

\* Every row, task and request is in a state the code can put it in.
TypeOK ==
    /\ pool \subseteq Bots
    /\ owner \in [Bots -> Sessions \cup {None}]
    /\ lock \in [Bots -> Workers \cup {None}]
    /\ state \in [Sessions -> SessionStates]
    /\ topic \in [Sessions -> Topics \cup {None}]
    /\ botOf \in [Sessions -> Bots \cup {None}]
    /\ wk \in [Workers -> Jobs]
    /\ hook \in [Hooks -> Requests]
    /\ idle \subseteq Sessions
    /\ boot \in {"up", "down", "births", "leases"}
    /\ todo \subseteq Sessions \cup Bots
    /\ crashes \in 0..MaxCrashes

\* A session that was ever live has a bot bound: neither a reopen, a reaper's
\* late mark nor a resurrected row can make a live session nobody speaks for,
\* so reclaim always finds a bot to release at its victim.
LiveIsBound ==
    \A s \in Sessions : state[s] \in {"live", "dormant"} => botOf[s] # None

\* Whatever bot a session is leased, the session is bound to that bot or to
\* none yet: races lose leases but never cross two sessions' bots over.
LeasePointsBack ==
    \A b \in Bots : owner[b] # None =>
        /\ b \in pool
        /\ state[owner[b]] # "absent"
        /\ botOf[owner[b]] \in {b, None}

\* No session ever holds two bots of the pool.
OneBotPerSession ==
    \A a, b \in Bots : owner[a] = owner[b] /\ owner[a] # None => a = b

\* A session in birth that the running process has nobody for.
Abandoned(s) ==
    /\ Up
    /\ state[s] = "provisioning"
    /\ \A w \in Workers : wk[w].sid # s

\* A turn that works at session s breaks off and undoes nothing.
CutOffAt(s) == \E w \in Workers : wk[w].sid = s /\ BreaksOff(w)

\* A birth is left to nobody only by its own turn being cut off or meeting a
\* database error that its rollback does not cover or that breaks the rollback,
\* or by a recovery that fails: a failing bind, Zulip call or mark_live, an
\* empty pool and a crash leave none (sessions.py:83-127).
BirthsAreAttended ==
    [][\A s \in Sessions : ~Abandoned(s) /\ Abandoned(s)' =>
          RecoverFails \/ CutOffAt(s)]_vars

\* The invariant the recovery is there to restore: nothing in birth, and each
\* lease is an open session's that points back at the bot.
Consistent ==
    /\ InState("provisioning") = {}
    /\ \A b \in Leased :
           \E t \in Topics : \E s \in Open(t) : owner[b] = s /\ botOf[s] = b

\* A recovery that runs to its end leaves the pool and the sessions
\* consistent, whatever the crash interrupted, an earlier recovery included.
RecoveryRestores == [][RecoverDone => Consistent']_vars

\* resolve_for_topic's scalar_one_or_none never has to raise.
OneOpenPerTopic == \A t \in Topics : Cardinality(Open(t)) <= 1

\* The tasks that will write the state of session s without reading it again.
Late(s) ==
    LET hooks == {h \in Hooks : hook[h].pc = "reopen" /\ hook[h].sid = s}
        births == {w \in Workers : wk[w].sid = s /\ wk[w].pc \in InBirth}
    IN  ({"mark"} \X (idle \cap {s}))
          \cup ({"reopen"} \X hooks) \cup ({"birth"} \X births)

\* A closed session comes back only by the hand of a task that had read it
\* before it was closed: the reaper's late mark, a mention's reopen, a birth
\* the session was closed under.  Each does so once, and no task takes a
\* closed session up (session_reaper.py:28, pool_resolver.py:82).
ClosedRevivedLate ==
    [][\A s \in Sessions : state[s] = "closed" =>
          /\ Late(s)' \subseteq Late(s)
          /\ state'[s] # "closed" => Late(s)' # Late(s)]_vars

\* A session that takes turns holds its bot, unless it is being closed.
LiveHoldsBot ==
    \A s \in Sessions : state[s] \in {"live", "dormant"} =>
        \/ botOf[s] # None /\ owner[botOf[s]] = s
        \/ \E w \in Workers : wk[w].sid = s /\ wk[w].pc = "close"

\* After a restart, whatever a crash cut in two, it does again.
RecoveredHoldsBot == [][RecoverDone => LiveHoldsBot']_vars

\* No session is left half born, unless it is abandoned (its topic waits for
\* the next restart's recovery) or turns that work at it are cut off for ever.
BirthResolves ==
    \A s \in Sessions :
        \/ []<><<CutOffAt(s)>>_vars
        \/ state[s] = "provisioning"
               ~> state[s] # "provisioning" \/ Abandoned(s)

\* The lifecycle above, seen as the ledger of who has which bot.
Waits(s) == \E w \in Workers : wk[w].sid = s /\ wk[w].pc \in Unleased
Life(s) == IF state[s] = "absent" THEN "unborn"
           ELSE IF Waits(s) THEN "waiting" ELSE "settled"

Ledger == INSTANCE PoolLedger WITH life <- [s \in Sessions |-> Life(s)]

\* Whatever turns, reaper ticks, requests and crashes interleave, a bot is
\* never handed from one session straight to another, and a session is given
\* a bot at most once.
ImplementsLedger == Ledger!Spec

=============================================================================
