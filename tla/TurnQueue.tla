----------------------------- MODULE TurnQueue ------------------------------
(***************************************************************************)
(* From a mention in chat to the reply: the outgoing-webhook handler with  *)
(* its dedupe set and bastion gate, the in-process job queue, the workers  *)
(* with their placeholder and error paths, and the tripwire.  Every await  *)
(* of the handler and of process_job that reads or writes shared state, or *)
(* whose failure the code treats differently, is a step of its own.        *)
(***************************************************************************)
EXTENDS Naturals, Sequences, FiniteSets

CONSTANTS
    Messages,       \* Zulip message ids
    Agents,         \* bots with an AgentRow
    PoolBots,       \* bots of the warm pool, which have none
    Bastions,       \* the agents whose row says is_bastion
    Flagged,        \* the agents with runtime_config.codex.tripwire
    Deletable,      \* agents an administrator may delete
    Mentions,       \* which bots each message mentions: one webhook per pair
    Sender,         \* the bot that wrote each message, or None for a human
    Lonely,         \* direct messages that name no recipient but the bot
    Requests,       \* webhook requests in flight
    Workers,        \* worker tasks
    None,
    MaxPosts,       \* bound on webhook deliveries
    MaxCrashes,     \* bound on process crashes
    Faults          \* the calls that may fail, see FaultKinds

Bots == Agents \cup PoolBots

\* accept: the reaction or the event row of the webhook;  post, edit: Zulip's
\* messages;  store: the worker's database reads and the session's touch;
\* registry: set_enabled;  close: closing the LLM client.
FaultKinds == {"accept", "post", "edit", "store", "registry", "close"}

ASSUME BotKinds == /\ Agents \cap PoolBots = {}
                   /\ Bastions \subseteq Agents
                   /\ Flagged \subseteq Agents
                   /\ Deletable \subseteq Agents
                   /\ None \notin Bots \cup Messages
ASSUME Deliveries == /\ Mentions \subseteq Messages \X Bots
                     /\ Sender \in [Messages -> Bots \cup {None}]
                     /\ Lonely \subseteq Messages
ASSUME Bounds == MaxPosts \in Nat /\ MaxCrashes \in Nat
ASSUME KnownFaults == Faults \subseteq FaultKinds

VARIABLES
    rows,       \* the agents whose AgentRow is there
    off,        \* the agents with enabled = false
    escalated,  \* the flagged agents whose allowed_tools exceed the baseline
    live,       \* the pool bots whose topic has an open session
    posts,      \* webhook deliveries so far
    req,        \* each webhook request: where it is and what it is about
    seen,       \* SeenMessages, with the bot whose delivery marked the id
    queue,      \* the JobQueue
    wk,         \* each worker: where it is, its job, its agent's tools then
    outcome,    \* what this process made of each message
    crashes     \* crashes so far

db == <<rows, off, escalated, live>>
vars == <<db, posts, req, seen, queue, wk, outcome, crashes>>

RequestPcs == {"idle", "gate", "mark", "silent", "react", "enqueue"}
WorkerPcs == {"idle", "resolve", "place", "start", "trip", "dark", "run",
              "answer", "touch", "excuse", "except", "close", "dying", "dead"}

\* none: no trace in chat;  dropped: none, on purpose;  spinner: the
\* placeholder;  the others: what the placeholder was edited into.
Outcomes == {"none", "dropped", "spinner", "answer", "error", "dark"}

Job == [msg : Messages, bot : Bots]
NoJob == [msg |-> None, bot |-> None]

NoRequest == [pc |-> "idle", msg |-> None, bot |-> None]
Idle == [pc |-> "idle", job |-> NoJob, tools |-> "baseline"]

Init ==
    /\ rows = Agents
    /\ off = {}
    /\ escalated = {}
    /\ live = PoolBots
    /\ posts = 0
    /\ req = [r \in Requests |-> NoRequest]
    /\ seen = {}
    /\ queue = <<>>
    /\ wk = [w \in Workers |-> Idle]
    /\ outcome = [m \in Messages |-> "none"]
    /\ crashes = 0

SeenIds == {d[1] : d \in seen}

-----------------------------------------------------------------------------
(* POST /zulip/incoming.  A request whose token is wrong changes nothing.  *)

ReqGoto(r, pc) == req' = [req EXCEPT ![r].pc = pc]
ReqEnd(r) == req' = [req EXCEPT ![r] = NoRequest]

\* Resolve the bot: a disabled agent's request ends here.
Receive(r, m, b) ==
    /\ req[r].pc = "idle"
    /\ <<m, b>> \in Mentions
    /\ posts < MaxPosts
    /\ posts' = posts + 1
    /\ \/ /\ b \in PoolBots
          /\ req' = [req EXCEPT ![r] = [msg |-> m, bot |-> b,
                        pc |-> IF b \in live THEN "mark" ELSE "silent"]]
       \/ /\ b \in rows \ off
          /\ req' = [req EXCEPT ![r] = [msg |-> m, bot |-> b,
                        pc |-> IF b \in Bastions THEN "gate" ELSE "mark"]]
    /\ UNCHANGED <<db, seen, queue, wk, outcome, crashes>>

\* The bastion hears no message whose sender has an AgentRow: a pool bot, which
\* has none, passes as a human does.
Gate(r) ==
    /\ req[r].pc = "gate"
    /\ IF Sender[req[r].msg] \in rows THEN ReqEnd(r) ELSE ReqGoto(r, "mark")
    /\ UNCHANGED <<db, posts, seen, queue, wk, outcome, crashes>>

\* The dedupe set holds message ids, whichever bot a delivery is for.
MarkDuplicate(r) ==
    /\ req[r].pc \in {"mark", "silent"}
    /\ req[r].msg \in SeenIds
    /\ ReqEnd(r)
    /\ UNCHANGED <<db, posts, seen, queue, wk, outcome, crashes>>

\* (fault) The id is not remembered.
MarkNewForgets(r) ==
    /\ req[r].pc = "mark"
    /\ req[r].msg \notin SeenIds
    /\ ReqGoto(r, "react")
    /\ UNCHANGED <<db, posts, seen, queue, wk, outcome, crashes>>

MarkNew(r) ==
    /\ req[r].pc = "mark"
    /\ req[r].msg \notin SeenIds
    /\ seen' = seen \cup {<<req[r].msg, req[r].bot>>}
    /\ ReqGoto(r, "react")
    /\ UNCHANGED <<db, posts, queue, wk, outcome, crashes>>

\* A pool bot without a session stays silent, and the id is spent.
MarkSilent(r) ==
    /\ req[r].pc = "silent"
    /\ req[r].msg \notin SeenIds
    /\ seen' = seen \cup {<<req[r].msg, req[r].bot>>}
    /\ outcome' = [outcome EXCEPT ![req[r].msg] = "dropped"]
    /\ ReqEnd(r)
    /\ UNCHANGED <<db, posts, queue, wk, crashes>>

\* add_reaction; then a direct message with nobody to answer to is dropped.
React(r) ==
    /\ req[r].pc = "react"
    /\ IF req[r].msg \in Lonely /\ req[r].bot \in Agents
       THEN /\ outcome' = [outcome EXCEPT ![req[r].msg] = "dropped"]
            /\ ReqEnd(r)
       ELSE /\ ReqGoto(r, "enqueue")
            /\ UNCHANGED outcome
    /\ UNCHANGED <<db, posts, seen, queue, wk, crashes>>

\* enqueue_agent_turn: the event row, then the put, which never waits.
Enqueue(r) ==
    /\ req[r].pc = "enqueue"
    /\ queue' = Append(queue, [msg |-> req[r].msg, bot |-> req[r].bot])
    /\ ReqEnd(r)
    /\ UNCHANGED <<db, posts, seen, wk, outcome, crashes>>

\* The reaction or the event row fails: a 500, and the id stays seen.
AcceptFails(r) ==
    /\ "accept" \in Faults
    /\ req[r].pc \in {"react", "enqueue"}
    /\ ReqEnd(r)
    /\ UNCHANGED <<db, posts, seen, queue, wk, outcome, crashes>>

-----------------------------------------------------------------------------
(* worker_loop and process_job.                                            *)

Goto(w, pc) == wk' = [wk EXCEPT ![w].pc = pc]
Show(w, what) == outcome' = [outcome EXCEPT ![wk[w].job.msg] = what]

Take(w) ==
    /\ wk[w].pc = "idle"
    /\ queue # <<>>
    /\ wk' = [wk EXCEPT ![w] = [Idle EXCEPT !.pc = "resolve",
                                            !.job = Head(queue)]]
    /\ queue' = Tail(queue)
    /\ UNCHANGED <<db, posts, req, seen, outcome, crashes>>

\* The agent's row, or its session's snapshot, is read once for the turn.
Resolve(w) ==
    LET b == wk[w].job.bot IN
    /\ wk[w].pc = "resolve"
    /\ IF b \in rows \cup live
       THEN /\ wk' = [wk EXCEPT ![w].pc = "place",
                                ![w].tools = IF b \in Flagged \cap escalated
                                              THEN "more" ELSE "baseline"]
            /\ UNCHANGED outcome
       ELSE /\ wk' = [wk EXCEPT ![w] = Idle]
            /\ Show(w, "dropped")
    /\ UNCHANGED <<db, posts, req, seen, queue, crashes>>

\* Not in the try: an exception here goes through worker_loop and ends it.
ResolveFails(w) ==
    /\ "store" \in Faults
    /\ wk[w].pc = "resolve"
    /\ Goto(w, "dead")
    /\ UNCHANGED <<db, posts, req, seen, queue, outcome, crashes>>

Place(w) ==
    /\ wk[w].pc = "place"
    /\ Show(w, "spinner")
    /\ Goto(w, "start")
    /\ UNCHANGED <<db, posts, req, seen, queue, crashes>>

\* Not in the try either.
PlaceFails(w) ==
    /\ "post" \in Faults
    /\ wk[w].pc = "place"
    /\ Goto(w, "dead")
    /\ UNCHANGED <<db, posts, req, seen, queue, outcome, crashes>>

\* The tripwire is checked here, against the snapshot's allowed_tools, and
\* nowhere else: what can_exec or is_bastion add to them it does not see.
Start(w) ==
    /\ wk[w].pc = "start"
    /\ Goto(w, IF wk[w].tools = "more" THEN "trip" ELSE "run")
    /\ UNCHANGED <<db, posts, req, seen, queue, outcome, crashes>>

\* (fault) A row that is gone is written back, disabled.
TripUnconditional(w) ==
    /\ wk[w].pc = "trip"
    /\ off' = off \cup {wk[w].job.bot}
    /\ Goto(w, "dark")
    /\ UNCHANGED <<rows, escalated, live, posts, req, seen, queue, outcome,
                   crashes>>

\* fire_tripwire: disable the agent, going on if that fails ...
Trip(w) ==
    /\ wk[w].pc = "trip"
    /\ \/ off' = off \cup (rows \cap {wk[w].job.bot})
       \/ "registry" \in Faults /\ UNCHANGED off
    /\ Goto(w, "dark")
    /\ UNCHANGED <<rows, escalated, live, posts, req, seen, queue, outcome,
                   crashes>>

\* ... and leave a placeholder that says nothing, if Zulip lets it.
GoDark(w) ==
    /\ wk[w].pc = "dark"
    /\ \/ Show(w, "dark")
       \/ "edit" \in Faults /\ UNCHANGED outcome
    /\ Goto(w, "close")
    /\ UNCHANGED <<db, posts, req, seen, queue, crashes>>

\* The runner returns, exceeds its time or its runtime is unknown ("excuse"),
\* or anything in the try, budget included, raises.
Run(w) ==
    /\ wk[w].pc = "run"
    /\ \E pc \in {"answer", "excuse", "except"} : Goto(w, pc)
    /\ UNCHANGED <<db, posts, req, seen, queue, outcome, crashes>>

\* The placeholder becomes the reply; a session is then touched.
Answer(w) ==
    /\ wk[w].pc = "answer"
    /\ Show(w, "answer")
    /\ Goto(w, IF wk[w].job.bot \in PoolBots THEN "touch" ELSE "close")
    /\ UNCHANGED <<db, posts, req, seen, queue, crashes>>

Touch(w) ==
    /\ wk[w].pc = "touch"
    /\ Goto(w, "close")
    /\ UNCHANGED <<db, posts, req, seen, queue, outcome, crashes>>

\* The timeout's and the unknown runtime's own messages.
Excuse(w) ==
    /\ wk[w].pc = "excuse"
    /\ Show(w, "error")
    /\ Goto(w, "close")
    /\ UNCHANGED <<db, posts, req, seen, queue, crashes>>

\* What fails inside the try ends in the error message.
TryFails(w) ==
    /\ \/ "edit" \in Faults /\ wk[w].pc \in {"answer", "excuse"}
       \/ "store" \in Faults /\ wk[w].pc = "touch"
    /\ Goto(w, "except")
    /\ UNCHANGED <<db, posts, req, seen, queue, outcome, crashes>>

\* (fault) The handler logs and leaves the placeholder alone.
ExceptLogs(w) ==
    /\ wk[w].pc = "except"
    /\ Goto(w, "close")
    /\ UNCHANGED <<db, posts, req, seen, queue, outcome, crashes>>

\* (fault) The handler puts the job back for another try.
ExceptRequeues(w) ==
    /\ wk[w].pc = "except"
    /\ queue' = Append(queue, wk[w].job)
    /\ wk' = [wk EXCEPT ![w] = Idle]
    /\ UNCHANGED <<db, posts, req, seen, outcome, crashes>>

\* The budget's and the last handler edit the placeholder ...
Except(w) ==
    /\ wk[w].pc = "except"
    /\ Show(w, "error")
    /\ Goto(w, "close")
    /\ UNCHANGED <<db, posts, req, seen, queue, crashes>>

\* ... and nothing catches what that edit raises.
ExceptFails(w) ==
    /\ "edit" \in Faults
    /\ wk[w].pc = "except"
    /\ Goto(w, "dying")
    /\ UNCHANGED <<db, posts, req, seen, queue, outcome, crashes>>

\* finally: close the client; the exception under way goes on from there.
Close(w) ==
    /\ wk[w].pc \in {"close", "dying"}
    /\ wk' = [wk EXCEPT ![w] =
                 IF @.pc = "close" THEN Idle ELSE [Idle EXCEPT !.pc = "dead"]]
    /\ UNCHANGED <<db, posts, req, seen, queue, outcome, crashes>>

CloseFails(w) ==
    /\ "close" \in Faults
    /\ wk[w].pc = "close"
    /\ Goto(w, "dying")
    /\ UNCHANGED <<db, posts, req, seen, queue, outcome, crashes>>

-----------------------------------------------------------------------------
(* Administrators, sessions, and the process itself.                       *)

SetEnabled(a) ==
    /\ a \in rows
    /\ \/ off' = off \cup {a}
       \/ off' = off \ {a}
    /\ UNCHANGED <<rows, escalated, live, posts, req, seen, queue, wk,
                   outcome, crashes>>

\* An update of allowed_tools puts a flagged agent over its baseline, or back.
\* can_exec and is_bastion grant tools as well, but no step here looks at them.
GrantTools(a) ==
    /\ a \in rows \cap Flagged
    /\ \/ escalated' = escalated \cup {a}
       \/ escalated' = escalated \ {a}
    /\ UNCHANGED <<rows, off, live, posts, req, seen, queue, wk, outcome,
                   crashes>>

DeleteAgent(a) ==
    /\ a \in rows \cap Deletable
    /\ rows' = rows \ {a}
    /\ off' = off \ {a}
    /\ escalated' = escalated \ {a}
    /\ UNCHANGED <<live, posts, req, seen, queue, wk, outcome, crashes>>

\* Sessions come and go as PoolSessions says; here a topic has one or none.
SessionChanges(b) ==
    /\ b \in PoolBots
    /\ live' \in {live \cup {b}, live \ {b}}
    /\ UNCHANGED <<rows, off, escalated, posts, req, seen, queue, wk, outcome,
                   crashes>>

\* The queue, the dedupe set and every request and turn are in memory only.
Crash ==
    /\ crashes < MaxCrashes
    /\ crashes' = crashes + 1
    /\ req' = [r \in Requests |-> NoRequest]
    /\ seen' = {}
    /\ queue' = <<>>
    /\ wk' = [w \in Workers |-> Idle]
    /\ outcome' = [m \in Messages |-> "none"]
    /\ UNCHANGED <<db, posts>>

-----------------------------------------------------------------------------

RequestStep(r) ==
    \/ Gate(r)
    \/ MarkDuplicate(r)
    \/ MarkNew(r)
    \/ MarkSilent(r)
    \/ React(r)
    \/ Enqueue(r)

WorkerStep(w) ==
    \/ Take(w)
    \/ Resolve(w)
    \/ Place(w)
    \/ Start(w)
    \/ Trip(w)
    \/ GoDark(w)
    \/ Run(w)
    \/ Answer(w)
    \/ Touch(w)
    \/ Excuse(w)
    \/ Except(w)
    \/ Close(w)

WorkerFails(w) ==
    \/ ResolveFails(w)
    \/ PlaceFails(w)
    \/ TryFails(w)
    \/ ExceptFails(w)
    \/ CloseFails(w)

Admin ==
    \/ \E a \in Agents : SetEnabled(a) \/ GrantTools(a) \/ DeleteAgent(a)
    \/ \E b \in PoolBots : SessionChanges(b)

Next ==
    \/ \E r \in Requests, m \in Messages, b \in Bots : Receive(r, m, b)
    \/ \E r \in Requests : RequestStep(r) \/ AcceptFails(r)
    \/ \E w \in Workers : WorkerStep(w) \/ WorkerFails(w)
    \/ Admin
    \/ Crash

Spec == Init /\ [][Next]_vars

\* Requests and turns under way are driven on; a turn's run is bounded by
\* asyncio.timeout, so it ends too.  Deliveries, failures, administrators and
\* crashes are nobody's duty.
Fairness ==
    /\ \A r \in Requests : WF_vars(RequestStep(r))
    /\ \A w \in Workers : WF_vars(WorkerStep(w))

FairSpec == Spec /\ Fairness

-----------------------------------------------------------------------------
(* Properties.                                                             *)

\* Rows, requests, jobs, workers and messages are in states of the code.
TypeOK ==
    /\ rows \subseteq Agents
    /\ off \subseteq rows
    /\ escalated \subseteq rows \cap Flagged
    /\ live \subseteq PoolBots
    /\ posts \in 0..MaxPosts
    /\ req \in [Requests -> [pc : RequestPcs, msg : Messages \cup {None},
                             bot : Bots \cup {None}]]
    /\ seen \subseteq Messages \X Bots
    /\ queue \in Seq(Job)
    /\ wk \in [Workers -> [pc : WorkerPcs, job : Job \cup {NoJob},
                           tools : {"baseline", "more"}]]
    /\ outcome \in [Messages -> Outcomes]
    /\ crashes \in 0..MaxCrashes

\* No job failure costs a worker: whatever happens to its jobs, the worker
\* task is there to take the next one.
WorkersSurvive == \A w \in Workers : wk[w].pc \notin {"dying", "dead"}

\* The bastion takes turns for humans only, never for another bot.
HumansOnly ==
    \A w \in Workers :
        wk[w].job.bot \in Bastions => Sender[wk[w].job.msg] = None

\* Somebody still has the message in hand: its request, the queue or a worker.
TurnPcs == {"resolve", "place", "start", "trip", "dark", "run", "answer",
            "touch", "excuse", "except"}
Pending(m) ==
    \/ \E r \in Requests : req[r].msg = m /\ req[r].pc \in {"react", "enqueue"}
    \/ \E i \in DOMAIN queue : queue[i].msg = m
    \/ \E w \in Workers : wk[w].job.msg = m /\ wk[w].pc \in TurnPcs

Settled(m) == outcome[m] \notin {"none", "spinner"}

\* Accepted, and nobody will answer it: its redelivery is a duplicate.
Lost == {m \in SeenIds : ~Settled(m) /\ ~Pending(m)}

Loses(m) ==
    \/ \E r \in Requests : req[r].msg = m /\ AcceptFails(r)
    \/ \E w \in Workers :
          /\ wk[w].job.msg = m
          /\ \/ ResolveFails(w) \/ PlaceFails(w) \/ ExceptFails(w)
             \/ GoDark(w) /\ UNCHANGED outcome

\* An accepted message is lost, its spinner left or nothing shown, only by the
\* failures of the calls that no handler covers: its reaction or event row, the
\* worker's first read, the placeholder, and the edit that was to say how its
\* turn ended.  Every other failure, and every race of deliveries, workers and
\* administrators, leaves somebody who has it in hand or has settled it.
LostOnlyByFault ==
    [][\A m \in Messages : m \notin Lost /\ m \in Lost' => Loses(m)]_vars

\* With any call failing at any time: an accepted message comes to an end, a
\* reply, an error, a dark placeholder or a deliberate silence, unless it is
\* lost as above, forgotten by a crash, or no worker is left to take it.
AcceptedSettles ==
    \A m \in Messages :
        m \in SeenIds ~> \/ Settled(m)
                          \/ m \in Lost
                          \/ m \notin SeenIds
                          \/ \A w \in Workers : wk[w].pc = "dead"

Begun == {m \in Messages : outcome[m] \notin {"none", "dropped"}}
Ended == {m \in Begun : outcome[m] # "spinner"}

Ledger == INSTANCE TurnLedger WITH
              claimed <- SeenIds, begun <- Begun, ended <- Ended

\* Whatever deliveries are repeated, raced or refused, and whatever fails on
\* the way, a message is accepted once and its turn begins and ends once in
\* the life of a process.
ImplementsLedger == Ledger!Spec

=============================================================================
