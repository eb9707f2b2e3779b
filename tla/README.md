# moomacha in TLA+

Models of moomacha: of its control plane in `control-plane/src/control_plane`
(called `cp/` below), its WhatsApp sidecar and its exec service. What their
handlers, workers and background loops do to the state they share is checked
with TLC on small instances and proved, where it matters most, with TLAPS for
instances of every size.

## The system

A chat mention of a bot reaches the control plane as an outgoing webhook; it is
deduplicated, acknowledged and queued; a worker posts a placeholder, runs the
agent and edits the placeholder into the reply. One process runs it all as
asyncio tasks: code between two `await`s is atomic, everything else interleaves.
The database is Postgres, one short transaction per store method; queue,
dedupe set and every task are lost when the process ends.

| component | state | operations | what is hard | modules |
|---|---|---|---|---|
| warm pool and sessions (`cp/services/pool_store.py`, `session_store.py`, `session_lifecycle.py`, `session_reaper.py`, `pool_resolver.py`, `orphan_recovery.py`, `cp/tools/management/sessions.py`) | `pool_bots`, `sessions` rows | spin up, close, reclaim, idle, reopen, recover | each operation is several transactions, with other tasks, a cancellation or a crash in between | `PoolSessions`, `PoolLedger` |
| mentions and the job queue (`cp/routes/zulip_webhook.py`, `cp/dedupe.py`, `cp/services/job_source.py`, `job_queue.py`, `tripwire.py`) | dedupe set, queue, worker tasks, placeholders, the agents' rows | receive, gate, mark, react, enqueue; take, place, run, answer, fail | repeated deliveries, each call may fail, error handlers that call out themselves, stale snapshots | `TurnQueue`, `TurnLedger` |
| agents' rows (`cp/services/agent_registry.py`, `bastion_seeder.py`, `cp/routes/agents.py`, `cp/tools/management/`) | `agents` rows, the Zulip bots behind them | create, provision, attach, enable, disable, delete, seed | a tool resolves by name, waits for Zulip, then acts on an id others may have changed | `Management` |
| scheduler (`cp/services/scheduler.py`, `schedule_store.py`) | `scheduled_jobs` rows | create, cancel, claim, fire | a claim is committed before its turn is queued; cancel races the claim; two processes during a redeploy | `Scheduler`, `OccurrenceLedger` |
| interactive artifacts (`cp/services/artifact_store.py`, `cp/routes/artifacts.py`) | forms and submissions | create, view, expire, submit, resume a turn | double submissions, expiry races, what fails after the submission is stored | `Artifacts`, `SubmissionLedger` |
| browser goals (`cp/services/browser_goal_runner.py`) | runs in memory, one task each | start, steer, pause, resume, stop | a cancelled task still writes the status of its run | `BrowserGoal` |
| tool access and runners (`cp/runtime/`) | none between turns, but the agent's row | select, execute, the tool loop | access is decided in two places, for three runners | `ToolAccess` |
| codex runtime (`cp/runtime/runners/codex_*.py`) | workspaces, bridge tokens, a child process | prepare, mount, run, serve tool calls | turns of one topic share a tree; the child can outlive its turn | `CodexTurn` |
| memory (`cp/runtime/tools/agent_memory.py`) | namespaces and session lists in a service | remember, search, append | the managed service ignores the filter; the local list is read and written whole | `AgentMemory`, `SessionMemory` |
| Google tools (`cp/runtime/tools/google_api.py`, `gcal.py`, `gtasks.py`) | one cached token, one lock | refresh, call, try again | expiry, revocation and cancellation of concurrent calls | `GoogleClient` |
| generated images (`cp/runtime/tools/images.py`, `cp/services/generated_media_store.py`) | rows, files and messages in Zulip | generate, store, upload, post, mark | any step may fail when the earlier ones are done | `GeneratedMedia` |
| live events and audit (`cp/observability/`, `cp/events/`) | sequence numbers, audit rows, queues of subscribers, spans | stamp, fan out, subscribe | two tasks emit for one turn; a failing or slow sink | `Telemetry` |
| host commands (`exec-mcp/`, `cp/runtime/tools/exec_mcp.py`) | bash processes | gate, run, time out | what bash leaves behind holds the pipes | `ExecService` |
| WhatsApp sidecar (`whatsapp-sidecar/src/`) | sockets, status, ring buffer, streams | connect, reconnect, stop, stream | closes against attempts and timers; backlog against live feed | `Sidecar` |
| the rest (catalogues, Zulip clients, the relay runner, wrappers of other external tools, dashboard, configuration, infrastructure) | rows written once, or none | single calls | nothing that interleaves | none |

Components meet in few places. The webhook asks the pool resolver for a session
(reopening it as it asks), the queue hands jobs to workers, a bastion's turn
calls `spin_up_session` and `close_session`, the tripwire disables an agent, the
scheduler and the artifacts route put jobs into the same queue. `PoolSessions`
has the first and the third of these, `TurnQueue` the second and fourth, and
`Scheduler` and `Artifacts` end where their job is enqueued, which `TurnQueue`
takes up as a message accepted.

## The modules

| module | what it is |
|---|---|
| `PoolLedger` | abstract: who has which bot, and that a session gets one at most once |
| `PoolSessions` | the pool and the sessions, one action per transaction |
| `PoolSessionsProofs` | its theorems |
| `TurnLedger` | abstract: a message is claimed, its turn begins and ends, once each |
| `TurnQueue` | webhook, queue, workers, tripwire, one action per await that matters |
| `TurnQueueProofs` | its theorems |
| `OccurrenceLedger` | abstract: an occurrence of a schedule is spent once and becomes one turn or none |
| `Scheduler` | the schedules' rows, the tools and the poll loops |
| `SchedulerProofs` | its theorems |
| `SubmissionLedger` | abstract: one submission wins for good and resumes its agent once at most |
| `Artifacts` | one form and its visitors' requests |
| `ArtifactsProofs` | its theorems |
| `BrowserGoal` | one run, its tasks and the requests that control it |
| `BrowserGoalProofs` | its theorems |
| `Management` | the agents' rows under tools, routes and the seeder |
| `Sidecar` | the WhatsApp connections, the bus and its streams |
| `ToolAccess` | the tools of one turn, whatever its runner |
| `CodexTurn` | workspaces, codex processes and the bridge |
| `CodexTurnProofs` | its theorems |
| `ExecService` | a host command from its gates to its result |
| `AgentMemory`, `SessionMemory` | long-term memory; a topic's session memory |
| `Telemetry` | the events of one turn |
| `GoogleClient` | the shared token and the calls made with it |
| `GeneratedMedia` | an image from its request to its message |
| `Services` | `Scheduler`, `Artifacts`, `BrowserGoal`, `Management` and `Sidecar` side by side: what runs beside the turns |
| `Runtimes` | `ToolAccess` to `GeneratedMedia` side by side: what runs inside a turn |
| `ServicesProofs`, `RuntimesProofs` | their theorems |
| `MCPoolSessions`, `MCTurnQueue`, `MCServices`, `MCRuntimes` | small instances |

### PoolSessions

`pool`, `owner` are the `pool_bots` rows (`owner[b] = None` iff the status is
"free"; the code writes both columns together), `state`, `topic`, `botOf` the
`sessions` rows. `lock` is the row lock of a lease under way (`FOR UPDATE SKIP
LOCKED`). `wk` holds, per worker, where the bastion's tool call is and the local
variables it will use after its next await; `hook` the same for webhook
requests; `idle` is what is left of the reaper's scan; `boot`, `todo` the
startup recovery.

`spin_up_session` is `SpinUpCheck`, `CreateSession`, `LeaseSelect`/`LeaseCommit`
(or `LeaseNone`, then `ReclaimPick`, `ReclaimClose`, `ReclaimRelease` and the
lease again, or `ReclaimNone`), `BindBot`, `MarkLive`; `BirthFails` is its
`except` branch, which joins `close_session` (`CloseResolve`) at `ReleaseBot`,
`CloseSession`. `CutOff` is what ends a tool call where it stands: `TurnTimeout`
is `asyncio.timeout` cancelling the turn at an await (`CancelledError` is no
`Exception`, so no handler runs), `StoreRaises` the database raising where the
`try` of `spin_up_session` does not reach (the insert, both leases, the reclaim)
or in the handler's own release and close; an open transaction rolls back and
nothing else is undone. `HookResolve`, `HookReopen`, `HookReturn` are the resolver,
`ReaperScan`, `ReaperMark`, `ReaperSkip` the reaper, the `Recover*` actions
`recover_pool_consistency`. `Crash` loses every task and no row.

`BirthsAreAttended` names the only ways to a half-born session that nobody is
working at: a cut-off turn of its own, or a recovery that fails. `PoolLedger` lets
a bot be released at any time, as `PoolStore.release` does; it says nothing of
who released it, only that no bot goes from one session straight to another and
no session gets a second one.

Abstracted: `last_active_at` (the least recently used free bot or dormant
session is any of them; idling is possible or, with `Reaping = FALSE`, not),
names, snapshots, credentials, Zulip's part in a birth (it fails or not).

### TurnQueue

A mention's sender is a human, an agent with a row or a bot of the pool, which
has none. `req` is each webhook request, `seen` the dedupe set (with the bot whose
delivery marked the id, which only properties read), `queue` the `JobQueue`,
`wk` each worker with its job and what `resolve_agent` told it of the agent's
tools, `outcome` what chat shows of each message. `rows`, `off`, `escalated`,
`live` are the rows the turn path reads, changed by administrators, by the
tripwire and by the sessions' life.

A request runs `Receive` (resolve, token, enabled), `Gate` (the bastion's),
`MarkNew`/`MarkDuplicate`/`MarkSilent`, `React`, `Enqueue`; a worker `Take`,
`Resolve`, `Place`, `Start`, `Trip`/`GoDark` or `Run`, then `Answer`/`Touch`,
`Excuse` (timeout, unknown runtime) or `Except`, and `Close`. The constant
`Faults` says which calls may fail; what an exception does depends on where it
is raised, and `AcceptFails`, `ResolveFails`, `PlaceFails`, `TryFails`,
`ExceptFails`, `CloseFails` are those places. `Run` stands for everything from
the history to the runner's end, whose result is any of the three the code
distinguishes. Events are left out except where their failure matters. `Lonely`
are the direct messages without another recipient, which `React` drops; the
instances have none, the theorems any number.

The tripwire is what `tripwire.py` computes: `allowed_tools` of the snapshot
`Resolve` took, against the baseline, once, in `Start`. It does not see what
`can_exec` and `is_bastion` grant (`registry.py:74-77`), nor a grant made after
the snapshot; no property claims that it does.

A pool bot's session is "there or not" (`live`), which is all the turn path
reads of it; who closes it is `PoolSessions`' business.

### Scheduler

`rows` are the `scheduled_jobs` rows, `lock` the row locks of claims under way,
`loop` the poll loop of each process, `cancel` each cancel call between its read
and its write. `claim_due` is `ClaimSelect` (select for update skip locked,
oldest first, at most `MaxDue`) and `ClaimCommit` (complete, miss, advance or
quarantine each row: `Claimed`); then `EmitOutcomes` writes the events and
`Enqueue` each turn. `ScheduleStore.cancel` is `CancelRead`, `CancelWrite`: its
update waits for a claim's lock. A cron is a period; one in `Ending` names its
years, so that croniter raises after the last.

A cancel may report a one-shot cancelled that was claimed between its read and
its write; the last occurrence of a cron that names its years is quarantined
rather than fired; a schedule made in a direct message has the channel "direct"
and fires into a stream of that name (`job_source.py:80-87`). A claim whose turn
is lost to a crash, a failed event or a failed enqueue stays lost.

### Artifacts

`status`, `due`, `sub` are the form's row, its expiry and its submission;
`req` is each request with the status its detached row shows. `_load` is `Load`,
`Reload`, `Expire`, the answer to a view or a payload `Answer`, `Payload`; a
submission goes `Summarize`, `AcceptRead`, then `AcceptExpired`, `Existing` or
`Insert` (whose unique constraint sends the loser to `Lost`), and `FollowUp`,
`Enqueue` or `FollowUpFails`. `expire_if_due` updates by id whatever the status
has become, although its docstring says it acts on "open" alone
(`artifact_store.py:121`): a form can read "expired" and have a submission, and
the winner who tries again is then told "expired" before the store is asked
(`routes/artifacts.py:121-122`), although `artifact_store.py:143-145` has a retry
of the winner be a duplicate. So `AnswersAgree` holds "accepted", "duplicate" and
"conflict" to the stored submission, and "expired" to the time only. The status
"revoked" is one that no code writes.

### BrowserGoal

`task` is every task ever started for the run, with the tool calls in its
transcript that have no result and its cancellation; `cur` is `run.task`. The
loop is `Begin`, `Opened`, `AskFails`, `AskFinal`, `AskTools`, `Tool`, `Napped`
and `Closed`; a cancellation is set by a request, arrives at the task's next
await (`CancelLands`, where a subprocess is killed first) and is handled
(`CancelHandled`). `Pause`, `Stop`, `Waited`, `Resume`, `Steer`, `Start`,
`Shutdown` are the requests. A run can end "stopped" although nobody asked for
that, when it is resumed while its pause still waits
(`tests/test_browser_goal_runner.py:110-128` has it so).

A cancellation can be lost: `proc.kill()` on a child that has exited raises
`ProcessLookupError` in place of the `CancelledError` (`playwright_cli.py:63-66`),
`runtime.py:94-98` makes that a tool result, and the loop goes on (`Onward`; `cut`
is then "lost"): it counts a step while the run is paused, and after a resume it
drives the run beside the new task. `OneDriver` and `PausedIsQuiet` say that
nothing else does. `Breaks` is a client or a tool context that cannot be made
(`browser_goal_runner.py:205-206`, outside the `try`): the run reads "running"
for good, as `RunEnds` admits.

### Management

`row` has the agents' rows by name; a token is named after the bot it belongs
to. A call is `Begin` (`resolve_one` and the confirmation) or `Create`, then
`Provision`, `Insert`, or `Load` and `Commit` (`AgentRegistry.update`, which
writes the columns that differ from the row loaded, as the ORM does), or `Act`
(delete, enable, disable, on the id found before). `attach_bot` is given a token
of any bot, and a new bot id and email or none. `Seed` is the seeder at a boot,
`RouteDelete` the route.

`spoilt` notes the rows a commit has spoilt (`Spoils`): the human gave
`attach_bot` a token that is not that bot's, or the agent's credentials had
changed since the call resolved it or loaded its row, as when two updates
overlap; none of that is reported. `TokenOfBot` says that nothing else makes an
active agent's token another bot's, so that a provision, a create, a seed or an
overlap with any other kind of call does not. It does not say that an active
agent has a token: `create_agent` makes a row active whose token was not captured
(`tools.py:96-104`) and `POST /agents` one for a bot it provisioned itself
(`routes/agents.py:62-76`); their webhooks are refused until `attach_bot`. Two
processes that find no bastion both insert one, which `spoilt` notes as 0.

The models also have: a name conflict after provisioning leaves an orphan bot in
Zulip; the tools do not look at what `delete`, `set_enabled` and `update` return;
the seeder never refreshes the bastion's name; a confirmation is a substring
match.

### Sidecar

`work` counts, per account, the attempts, timers and sockets of its connection:
`Connect`, `ConnectFails`, `Retry`, `Pair`, `Open`, `Close`, `Stop`. `buffer` is
the ring buffer, `stream` what each HTTP stream was sent: `Publish`,
`Subscribe`, `Unsubscribe`; a stream in `Throwing` raises in its callback, which
the bus catches, so that the others are served (`bus.ts:40-46`). `connect` does
not look at `stopped`, so a socket can be made after a stop; the process exits
right after.

### ToolAccess

`agent` is any agent of any runner: its list (with names that no longer exist)
and flags. `Described` is what the prompt lists, `Offered` what the model is
bound to, `Reachable` the names a call can carry and `Permitted` the checks at
the call. `Ask`, `Call` are the OpenAI loop with its budget, `BridgedCall`,
`BridgedEnd` the other two runners, which have no budget of ours.

`registry.py:57-58` has prompt and binding never drift; in the loop and DeepAgents
they do not. The Codex bridge binds the agent's own list (`job_queue.py:185`), so
that a tool the flags alone grant is described and not bound, and a listed tool
without its flag is bound and not described; a call of either is refused.
`OfferedRuns` therefore says, of all three runners, that a tool both described
and bound is never refused.

### CodexTurn

`Ensure`, `GitInit`, `Mint` lead a turn to the lock of its topic's workspace
(two topics whose names have one slug share it), `Start` mounts the skills and
starts codex, `Finish`, `ReadFails`, `CancelRun`/`Reap`, `CancelEarly`,
`MountRefused` end it; each gives up lock and bridge token (`Leave`). `Exit`,
`OwnFolder`, `BridgeCall`, `BridgeReturn` are the process.

### ExecService, AgentMemory, SessionMemory

`Call` is `run_command` with its gates and the request, `Fork` any process the
command starts, in the foreground or not, `Timeout` the kill of bash, `Finish`
the second `communicate()`. What bash started inherits the pipes and survives
the kill, so the "hard timeout" (`runner.py:4`) is none for it (`exec_hangs`).

`BeginTurn` gives a turn its memory namespace as `job_queue.py:209-211` does: that
of the topic's open session, whichever agent has the turn, or else the agent's
own; the session may close or change meanwhile. `Remember` and `Search` are the
long-term memory on either server, with `GateWrite` and the over-fetch; `WireNs`
is a namespace as the store has it, after `slugify`, which can make one of two
names (`agent_memory.py:40-56`): the instance has two archetypes that read alike,
and their agents see each other's memories, as `SearchStaysInScope` admits.
Topic-tier memories are written and never found by a search.

`PostEvent`, `ReadSession`/`PutSession`, `AppendFails` append to a session's list,
whose key is the channel and topic after `slugify`. On the local server any two
appends that overlap, of two agents or of one, can lose one.

### Telemetry, GoogleClient, GeneratedMedia

`Send` stamps an event, `Audit` commits it or not, `Publish` does the live bus
and the span; `Cancel` is the turn's timeout inside the audit transaction.

`Token`, `Mint`, `Refreshed` are `_token` with its lock, `Accept`, `Answer`,
`Refuse`, `Fails` the request; `Tick` keeps to the HTTP timeouts. A call whose
answer is lost may have been carried out, and the model that tries again repeats
it; every refused request forces a refresh of its own.

`Check` to `Posted` are the awaits of `generate_image`, `Fails` an error or a
cancellation at any of them. An image posted whose mark fails stays unmarked,
and a new call posts another.

## What the runs check

| run | instance | shows |
|---|---|---|
| `pool_races` | 2 topics, 2 bots, 3 session ids, 2 workers, a request, the reaper | `TypeOK`, `LiveIsBound`, `LeasePointsBack`, `OneBotPerSession`; `ClosedRevivedLate`: a closed session comes back only by a task that had read it before its close; and that `PoolSessions` implements `PoolLedger` |
| `pool_births` | 1 bot and 2 session ids for 2 workers, the reaper, 2 crashes, turn timeouts and database errors at every await, fairness | `BirthsAreAttended`: a birth is left to nobody only where one of these cut its tool call off, or a recovery failed; `BirthResolves`: every other birth ends, even when spin-ups fight over the last bot; `RecoveryRestores`: a recovery that ends leaves nothing in birth and no orphaned lease |
| `turn_faults` | 2 messages (one to an agent and a pool bot, one from an agent to the bastion), 3 deliveries, 2 requests, 2 workers, every fault, a crash, an administrator, fairness | `TypeOK`; `LostOnlyByFault`: an accepted message is lost by no interleaving, only by a failing call no handler covers; `AcceptedSettles`: every other ends as a reply, an error or a silence meant, as long as a worker is left; and that `TurnQueue` implements `TurnLedger` |
| `services` | `Services`, as below | the 15 properties below, `TypeOK` among them |
| `runtimes` | `Runtimes`, as below | the 8 properties below, `TypeOK` among them |

`Services` and `Runtimes` each have several modules that share no state: the
variable `which` picks one, the others stay in their initial states, so the
states of a run are the sum of the modules' and not their product. Nothing is
lost by that: a property of one module sees none of the others' variables.

| module | instance in `services` | properties |
|---|---|---|
| `Scheduler` | 2 schedules, one with a cron that ends, 2 loops, 1 caller, period 2, grace 1, batch 1, time to 4, 1 crash | `BacklogCoalesces`: a backlog fires once; `CancelHolds`: nothing reported cancelled is claimed later; `DueIsClaimed`: no bad row, full batch or crash keeps a due row waiting; `OccurrencesFireOnce`: it implements `OccurrenceLedger` |
| `Artifacts` | 2 requests, 2 submission ids, every fault, a crash | `AnswersAgree`: who was told of success or conflict was told so by the stored submission, who was told of the expiry not before it; `SubmissionsCountOnce`: it implements `SubmissionLedger`; `SubmissionResumes`: unless a call fails, the agent is resumed |
| `BrowserGoal` | 2 callers, 2 steps, 2 calls a completion, 2 tasks | `OneDriver`: one loop makes calls, and beside it one at most whose cancellation was lost; `PausedIsQuiet`: a paused run stays as it is, but for such a loop; `RunEnds`: unless its client cannot be made, a run ends or pauses |
| `Management` | 2 agents' names, one within the other, 2 bastion names, 2 callers, 3 calls | `RowsHold`: one bastion, and an active agent's token, if it has one, is its bot's unless a call spoilt it; `DestroyedWasNamed`: what is deleted or disabled was named in the message |
| `Sidecar` | 2 accounts, 2 streams of which one throws, a buffer of 2, 3 messages, 2 closes | `ConnectionHolds`: one connection per account, given up only after both attempts; `StreamIsTail`: a stream misses and repeats nothing |

| module | instance in `runtimes` | properties |
|---|---|---|
| `ToolAccess` | an ordinary, a management and an exec tool and a stale name; every list, flag and runner; 2 calls | `AccessAgrees`: privilege follows the flag, and what is described and bound is not refused |
| `CodexTurn` | 3 turns, 2 of them in one of 2 workspaces, 2 skills | `WorkspaceHolds`: a process has its tree's lock and its turn's skills; `NothingAfterTurn`: no bridged call begins for a turn that is over, no folder of codex's is replaced; `TurnsEnd` |
| `ExecService` | 2 calls | none but its types; `HardTimeout` in `exec_hangs` |
| `AgentMemory` | 2 agents, one a librarian, 2 topics in 2 channels, sessions of 2 archetypes whose names merge in the store, 1 worker, 3 memories, fetching 2 to show 1 | `MemoryHolds`: a search stays in scope, up to merged names, and finds what there is while the over-fetch suffices |
| `SessionMemory` | 3 appenders, 2 of them on one key, 2 events each | `MemoryHolds`: a saved event is kept unless appends overlapped |
| `Telemetry` | the turn and one bridged task, 4 events, a queue of 1 | `FanOutComplete`: numbers are unique, no sink after a failing one is skipped, the span closes |
| `GoogleClient`, `GeneratedMedia` | 2 requests, 3 tokens, 2 revocations, a clock in units of 20 s; 2 images | `OutsideHolds`: no expired token is used, one revocation costs no answer, nothing is carried out twice by one call; what is in the chat has its row, and what is reported happened |

Seven runs show what the code does against what the repository says of it:

| run | the code | the text |
|---|---|---|
| `pool_two_spinups` | two spin-ups both find the topic free and both create a session; from then on every lookup of the topic raises | "A session already exists in ..." (`sessions.py:77`) |
| `pool_crash_close` | a crash inside `close_session` leaves a live session with a free bot, which recovery does not see | "a 'live' session is always fully born and bound" (`sessions.py:96`) |
| `turn_worker_dies` | a refused placeholder ends the worker task | "worker must survive any job failure" (`job_queue.py:283`) |
| `bastion_hears_bot` | a bot of the pool has no row among the agents, so the gate takes its mention of the bastion for a human's | "The Bastion can't be invoked *by* other agents, only by humans." (`README.md:59`) |
| `exec_hangs` | what bash started survives the kill at the timeout and holds the pipes; the request gets no answer while it lives | "a hard timeout" (`runner.py:4`) |
| `codex_shared_tree` | a line of output beyond the reader's limit ends the turn and its lock, but not the process; the next turn starts another in the same tree | "two `codex exec` runs never share one git working tree" (`codex_workspace.py:51-52`) |
| `sidecar_gives_up` | when the immediate and the one delayed attempt fail, nobody reconnects | "Auto-reconnects on every disconnect except `loggedOut`" (`connection.ts:26`) |

The models also have these, with no run of their own. Each is written into the
property named, which says exactly how far the promise goes:

- "They go `live → dormant → closed`" (the repository's `README.md:160-161`): the
  reaper marks its list without reading it again (`session_reaper.py:28`), so a
  session closed in the meantime reads dormant and the next mention reopens it; a
  mention that has read a dormant session reopens it after its close
  (`ClosedRevivedLate`).
- "any in-process failure rolls back" (`sessions.py:93-96`): a cancelled birth
  does not, nor one that meets a database error outside the `try` or in the
  handler (`BirthsAreAttended`); its topic is taken until the next restart.
- A winner's retry is told "expired" (`routes/artifacts.py:121-122`), against
  `artifact_store.py:143-145` (`AnswersAgree`).
- A swallowed cancellation lets a paused run go on, or two loops drive one run
  (`playwright_cli.py:63-66`, `runtime.py:94-98`; `OneDriver`, `PausedIsQuiet`); a
  client that cannot be made leaves a run "running"
  (`browser_goal_runner.py:205-206`; `RunEnds`).
- Over the Codex bridge the tools in the prompt and the tools bound differ, against
  "so the two never drift" (`registry.py:57-58`, `job_queue.py:185`;
  `OfferedRuns`).
- The tripwire is blind to `can_exec`, `is_bastion` and grants made during the
  turn, against `tripwire.py:3-5` and the repository's `README.md:191`; no
  property claims more than the code does.
- The id of a delivery is marked before the reaction, so that after a failed
  reaction the redelivery is refused (`zulip_webhook.py:151`; `LostOnlyByFault`).
- The event `turn_end` is missing when the last handler's edit raises
  (`job_queue.py:280,285`); `SpanCloses` is about the turns that send it.
- A reclaim can close a session that a mention has just reopened; `close_session`
  of a session in birth does not return its bot; a mention during a birth, or of
  another pool bot, gets a turn of the topic's session; the second bot that one
  message mentions is refused as a duplicate.

**Bounds.** Sessions are ids that `uuid4` hands out: three allow one session
to be closed, another to be in birth and a third to be created in the same
topic while a stale reference to the first is still held, which is the longest
chain any two tasks can build; two bots are enough for a bot to be freed
twice, leased to another session, or crossed over. Two workers, one request and
the reaper are one task of every kind and two of the kind that conflicts with
itself. Two crashes let a recovery be interrupted by a crash. Three deliveries
of two messages are a repeat, a second target and another message. `MaxPosts`
and `MaxCrashes` bound counters; topics, bots, ids, workers and requests are
permuted by `SYMMETRY` in the runs without liveness.

In `services`, time 4 with period 2 and grace 1 has a backlog of two occurrences,
one within and one beyond its grace, and an ended cron; a batch of 1 with two
due rows is a full batch. Two visitors with two ids race for the one submission,
repeat each other's and expire the form; two tasks are the first and the one a
resume starts beside it. Three calls by two callers over two rows are two that
overlap and one before or after; three messages overflow a buffer of two, and two
closes of two accounts meet each other's attempts.

In `runtimes`, the budget of 2 is exceeded by a second batch; three turns are two
in one tree and one beside it; three memories are one more than a search fetches;
one worker is enough, since turns share nothing but the store and follow each
other in every order, with sessions opening and closing under them; a queue of 1
is full at the second event; five units of time are a token's life and the moment
after, and the third token is the one that follows the second revocation. Session
ids, deliveries, jobs, tokens and calls run out and nobody has to act, so deadlock
is not checked.

**Fairness.** A started task is always resumed: the event loop drives requests
and workers (`WF` on each request's and worker's next step), a turn's run ends
because `asyncio.timeout` bounds it, the reaper goes through its list and the
recovery through its rows. The scheduler's loop outlives a failing tick and runs
on (`scheduler.py:69-75`), and a cancel's update gets the row once a claim lets
it go; a request on a form is driven to its answer; a browser task is resumed,
because the model's answer and each tool have timeouts; a codex turn takes its
next step, and its run is cancelled in the end by the turn's timeout; the exec
service's timer fires and a result that can be returned is. That a killed
`playwright-cli` closes its pipes is assumed with the tools' timeouts; of bash's
children it is not (`exec_hangs`). Nobody has to send
messages, fail, crash, spin up, close, exit or end a background process, time
need not pass, and no fairness is assumed of those.

## What is proved

### The pool and its sessions (`PoolSessionsProofs`)

For any number of topics, bots, sessions, workers, requests and crashes, with
timeouts, idling and errors, under `DistinctNone` and `CrashBound` alone:
`TypeCorrect`, `LiveSessionsAreBound`, `LeasesPointBack`, `SessionsHoldOneBot`,
and `LedgerImplemented` (`Spec => ImplementsLedger`). None of these is inductive
by itself. A session holds one bot only because a spin-up that has none yet
waits for a session nobody else holds a bot for (`UnleasedOwnsNothing`,
`OwnBirth`), because the lease it is about to commit is locked and still free
(`LockHeld`), and because what it will bind is what it leased (`BindsItsLease`);
a live session is bound only because every task about to revive one remembers a
bound one (`RevivesBound`, with the rows it remembers in existence: `SidExists`,
`VictimExists`, `RowsExist`). `IInv` is their conjunction; one lemma per action
keeps it. The refinement takes a step per action to the ledger's `Mint`,
`Lease`, `Settle`, `Release` or to nothing.

`RecoveryRestoresConsistency` (`Spec => RecoveryRestores`) has no further
hypothesis: before the recovery is over no task runs (`Quiet`), every session
row was written for a topic (`TopicsKnown`), and what is off the recovery's list
is consistent (`Recovering`); a crash inside it only makes it begin again.
`BirthsLeftByCutOffs` (`Spec => BirthsAreAttended`) has none either. A worker has
no session before its insert (`NoSidYet`), and only an insert puts a session in
birth (`OnlyBorn`), so that a birth without its worker was left by that worker's
own cut-off, by a failed recovery, or by nothing.

`ClosedComesBackLate` (`Spec => ClosedRevivedLate`), with the reaper, mentions,
births and crashes: a task is late for a session only if it took the session up
while it was open (`LateShrinks`), and the write by which it revives a closed one
is the last it has for it.

`TopicsHaveOneSession` (`OneOpenPerTopic`) needs one worker and no idling. The
first hypothesis is what the finding of `pool_two_spinups` violates; the second
the application does violate, as its reaper always runs: a session it revives in
a topic taken since makes two, so the theorem says what the spin-ups alone
guarantee. It rests on there being nothing dormant (`NoneDormant`) and on a
spin-up's topic staying free until its insert, its session in birth until it says
otherwise (`SoleTurn`); turns may be cut off anywhere.

`RecoveryIsHarmless` is the other half of the recovery, again without further
hypotheses: no step of it, completed, failed or cut in two, touches the state,
the bot or the lease of a session that was live or dormant. The rows it closes
are still in birth (`OnlyBirths`), the leases it frees have no session to go
with (`Orphan`), and nothing else runs (`Quiet`); who writes a lease, a bot
column or a state is settled once (`OwnerWriters`, `BotOfWriters`,
`StateWriters`).

`OnlyMidCloseLosesBot` says when the finding of `pool_crash_close` can happen at
all. With one worker, no idling, no cancelled turns and no store errors, and if
no crash falls between `ReleaseBot` and `CloseSession` of a live session, every
live session has its bot, throughout and so after every recovery. It rests on a
live session's bot being leased for it until a close releases it (`LiveOwns`)
and on a turn's bot being leased for the session the turn is about
(`TurnsOwn`). No hypothesis can be spared, as TLC finds: a cancelled close stops
at the same place as a crash, and so does a close that meets a database error; of
two workers one closes the session the other is
about to make live; a reaper's stale list and a mention reopen a session that is
being closed; and when the recovery itself fails between a birth's release and
its close, the process goes on with that row, whose later close releases the bot
from the session that has it by then.

### The turns (`TurnQueueProofs`)

For any number of messages, bots, requests, workers, deliveries and crashes and
any set of faults, under `BotKinds`, `Deliveries` and `Bounds`:
`TurnTypesCorrect`, `OnlyFaultsLose`, and `TurnLedgerImplemented`. That a turn
begins once rests on `Carried`: a message accepted and not yet answered is
carried by exactly one request, or one place of the queue, or one worker
(`OneRequest`, `OnePlace`, `OneWorker`), nothing unseen has left a trace
(`UnseenIsNew`), what is carried early is fresh and what is carried late has
begun (`RequestsKnow`, `QueueFresh`, `WorkersKnow`). `QuietRequest`,
`QuietWorker` and `LateWorker` settle the actions that hand nothing on; each
hand-over has its lemma.

`OnlyFaultsLose` (`Spec => LostOnlyByFault`): whoever has a message in hand hands
it on, settles it, or loses it by one of the calls that nothing covers
(`HandedOn`), and a message once settled stays so.

`GateHolds` says what the gate can promise: a bastion's message, from the gate
through the queue to its worker, was written by nobody who has an agent's row
(`GatePassed`). It has no hypothesis: rows are only deleted in this module, and a
sender who loses its row only helps. That it is not "by humans only" is the run
`bastion_hears_bot`. A row created between the gate and the turn is out of the
module's reach.

`WorkersOutliveTurns` assumes that the database reads, the placeholder, the
edits and the client's close do not fail, each of which does end a worker
(`turn_worker_dies`); the registry, the delivery and the run itself may fail in
any way.

### Beside the turns (`ServicesProofs`)

The theorems are those of `Services`, for any values of its constants under the
assumptions it declares: the schedules are finite, `None` names nothing, the
period and the number of tasks are positive, the bounds and the backlogs asked
for are numbers.

- The scheduler: `BacklogFiresOnce`, `CancelledStaysUnclaimed`,
  `OccurrencesSpentOnce` (it implements `OccurrenceLedger`), from
  `SchedulerProofs`. A row between select and commit is as it was selected,
  because it is locked and a cancel's update waits for the lock (`BatchIsHeld`);
  a claim leaves its row finished or due only after the claim (`ClaimsArePast`,
  from `CronAdvances`), so that no later batch can hold the same occurrence; and
  what a loop has still to enqueue was claimed, by no other loop (`FiresAreOwn`).
  A schedule reported cancelled stays so (`ToldIsCancelled`), and a commit claims
  only what it selected active. `OneTurnPerOccurrence` says it of the turns: what
  was enqueued is spent and no longer open, so the list of turns holds nothing
  twice (`TurnsInv`); that follows from the steps of the ledger alone
  (`LedgerTurns`), and holds of `Scheduler` because it implements the ledger.
- The artifacts: `VisitorsToldTheTruth`, `SubmissionsWinOnce` (it implements
  `SubmissionLedger`), from `ArtifactsProofs`. One request carries the stored
  submission, until its turn (`OneWinner`); whoever saw the form submitted, or
  lost the insert, finds a submission stored (`SeenIsStored`), only a submit
  carries an id (`SubmitsHaveId`), and whatever speaks of an expiry follows it
  (`ExpiryIsDue`).
- The browser runs: `RunHasOneDriver`, `PausedRunIsQuiet`, from
  `BrowserGoalProofs`. Of the tasks whose cancellation was not lost only the newest
  drives, which a resume keeps because a paused run has no such driver at all
  (`PausedIsUndriven`).
- The agents' rows: `AgentRowsHold` and `OnlyNamedIsDestroyed`, from `BotInv`.
  An id is one row's for good (`IdsAreOwn`); every call is at a step of its tool
  with what that step needs, a confirmed name among it (`Sound`, `CallsAreSound`);
  a commit that spoils nothing leaves a token that is its bot's, since it finds the
  columns it does not write as it saw them (`TokenOfBot`, inductive with the rest);
  there is one bastion or one seeder about to insert it (`OneSeed`).
- The sidecar: `ConnectionsHold`, from `WaInv`: an account is at one step of
  `Attempts`, timer or socket, or nowhere (`Connected`), and how many attempts
  failed since the last socket follows from the step (`FailsAt`).
- The streams: `StreamsAreTails`, from `StreamInv`. The buffer is the end of the
  numbers of the messages published, and what a stream that does not throw was
  sent is the end of those its filter lets through (`Ends`). A subscription
  begins with the end of the filtered buffer, which is an end of everything
  filtered because filtering keeps ends (`KeptEnds`); a message published is
  appended to both sides or to neither (`KeptOfAppend`, `LetThroughGrows`).
  `Kept`, which is `Array.filter`, is a recursive function; the library's
  theorems about such definitions take an operator, so that it exists
  (`FilterExists`) and what it does (`KeptOfAppend`, `KeptEnds`) are proved by
  least numbers (`LeastNumber`): were there a length for which they fail, there
  would be a least one. Assumed is that a backlog asked for is a number of
  messages (`SidecarParameters`).

- `ServicesAreTyped`: the type invariants of the five modules. Most of it is in the
  invariants above; of a browser run it needs that the task at a tool call has left
  to execute what the transcript owes (`Counts`), of an answer that whoever is told
  something asked with an id, of the agents that the ids noted as spoilt are ids of
  rows, and of the bus that `slice` keeps no more than it is asked for
  (`LastOfIsBounded`).

`SchedulerProofs`, `ArtifactsProofs` and `BrowserGoalProofs` are about a module
alone; `CronSpec`, `FormSpec`, `GoalSpec` carry them over to the module's instance
in `Services` (definition by definition the same formula), and `RunsComponents`
shows that a behaviour of `Services` is one of each component.

### Inside a turn (`RuntimesProofs`)

Again for any values of the constants, under the assumptions of `Runtimes`.

- `AccessIsDecidedOnce`: what ran was permitted and what was refused was not
  (`RanPermitted`, `RefusedForbidden`), and what is both described and bound is
  permitted, for every runner (`OfferedIsPermitted`). It assumes that no tool is
  both a management and an exec tool, without which it is false: a tool offered on
  one flag would be refused for want of the other.
- `WorkspacesHold`, `NothingFollowsTurn`, from `CodexTurnProofs`: no bridged call
  begins for a turn that is over, though one begun before may end after it; the
  lock is held wherever a process runs (`RunsLocked`), a process outlives its turn only if its
  output was lost (`LivesInTurn`, `BrokenIsOver`), and the workspace of a running
  turn holds its skills alone (`OwnSkillsOnly`).
- `SharedOnlyIfOutputLost`: as long as every turn can read its process's output,
  two codex processes never share a workspace: all that are alive in one belong
  to the holder of its lock. A read that fails (run `codex_shared_tree`) is the
  only thing that breaks the promise of `codex_workspace.py:51-52` while the
  control plane runs.
- `FanOutCompletes`: the counter counts what was sent, so a number is one
  event's (`Numbered`), and only the turn's own task carries its start and its
  end, so nothing reopens the span (`EndIsOwn`).
- `MemoriesHold`: a memory's namespace is one its writer could write to at the time
  (`Writable`), and a turn's own is of the agents' tier, whatever session or agent
  it is named after (`OwnTier`); `WireNs` keeps the tier, so that merged names stay
  within it. While the store is no larger than the fetch, what the service returns
  is all there is. For the sessions, a list that is about to be put back holds
  every saved event of its key but the clashed ones (`CopyIsKnown`).
- `OutsideIsReported`: a call's token lasts until it arrives (`TokenLasts`), which
  needs exactly that the answer to a refresh and a call together take no longer
  than the skew and less than a token's life (`GoogleParameters`; 20 s and 40 s
  against 60 s and an hour in the code); a request refused once saw another token
  revoked than the one it has since (`RefusedForCause`); nothing is carried out for
  a request before its answer (`CarriedOut`). For the images `MediaInv`: how far a
  call has come says what it has stored, uploaded and posted.

- `RuntimesAreTyped`: the type invariants of the modules, each from the invariant
  above with the ranges of what only counts: a call has a token that was issued, a
  post is begun only while its agent has events left.

The bounds of the modules (`MaxCrashes`, `MaxTime`, `MaxTasks`, ...) are any
numbers in the theorems (`BoundsParameters`); that the agents have some member
says no more than that somebody may store a memory.

### Only model-checked

- Liveness (`BirthResolves`, `AcceptedSettles`, `DueIsClaimed`,
  `SubmissionResumes`, `RunEnds`, `TurnsEnd`): it rests on fairness
  and `ENABLED`, which the prover does not have.

Every invariant, action property and refinement of the passing runs is proved,
without hypotheses beyond the declared assumptions. Of the seven violations six
have a theorem on when what they contradict does hold: `TopicsHaveOneSession`
(one worker, no idling), `OnlyMidCloseLosesBot` (above all, no crash inside a
close), `WorkersOutliveTurns` (placeholders that do not fail), `GateHolds`
(senders with a row), `SharedOnlyIfOutputLost` (output that can be read) and
`ConnectionsHold` (an account that lost its connection is given up after two
failed attempts, a logout or a stop, never otherwise). The seventh, `HardTimeout`,
is about liveness.

## The plan

1. `PoolSessions` and `TurnQueue`, with their proofs: done.
2. The modules beside and inside the turns, with their proofs: done.
3. The restricted properties of the two core modules, proved from the
   assumptions they need: done.
4. `StreamIsTail`, and what the violations need, proved: done.
5. Left to do: `PoolSessions` composed with `TurnQueue`, the session's life in
   place of `live`.

## Not modelled

- Catalogues (archetypes, skills, agent types, knowledge artifacts): a row
  written whole in one transaction, and read; two upserts of one name meet the
  unique constraint.
- Zulip clients, briefings, the other external tools (Tavily, Context7, messages,
  knowledge artifacts), the relay runner: one request, one answer; their callers'
  modules have the call succeed, fail or lose its answer.
- Dashboard, observability and meta routes: read-only pages (the live stream's
  queue is `Telemetry`'s).
- Configuration, personas, prompts, encryption: constants and text.
- `normalize.ts`, `pair.ts`, `config.ts` of the sidecar: a conversion of text, a
  one-off program, constants.
- The wiring of the objects and the orderly shutdown in `app.py`; the modules
  have start, recovery and crash.
- Infrastructure and scripts.
