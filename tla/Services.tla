------------------------------- MODULE Services --------------------------------
(***************************************************************************)
(* The services that run beside the turns.  They share no state: which     *)
(* says whose behaviour a behaviour of the module is, and the others stay  *)
(* in their initial states.  The constants are those of the components.    *)
(***************************************************************************)
EXTENDS Naturals, Sequences, FiniteSets

CONSTANTS
    None,
    \* Scheduler
    Jobs, Loops, Cancellers, Period, LastYear, Ending, Grace, MaxDue, MaxTime,
    \* Artifacts
    Reqs, Ids, Faults,
    MaxCrashes,   \* bound of both
    \* BrowserGoal; its Callers are Management's too
    Callers, MaxSteps, MaxToolCalls, MaxTasks, MaxSteer, HasUrl,
    \* Management
    Names, Bastions, Queries, Within, MaxBots, MaxRows, MaxCalls,
    \* Sidecar
    Accounts, Streams, Throwing, Capacity, Lasts, MaxMessages, MaxCloses, All

ASSUME SchedulerParameters ==
    /\ IsFiniteSet(Jobs)
    /\ None \notin Loops
    /\ Period \in Nat \ {0}
ASSUME ArtifactsParameters == None \notin Ids
ASSUME BrowserGoalParameters == MaxTasks \in Nat \ {0}
ASSUME ManagementParameters == MaxBots \in Nat /\ MaxRows \in Nat
ASSUME BoundsParameters ==
    {MaxTime, MaxCrashes, MaxSteer, MaxToolCalls, MaxCalls, MaxCloses,
     Capacity} \subseteq Nat
ASSUME SidecarParameters == Lasts \subseteq Nat

VARIABLES
    which,   \* the component that runs
    \* Scheduler
    jobRows, lock, loop, cancel, claims, queued, told, now, loopCrashes,
    \* Artifacts
    formStatus, due, sub, req, answers, turns, failed, crashes,
    \* BrowserGoal
    runStatus, step, steer, task, cur, ctl, asked, down,
    \* Management
    row, bots, rows, call, calls, spoilt,
    \* Sidecar
    work, accountStatus, fails, loggedOut, stopped, history, buffer,
    stream, closes

schedules == <<jobRows, lock, loop, cancel, claims, queued, told, now,
               loopCrashes>>
forms == <<formStatus, due, sub, req, answers, turns, failed, crashes>>
goals == <<runStatus, step, steer, task, cur, ctl, asked, down>>
agents == <<row, bots, rows, call, calls, spoilt>>
accounts == <<work, accountStatus, fails, loggedOut, stopped, history, buffer,
              stream, closes>>
vars == <<which, schedules, forms, goals, agents, accounts>>

Cron == INSTANCE Scheduler WITH
    Callers <- Cancellers, rows <- jobRows, crashes <- loopCrashes
Form == INSTANCE Artifacts WITH status <- formStatus
Goal == INSTANCE BrowserGoal WITH
    MaxCalls <- MaxToolCalls, status <- runStatus
Bot == INSTANCE Management
Wa == INSTANCE Sidecar WITH status <- accountStatus

Init == /\ which \in {"schedules", "forms", "goals", "agents", "accounts"}
        /\ Cron!Init
        /\ Form!Init
        /\ Goal!Init
        /\ Bot!Init
        /\ Wa!Init

Next ==
    \/ /\ which = "schedules" /\ Cron!Next
       /\ UNCHANGED <<which, forms, goals, agents, accounts>>
    \/ /\ which = "forms" /\ Form!Next
       /\ UNCHANGED <<which, schedules, goals, agents, accounts>>
    \/ /\ which = "goals" /\ Goal!Next
       /\ UNCHANGED <<which, schedules, forms, agents, accounts>>
    \/ /\ which = "agents" /\ Bot!Next
       /\ UNCHANGED <<which, schedules, forms, goals, accounts>>
    \/ /\ which = "accounts" /\ Wa!Next
       /\ UNCHANGED <<which, schedules, forms, goals, agents>>

Spec == Init /\ [][Next]_vars

\* The fairness of each component, for the one that runs.
FairSpec ==
    /\ Spec
    /\ \A l \in Loops :
          WF_schedules(which = "schedules" /\ Cron!LoopStep(l))
    /\ \A c \in Cancellers :
          WF_schedules(which = "schedules" /\ Cron!CancelWrite(c))
    /\ \A r \in Reqs : WF_forms(which = "forms" /\ Form!ReqStep(r))
    /\ \A t \in 1..MaxTasks : WF_goals(which = "goals" /\ Goal!TaskStep(t))
    /\ \A c \in Callers : WF_goals(which = "goals" /\ Goal!Waited(c))

-------------------------------------------------------------------------------
\* The type invariants of the five modules.
TypeOK == /\ Cron!TypeOK /\ Form!TypeOK /\ Goal!TypeOK
          /\ Bot!TypeOK /\ Wa!TypeOK

\* A backlog of a schedule fires once, and no occurrence twice
\* (schedule_store.py:140-186).
BacklogCoalesces == Cron!BacklogCoalesces
\* A schedule that was reported cancelled is never claimed again
\* (schedule_store.py:116-133).
CancelHolds == Cron!CancelHolds
\* The claims and turns of Scheduler are those of OccurrenceLedger.
OccurrencesFireOnce == Cron!ImplementsLedger
\* A due schedule is claimed, or ends, in the end (scheduler.py:69-75).
DueIsClaimed == Cron!DueIsClaimed

\* What 'accepted' and 'conflict' say of the stored submission, and 'expired' of
\* the time (routes/artifacts.py:97-160).
AnswersAgree == Form!AnswersAgree
\* The submissions and turns of Artifacts are those of SubmissionLedger.
SubmissionsCountOnce == Form!ImplementsLedger
\* A stored submission resumes the agent (routes/artifacts.py:162-207).
SubmissionResumes == Form!SubmissionResumes

\* The newest task drives a browser run, and beside it only one whose
\* cancellation was lost (browser_goal_runner.py:156-202).
OneDriver == Goal!OneDriver
\* A paused run stays as it is, but for a task whose cancellation was lost
\* (browser_goal_runner.py:156-174, runtime/tools/playwright_cli.py:63-66).
PausedIsQuiet == Goal!PausedIsQuiet
\* A running browser run ends or is paused, unless its task breaks before its
\* try (browser_goal_runner.py:204-268).
RunEnds == Goal!RunEnds

\* One bastion; an active agent's token is its bot's, unless a call spoilt it
\* (bastion_seeder.py:21, tools/management/tools.py:171-190).
RowsHold == Bot!RowsHold
\* What is deleted or disabled was named in the message (confirm.py:12-19).
DestroyedWasNamed == Bot!DestroyedWasNamed

\* One connection per account, abandoned only after the delayed attempt
\* (connection.ts:105-134).
ConnectionHolds == Wa!ConnectionHolds
\* A stream misses nothing and gets nothing twice (server.ts:87-97).
StreamIsTail == Wa!StreamIsTail
\* The sidecar reconnects whatever happens, short of a logout or a stop
\* (connection.ts:26).
AutoReconnects == Wa!AutoReconnects
===============================================================================
