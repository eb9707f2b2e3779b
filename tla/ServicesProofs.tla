---------------------------- MODULE ServicesProofs -----------------------------
(***************************************************************************)
(* Theorems about Services: what is proved of a component holds of the     *)
(* services beside which it runs, for any values of the constants.         *)
(***************************************************************************)
EXTENDS Services, FiniteSetTheorems, SequenceTheorems, WellFoundedInduction,
        TLAPS

CronT == INSTANCE SchedulerProofs WITH
    Callers <- Cancellers, rows <- jobRows, crashes <- loopCrashes
FormT == INSTANCE ArtifactsProofs WITH status <- formStatus
GoalT == INSTANCE BrowserGoalProofs WITH
    MaxCalls <- MaxToolCalls, status <- runStatus

-------------------------------------------------------------------------------
(* A component proved about is the component that runs.                    *)

\* The scheduler and the proofs' instance of it have the same behaviours.
LEMMA CronSpec == Cron!Spec <=> CronT!Spec
<1>1. Cron!Init <=> CronT!Init
  BY DEF Cron!Init, CronT!Init, Cron!Row, CronT!Row, Cron!Asleep, CronT!Asleep,
         Cron!Tick, CronT!Tick, Cron!NoCall, CronT!NoCall
<1>2. [Cron!Next]_(Cron!vars) <=> [CronT!Next]_(CronT!vars)
  BY DEF Cron!Next, CronT!Next, Cron!vars, CronT!vars, Cron!table, CronT!table,
         Cron!history, CronT!history, Cron!CreateOneShot, CronT!CreateOneShot,
         Cron!CreateRecurring, CronT!CreateRecurring, Cron!Row, CronT!Row,
         Cron!CronRaises, CronT!CronRaises, Cron!NextCron, CronT!NextCron,
         Cron!CancelRead, CronT!CancelRead, Cron!CancelWrite,
         CronT!CancelWrite, Cron!NoCall, CronT!NoCall, Cron!LoopStep,
         CronT!LoopStep, Cron!ClaimSelect, CronT!ClaimSelect, Cron!Unlocked,
         CronT!Unlocked, Cron!Due, CronT!Due, Cron!Oldest, CronT!Oldest,
         Cron!Cardinality, CronT!Cardinality, Cron!Tick, CronT!Tick,
         Cron!ClaimCommit, CronT!ClaimCommit, Cron!Claim, CronT!Claim,
         Cron!Fires, CronT!Fires, Cron!WithinGrace, CronT!WithinGrace,
         Cron!Claimed, CronT!Claimed, Cron!Ordered, CronT!Ordered,
         Cron!Occurrence, CronT!Occurrence, Cron!EmitOutcomes,
         CronT!EmitOutcomes, Cron!Enqueue, CronT!Enqueue, Cron!TickEnds,
         CronT!TickEnds, Cron!Asleep, CronT!Asleep, Cron!Crash, CronT!Crash,
         Cron!Clock, CronT!Clock
<1> QED BY <1>1, <1>2, PTL DEF Cron!Spec, CronT!Spec

\* So are its artifacts and those of the proofs' instance ...
LEMMA FormSpec == Form!Spec <=> FormT!Spec
<1>1. Form!Init <=> FormT!Init
  BY DEF Form!Init, FormT!Init, Form!Request, FormT!Request, Form!Idle,
         FormT!Idle
<1>2. [Form!Next]_(Form!vars) <=> [FormT!Next]_(FormT!vars)
  BY DEF Form!Next, FormT!Next, Form!vars, FormT!vars, Form!form, FormT!form,
         Form!history, FormT!history, Form!Kinds, FormT!Kinds, Form!Create,
         FormT!Create, Form!TimePasses, FormT!TimePasses, Form!Load,
         FormT!Load, Form!Request, FormT!Request, Form!Idle, FormT!Idle,
         Form!AfterLoad, FormT!AfterLoad, Form!ReqStep, FormT!ReqStep,
         Form!Reload, FormT!Reload, Form!Expire, FormT!Expire, Form!Answer,
         FormT!Answer, Form!Payload, FormT!Payload, Form!Summarize,
         FormT!Summarize, Form!AcceptRead, FormT!AcceptRead,
         Form!AcceptExpired, FormT!AcceptExpired, Form!Existing,
         FormT!Existing, Form!Verdict, FormT!Verdict, Form!Insert,
         FormT!Insert, Form!Lost, FormT!Lost, Form!FollowUp, FormT!FollowUp,
         Form!After, FormT!After, Form!Enqueue, FormT!Enqueue,
         Form!FollowUpFails, FormT!FollowUpFails, Form!FaultAt, FormT!FaultAt,
         Form!Told, FormT!Told, Form!Goto, FormT!Goto, Form!Done, FormT!Done,
         Form!Crash, FormT!Crash
<1> QED BY <1>1, <1>2, PTL DEF Form!Spec, FormT!Spec

\* ... and its browser runs.
LEMMA GoalSpec == Goal!Spec <=> GoalT!Spec
<1>1. Goal!Init <=> GoalT!Init
  BY DEF Goal!Init, GoalT!Init, Goal!Tasks, GoalT!Tasks, Goal!Task, GoalT!Task,
         Goal!Free, GoalT!Free
<1>2. [Goal!Next]_(Goal!vars) <=> [GoalT!Next]_(GoalT!vars)
  BY DEF Goal!Next, GoalT!Next, Goal!vars, GoalT!vars, Goal!run, GoalT!run,
         Goal!Tasks, GoalT!Tasks, Goal!Task, GoalT!Task, Goal!Free, GoalT!Free,
         Goal!Alive, GoalT!Alive, Goal!Awaits, GoalT!Awaits, Goal!At, GoalT!At,
         Goal!Goto, GoalT!Goto, Goal!Onward, GoalT!Onward, Goal!Breaks,
         GoalT!Breaks, Goal!Finish, GoalT!Finish, Goal!Head,
         GoalT!Head, Goal!TaskStep, GoalT!TaskStep, Goal!Begin, GoalT!Begin,
         Goal!Opened, GoalT!Opened, Goal!Napped, GoalT!Napped, Goal!AskFails,
         GoalT!AskFails, Goal!AskFinal, GoalT!AskFinal, Goal!AskTools,
         GoalT!AskTools, Goal!Tool, GoalT!Tool, Goal!CancelLands,
         GoalT!CancelLands, Goal!CancelHandled, GoalT!CancelHandled,
         Goal!Closed, GoalT!Closed, Goal!Start, GoalT!Start, Goal!NewTask,
         GoalT!NewTask, Goal!Steer, GoalT!Steer, Goal!Resume, GoalT!Resume,
         Goal!Shutdown, GoalT!Shutdown, Goal!Pause, GoalT!Pause, Goal!Stop,
         GoalT!Stop, Goal!CancelTask, GoalT!CancelTask, Goal!Waited,
         GoalT!Waited
<1> QED BY <1>1, <1>2, PTL DEF Goal!Spec, GoalT!Spec

\* The services run each component.
LEMMA RunsComponents == Spec => Cron!Spec /\ Form!Spec /\ Goal!Spec
<1>1. Init => Cron!Init /\ Form!Init /\ Goal!Init
  BY DEF Init
<1>2. [Next]_vars => [Cron!Next]_(Cron!vars)
  BY DEF Next, vars, schedules, Cron!vars
<1>3. [Next]_vars => [Form!Next]_(Form!vars)
  BY DEF Next, vars, forms, Form!vars
<1>4. [Next]_vars => [Goal!Next]_(Goal!vars)
  BY DEF Next, vars, goals, Goal!vars
<1> QED BY <1>1, <1>2, <1>3, <1>4, PTL
        DEF Spec, Cron!Spec, Form!Spec, Goal!Spec

-------------------------------------------------------------------------------
(* The scheduler.                                                          *)

\* The assumptions of the component proofs, and how the assumptions here
\* give them.
LEMMA CronParameters == CronT!Parameters
BY SchedulerParameters
   DEF SchedulerParameters, CronT!Parameters, IsFiniteSet, CronT!IsFiniteSet

\* A backlog of a schedule fires once, whatever processes run the loop.
THEOREM BacklogFiresOnce == Spec => []BacklogCoalesces
<1>1. CronT!Spec => []CronT!BacklogCoalesces
  BY CronT!BacklogFiresOnce, CronParameters
<1>2. CronT!BacklogCoalesces => BacklogCoalesces
  BY DEF BacklogCoalesces, Cron!BacklogCoalesces, CronT!BacklogCoalesces
<1> QED BY <1>1, <1>2, RunsComponents, CronSpec, PTL

\* No occurrence of a schedule becomes a second turn.
THEOREM OneTurnPerOccurrence ==
    Spec => [](\A i, k \in DOMAIN queued : queued[i] = queued[k] => i = k)
<1>1. CronT!Spec => []CronT!TurnsOnce
  BY CronT!OneTurnPerOccurrence, CronParameters
<1>2. CronT!TurnsOnce =>
          \A i, k \in DOMAIN queued : queued[i] = queued[k] => i = k
  BY DEF CronT!TurnsOnce
<1> QED BY <1>1, <1>2, RunsComponents, CronSpec, PTL

\* A schedule that was reported cancelled is never claimed again.
THEOREM CancelledStaysUnclaimed == Spec => CancelHolds
<1>1. CronT!Spec => CronT!CancelHolds
  BY CronT!CancelledStaysUnclaimed, CronParameters
<1>2. CronT!CancelHolds => CancelHolds
  BY DEF CancelHolds, Cron!CancelHolds, CronT!CancelHolds, Cron!vars,
         CronT!vars
<1> QED BY <1>1, <1>2, RunsComponents, CronSpec, PTL

\* Each occurrence becomes one turn at most.
THEOREM OccurrencesSpentOnce == Spec => OccurrencesFireOnce
<1>1. CronT!Spec => CronT!ImplementsLedger
  BY CronT!OccurrenceLedgerImplemented, CronParameters
<1>2. CronT!ImplementsLedger => OccurrencesFireOnce
  BY DEF OccurrencesFireOnce, Cron!ImplementsLedger, CronT!ImplementsLedger,
         Cron!Ledger!Spec, CronT!Ledger!Spec, Cron!Ledger!Init,
         CronT!Ledger!Init, Cron!Ledger!Next, CronT!Ledger!Next,
         Cron!Ledger!Spend, CronT!Ledger!Spend, Cron!Ledger!Turn,
         CronT!Ledger!Turn, Cron!Ledger!Drop, CronT!Ledger!Drop,
         Cron!Ledger!vars, CronT!Ledger!vars, Cron!Occurrence,
         CronT!Occurrence, Cron!Ledger!Occurrences, CronT!Ledger!Occurrences
<1> QED BY <1>1, <1>2, RunsComponents, CronSpec, PTL

-------------------------------------------------------------------------------
(* The artifacts.                                                          *)

\* ... of the artifacts
LEMMA FormParameters == FormT!Parameters
BY ArtifactsParameters DEF ArtifactsParameters, FormT!Parameters

\* Who was told that a submission counts has the stored one, who was told of a
\* conflict has not, and nobody was told of an expiry before it was due.
THEOREM VisitorsToldTheTruth == Spec => []AnswersAgree
<1>1. FormT!Spec => []FormT!AnswersAgree
  BY FormT!VisitorsToldTheTruth, FormParameters
<1>2. FormT!AnswersAgree => AnswersAgree
  BY DEF AnswersAgree, Form!AnswersAgree, FormT!AnswersAgree
<1> QED BY <1>1, <1>2, RunsComponents, FormSpec, PTL

\* One submission wins, for good, and its turn is enqueued once.
THEOREM SubmissionsWinOnce == Spec => SubmissionsCountOnce
<1>1. FormT!Spec => FormT!ImplementsLedger
  BY FormT!SubmissionLedgerImplemented, FormParameters
<1>2. FormT!ImplementsLedger => SubmissionsCountOnce
  BY DEF SubmissionsCountOnce, Form!ImplementsLedger, FormT!ImplementsLedger,
         Form!Ledger!Spec, FormT!Ledger!Spec, Form!Ledger!Init,
         FormT!Ledger!Init, Form!Ledger!Next, FormT!Ledger!Next,
         Form!Ledger!Win, FormT!Ledger!Win, Form!Ledger!Resume,
         FormT!Ledger!Resume, Form!Ledger!vars, FormT!Ledger!vars
<1> QED BY <1>1, <1>2, RunsComponents, FormSpec, PTL

-------------------------------------------------------------------------------
(* The browser runs.                                                       *)

\* ... and of the browser runs.
LEMMA GoalBounds == GoalT!Bounds
BY BrowserGoalParameters DEF BrowserGoalParameters, GoalT!Bounds

\* However pauses, resumes and stops overlap, the newest task drives the run,
\* and beside it only a task whose cancellation was lost.
THEOREM RunHasOneDriver == Spec => []OneDriver
<1>1. GoalT!Spec => []GoalT!OneDriver
  BY GoalT!RunHasOneDriver, GoalBounds
<1>2. GoalT!OneDriver => OneDriver
  BY DEF OneDriver, Goal!OneDriver, GoalT!OneDriver, Goal!Drives,
         GoalT!Drives, Goal!Tasks, GoalT!Tasks, Goal!Alive, GoalT!Alive,
         Goal!Awaits, GoalT!Awaits
<1> QED BY <1>1, <1>2, RunsComponents, GoalSpec, PTL

\* A paused run stays as it is until it is resumed or stopped, but for a task
\* whose cancellation was lost and what it still does.
THEOREM PausedRunIsQuiet == Spec => PausedIsQuiet
<1>1. GoalT!Spec => GoalT!PausedIsQuiet
  BY GoalT!PausedRunIsQuiet, GoalBounds
<1>2. GoalT!PausedIsQuiet => PausedIsQuiet
  BY DEF PausedIsQuiet, Goal!PausedIsQuiet, GoalT!PausedIsQuiet, Goal!vars,
         GoalT!vars, Goal!UndisturbedPause, GoalT!UndisturbedPause,
         Goal!Tasks, GoalT!Tasks
<1> QED BY <1>1, <1>2, RunsComponents, GoalSpec, PTL

-------------------------------------------------------------------------------
(* The connections of the accounts.                                        *)

\* An account's connection is at one step, or nowhere.
At(k) == [Wa!Idle EXCEPT ![k] = 1]
Connected ==
    /\ work \in [Accounts -> {Wa!Idle} \cup {At(k) : k \in Wa!Steps}]
    /\ accountStatus \in [Accounts -> {"connecting", "pairing", "open",
                                       "close"}]
    /\ fails \in [Accounts -> 0..2]

\* How many attempts failed since the last socket follows from the step; an
\* account is nowhere at all for want of a first attempt, or after the second.
FailsAt(a) ==
    /\ work[a] \in {At("first"), At("socket"), At("open")} => fails[a] = 0
    /\ work[a] \in {At("timer"), At("retry")} => fails[a] = 1
    /\ work[a] = At("start") => accountStatus[a] = "connecting"
    /\ (work[a] = Wa!Idle /\ accountStatus[a] = "close" /\ ~stopped
        /\ a \notin loggedOut) => fails[a] = 2

WaInv == Connected /\ \A a \in Accounts : FailsAt(a)

\* The steps are told apart.
LEMMA AtIsOne ==
  ASSUME NEW k \in Wa!Steps
  PROVE  /\ At(k) # Wa!Idle /\ At(k)[k] = 1
         /\ \A j \in Wa!Steps \ {k} : At(k)[j] = 0 /\ At(j) # At(k)
         /\ Wa!Idle[k] = 0
         /\ [At(k) EXCEPT ![k] = @ - 1] = Wa!Idle
         /\ \A j \in Wa!Steps \ {k} :
               [At(k) EXCEPT ![k] = @ - 1, ![j] = @ + 1] = At(j)
BY DEF At, Wa!Idle

\* A move takes the one connection from one step to another, or away.
LEMMA MoveIsOne ==
  ASSUME WaInv, NEW a \in Accounts, NEW k \in Wa!Steps,
         NEW j \in Wa!Steps \ {k}
  PROVE  /\ work[a][k] > 0 => work[a] = At(k)
         /\ Wa!Move(a, k, j) => work' = [work EXCEPT ![a] = At(j)]
         /\ Wa!Drop(a, k) => work' = [work EXCEPT ![a] = Wa!Idle]
<1>1. work[a] \in {Wa!Idle} \cup {At(i) : i \in Wa!Steps}
  BY DEF WaInv, Connected
<1>2. ASSUME work[a][k] > 0 PROVE work[a] = At(k)
  BY <1>1, <1>2, AtIsOne
<1>3. ASSUME Wa!Move(a, k, j) PROVE work' = [work EXCEPT ![a] = At(j)]
  BY <1>2, <1>3, AtIsOne DEF Wa!Move, WaInv, Connected
<1>4. ASSUME Wa!Drop(a, k) PROVE work' = [work EXCEPT ![a] = Wa!Idle]
  BY <1>2, <1>4, AtIsOne DEF Wa!Drop, WaInv, Connected
<1> QED BY <1>2, <1>3, <1>4

\* At the start each account has its first attempt to make.
LEMMA InitWaInv == Wa!Init => WaInv
<1> SUFFICES ASSUME Wa!Init PROVE WaInv
  OBVIOUS
<1>1. "start" \in Wa!Steps /\ [Wa!Idle EXCEPT !.start = 1] = At("start")
  BY DEF Wa!Steps, Wa!Attempts, At
<1> QED BY <1>1, AtIsOne
        DEF Wa!Init, WaInv, Connected, FailsAt, Wa!Steps, Wa!Attempts

\* One step per operation of a connection; the bus and its streams do not
\* touch it.
LEMMA WaStep == WaInv /\ [Wa!Next]_(Wa!vars) => WaInv'
<1> SUFFICES ASSUME WaInv, [Wa!Next]_(Wa!vars) PROVE WaInv'
  OBVIOUS
<1> USE DEF WaInv, Connected
<1>0. /\ {"start", "first", "retry", "timer", "socket", "open"} = Wa!Steps
      /\ \A k \in Wa!Steps : At(k) # Wa!Idle
      /\ \A k \in Wa!Steps : \A j \in Wa!Steps \ {k} : At(j) # At(k)
  BY AtIsOne DEF Wa!Steps, Wa!Attempts
<1>1. ASSUME NEW a \in Accounts, NEW k \in Wa!Attempts, Wa!Connect(a, k)
      PROVE  WaInv'
  <2>1. work' = [work EXCEPT ![a] = At("socket")]
    BY <1>0, <1>1, MoveIsOne DEF Wa!Connect, Wa!Attempts
  <2> QED BY <1>0, <1>1, <2>1 DEF Wa!Connect, FailsAt
<1>2. ASSUME NEW a \in Accounts, NEW k \in Wa!Attempts, Wa!ConnectFails(a, k)
      PROVE  WaInv'
  <2>1. /\ work[a] = At(k) /\ k \in {"start", "first", "retry"}
        /\ work' = [work EXCEPT ![a] = IF k = "first" THEN At("timer")
                                                      ELSE Wa!Idle]
    BY ZenonT(40), <1>0, <1>2, MoveIsOne DEF Wa!ConnectFails, Wa!AfterFailure,
       Wa!Attempts, Wa!Move, Wa!Drop
  <2> QED BY <1>0, <1>2, <2>1 DEF Wa!ConnectFails, FailsAt
<1>3. ASSUME NEW a \in Accounts, Wa!Retry(a) PROVE WaInv'
  <2>1. /\ work[a] = At("timer")
        /\ work' = [work EXCEPT ![a] = At("retry")]
    BY <1>0, <1>3, MoveIsOne DEF Wa!Retry, Wa!Move
  <2> QED BY <1>0, <1>3, <2>1 DEF Wa!Retry, FailsAt
<1>4. ASSUME NEW a \in Accounts, Wa!Pair(a) PROVE WaInv'
  <2>1. work[a] = At("socket")
    BY <1>0, <1>4, MoveIsOne DEF Wa!Pair
  <2> QED BY <1>0, <1>4, <2>1 DEF Wa!Pair, FailsAt
<1>5. ASSUME NEW a \in Accounts, Wa!Open(a) PROVE WaInv'
  <2>1. /\ work[a] = At("socket")
        /\ work' = [work EXCEPT ![a] = At("open")]
    BY <1>0, <1>5, MoveIsOne DEF Wa!Open, Wa!Move
  <2> QED BY <1>0, <1>5, <2>1 DEF Wa!Open, FailsAt
<1>6. ASSUME NEW a \in Accounts, NEW k \in {"socket", "open"},
             NEW out \in BOOLEAN, Wa!Close(a, k, out)
      PROVE  WaInv'
  <2>1. /\ work[a] = At(k)
        /\ work' = [work EXCEPT ![a] = IF stopped \/ out THEN Wa!Idle
                                                         ELSE At("first")]
    <3>1. k \in Wa!Steps /\ "first" \in Wa!Steps \ {k}
      BY <1>0, <1>6
    <3>2. CASE stopped \/ out
      BY <1>6, <3>1, <3>2, MoveIsOne DEF Wa!Close, Wa!AfterClose, Wa!Drop
    <3>3. CASE ~(stopped \/ out)
      BY <1>6, <3>1, <3>3, MoveIsOne DEF Wa!Close, Wa!AfterClose, Wa!Move
    <3> QED BY <3>2, <3>3
  <2> QED BY <1>0, <1>6, <2>1 DEF Wa!Close, FailsAt
<1>7. ASSUME UNCHANGED <<work, accountStatus, fails, loggedOut>>,
             stopped => stopped'
      PROVE  WaInv'
  BY <1>7 DEF FailsAt
<1>8. ASSUME NEW a \in Accounts, Wa!Publish(a) PROVE WaInv'
  BY <1>7, <1>8 DEF Wa!Publish
<1>9. CASE \/ Wa!Stop \/ \E s \in Streams : Wa!Unsubscribe(s)
         \/ \E s \in Streams, a \in Accounts \cup {All}, n \in Lasts :
               Wa!Subscribe(s, a, n)
  BY <1>7, <1>9 DEF Wa!Stop, Wa!Subscribe, Wa!Unsubscribe
<1>10. CASE UNCHANGED Wa!vars
  BY <1>7, <1>10 DEF Wa!vars
<1> QED BY <1>1, <1>2, <1>3, <1>4, <1>5, <1>6, <1>8, <1>9, <1>10
        DEF Wa!Next

\* However closes, failing attempts, the timer and a stop interleave, an
\* account has one connection, and none only when it may be given up.
THEOREM ConnectionsHold == Spec => []ConnectionHolds
<1>1. Init => Wa!Init
  BY DEF Init
<1>2. [Next]_vars => [Wa!Next]_(Wa!vars)
  BY DEF Next, vars, accounts, Wa!vars
<1>3. ASSUME WaInv PROVE ConnectionHolds
  <2>1. ASSUME NEW a \in Accounts, NEW k \in Wa!Steps, work[a][k] > 0
        PROVE  work[a] = At(k)
    <3>1. PICK j \in Wa!Steps : j # k
      BY DEF Wa!Steps
    <3> QED BY <1>3, <2>1, <3>1, MoveIsOne
  <2>2. Wa!OneConnection
    BY <2>1 DEF Wa!OneConnection, At
  <2>3. Wa!GivesUpLate
    BY <1>3 DEF WaInv, FailsAt, Wa!GivesUpLate, Wa!Abandoned
  <2> QED BY <2>2, <2>3 DEF ConnectionHolds, Wa!ConnectionHolds
<1> QED BY <1>1, <1>2, <1>3, InitWaInv, WaStep, PTL DEF Spec

-------------------------------------------------------------------------------
(* The agents' rows.                                                       *)

AgentRows == [id : Nat \ {0}, bot : Bot!Bots, token : Bot!Bots,
              status : {"active", "awaiting_token"}, enabled : BOOLEAN,
              is_bastion : BOOLEAN]
AgentCalls == [op : {"none", "delete", "enable", "disable", "provision",
                     "attach", "tool", "route", "seed"},
               at : {"idle", "provision", "insert", "load", "commit", "act"},
               name : Bot!AllNames \cup {None}, id : Nat, bot : Bot!Bots,
               token : Bot!Bots, was : Bot!Bots, seen : AgentRows \cup {None},
               says : Bot!AllNames \cup {None}]

BotTypes ==
    /\ row \in [Bot!AllNames -> AgentRows \cup {None}]
    /\ call \in [Callers -> AgentCalls]
    /\ bots \in 0..MaxBots /\ rows \in 0..MaxRows

\* An id is that of one row, for good.
IdsAreOwn ==
    /\ \A n \in Bot!Live : row[n].id <= rows
    /\ \A n, m \in Bot!Live : row[n].id = row[m].id => n = m
    /\ \A c \in Callers :
          /\ call[c].id <= rows
          /\ call[c].id # 0 => \A n \in Bot!Live :
                row[n].id = call[c].id => n = call[c].name

\* A call is at a step of its tool, with what that step needs.
Sound(k) ==
    /\ k.at = "idle" => k.id = 0 /\ k.op = "none"
    /\ k.at = "provision" => /\ k.op \in {"provision", "tool", "route"}
                             /\ k.name \in Bot!AllNames
                             /\ k.op # "provision" => k.id = 0
    /\ k.at = "insert" => /\ k.name \in Bot!AllNames /\ k.id = 0
                          /\ k.token \in {0, k.bot}
    /\ k.at \in {"load", "commit"} =>
          /\ k.name \in Bot!AllNames
          /\ \/ k.op = "attach" /\ k.token # 0
             \/ k.op = "provision" /\ k.bot # 0 /\ k.token \in {0, k.bot}
             \/ k.op = "seed" /\ k.bot # 0 /\ k.token = k.bot
    /\ k.at = "commit" => k.seen \in AgentRows
    /\ k.at = "act" => /\ k.name \in Bot!AllNames
                       /\ k.op \in {"delete", "disable"} =>
                             <<k.name, k.says>> \in Within

CallsAreSound == \A c \in Callers : Sound(call[c])

\* Without two seeders at an empty table there is one bastion, or one seeder
\* about to insert it.
Seeding == {c \in Callers : call[c].op = "seed" /\ call[c].at = "insert"}
Bastioned == {n \in Bot!Live : row[n].is_bastion}
OneSeed ==
    \/ 0 \in spoilt
    \/ /\ \A n, m \in Bastioned : n = m
       /\ \A c, d \in Seeding : c = d
       /\ Seeding = {} \/ Bastioned = {}

BotInv ==
    /\ BotTypes /\ IdsAreOwn /\ CallsAreSound /\ OneSeed /\ Bot!TokenOfBot

\* The bots are numbered; 0 is no bot, and the configured one comes last.
LEMMA BotNumbers ==
  /\ 0 \in Bot!Bots /\ Bot!ConfigBot \in Bot!Bots \ {0}
  /\ 0 \in 0..MaxBots /\ 0 \in 0..MaxRows /\ 0..MaxBots \subseteq Nat
  /\ \A b \in 0..MaxBots : b < MaxBots =>
        b + 1 \in 0..MaxBots /\ b + 1 \in Bot!Bots /\ b + 1 # 0
BY ManagementParameters DEF ManagementParameters, Bot!Bots, Bot!ConfigBot

\* No agent, no call.
LEMMA InitBotInv == Bot!Init => BotInv
BY BotNumbers
   DEF Bot!Init, Bot!Idle, BotInv, BotTypes, AgentCalls, IdsAreOwn, Sound,
       CallsAreSound, Seeding, Bastioned, OneSeed, Bot!TokenOfBot, Bot!Live

\* What an entry needs of the table and of the other calls.
Fits(c, k, known) ==
    /\ k \in AgentCalls /\ Sound(k)
    /\ k.id <= rows
    /\ k.id # 0 => \A n \in Bot!Live : row[n].id = k.id => n = k.name
    /\ (k.op = "seed" /\ k.at = "insert" /\ 0 \notin known) =>
          Bastioned = {} /\ Seeding \subseteq {c}

\* A step that only moves a call, to one that fits, keeps the invariant.
LEMMA CallMoves ==
  ASSUME BotInv, NEW c \in Callers, NEW k,
         call' = [call EXCEPT ![c] = k], row' = row, rows' = rows,
         bots' \in 0..MaxBots, spoilt \subseteq spoilt',
         Fits(c, k, spoilt')
  PROVE  BotInv'
<1> USE DEF BotInv, BotTypes, Fits
<1>1. /\ call' \in [Callers -> AgentCalls]
      /\ call'[c] = k /\ \A d \in Callers \ {c} : call'[d] = call[d]
  OBVIOUS
<1>2. Bot!Live' = Bot!Live
  BY DEF Bot!Live
<1>3. IdsAreOwn'
  BY <1>1, <1>2 DEF IdsAreOwn
<1>4. CallsAreSound'
  BY <1>1 DEF CallsAreSound, Sound
<1>5. OneSeed'
  <2>1. Bastioned' = Bastioned
    BY <1>2 DEF Bastioned
  <2>2. CASE 0 \in spoilt'
    BY <2>2 DEF OneSeed
  <2>3. CASE 0 \notin spoilt'
    <3>1. Seeding' \subseteq Seeding \cup {c}
      BY <1>1 DEF Seeding
    <3>2. c \in Seeding' => Bastioned = {} /\ Seeding \subseteq {c}
      BY <1>1, <2>3 DEF Seeding
    <3> QED BY <2>1, <2>3, <3>1, <3>2 DEF OneSeed
  <2> QED BY <2>2, <2>3
<1>6. Bot!TokenOfBot'
  BY <1>2 DEF Bot!TokenOfBot
<1> QED BY <1>1, <1>3, <1>4, <1>5, <1>6

\* A step that rewrites one row, into one that is spoilt or has its bot's token,
\* or that deletes one keeps the invariant.
LEMMA RowMoves ==
  ASSUME BotInv, NEW n \in Bot!Live, NEW r \in AgentRows \cup {None},
         row' = [row EXCEPT ![n] = r], rows' = rows, bots' = bots,
         spoilt \subseteq spoilt', call' \in [Callers -> AgentCalls],
         \A d \in Callers : call'[d] \in {call[d], Bot!Idle},
         r # None => /\ r.id = row[n].id /\ r.is_bastion = row[n].is_bastion
                     /\ (r.status = "active" /\ r.token # 0
                         /\ r.id \notin spoilt') => r.token = r.bot
  PROVE  BotInv'
<1> USE DEF BotInv, BotTypes
<1>1. Bot!Idle.id = 0 /\ Bot!Idle.at = "idle" /\ Bot!Idle.op = "none"
  BY DEF Bot!Idle
<1>2. /\ n \in Bot!AllNames /\ row[n] \in AgentRows
      /\ row' \in [Bot!AllNames -> AgentRows \cup {None}]
      /\ Bot!Live' \subseteq Bot!Live
      /\ \A m \in Bot!Live' : row'[m].id = row[m].id
      /\ \A m \in Bot!Live' : row'[m].is_bastion = row[m].is_bastion
      /\ \A m \in Bot!Live' \ {n} : row'[m] = row[m]
      /\ row'[n] = r
  BY DEF Bot!Live
<1>3. IdsAreOwn'
  BY <1>1, <1>2 DEF IdsAreOwn
<1>4. CallsAreSound'
  BY <1>1 DEF CallsAreSound, Sound
<1>5. OneSeed'
  <2>1. Bastioned' \subseteq Bastioned
    BY <1>2 DEF Bastioned
  <2>2. Seeding' \subseteq Seeding
    BY <1>1 DEF Seeding
  <2> QED BY <2>1, <2>2 DEF OneSeed
<1>6. Bot!TokenOfBot'
  BY <1>2 DEF Bot!TokenOfBot, Bot!Live
<1> QED BY <1>2, <1>3, <1>4, <1>5, <1>6

\* A tool resolves its agent by name.
LEMMA BeginKeeps ==
  ASSUME BotInv, NEW c \in Callers, NEW q, NEW message \in Bot!AllNames,
         NEW op \in {"delete", "enable", "disable", "provision", "attach"},
         Bot!Begin(c, op, q, message)
  PROVE  BotInv'
<1>1. PICK n \in Bot!ResolveOne(q), given \in Bot!Given(op) :
         /\ op \in {"delete", "disable"} => Bot!Confirmed(message, q, n)
         /\ Bot!Step(c, [op |-> op, name |-> n, id |-> row[n].id,
                  bot |-> given[1], token |-> given[2], was |-> row[n].bot,
                  at |-> CASE op = "provision" -> "provision"
                           [] op = "attach" -> "load"
                           [] OTHER -> "act",
                  seen |-> None, says |-> message])
  BY DEF Bot!Begin
<1> DEFINE k == [op |-> op, name |-> n, id |-> row[n].id,
                 bot |-> given[1], token |-> given[2], was |-> row[n].bot,
                 at |-> CASE op = "provision" -> "provision"
                          [] op = "attach" -> "load"
                          [] OTHER -> "act",
                 seen |-> None, says |-> message]
<1>2. /\ n \in Bot!Live /\ n \in Bot!AllNames
      /\ row[n] \in AgentRows /\ row[n].id <= rows
      /\ \A m \in Bot!Live : row[m].id = row[n].id => m = n
  BY DEF Bot!ResolveOne, Bot!Live, BotInv, BotTypes, IdsAreOwn
<1>3. call' = [call EXCEPT ![c] = k]
  BY <1>1 DEF Bot!Step
<1>4. /\ given[1] \in Bot!Bots /\ given[2] \in Bot!Bots
      /\ op = "attach" => given[2] # 0
  <2>1. bots \in 0..MaxBots /\ MaxBots \in Nat
    BY ManagementParameters DEF BotInv, BotTypes, ManagementParameters
  <2>2. 1..bots \subseteq 0..MaxBots + 1 /\ 0 \notin 1..bots
    BY <2>1
  <2>3. Bot!Made \subseteq Bot!Bots \ {0} /\ 0 \in Bot!Bots
    BY <2>2, BotNumbers DEF Bot!Made, Bot!Bots, Bot!ConfigBot
  <2>4. CASE op = "attach"
    <3>1. given \in ({0} \cup Bot!Made) \X Bot!Made
      BY <2>4 DEF Bot!Given
    <3> QED BY <2>3, <3>1
  <2>5. CASE op # "attach"
    BY <2>3, <2>5 DEF Bot!Given
  <2> QED BY <2>4, <2>5
<1>5. k \in AgentCalls
  BY <1>2, <1>4, BotNumbers DEF AgentCalls, AgentRows
<1>6. op \in {"delete", "disable"} => <<n, message>> \in Within
  BY <1>1 DEF Bot!Confirmed
<1>7. Sound(k)
  BY <1>2, <1>4, <1>6 DEF Sound
<1>8. Fits(c, k, spoilt')
  BY <1>2, <1>5, <1>7 DEF Fits
<1>9. UNCHANGED <<row, bots, rows, spoilt>>
  BY DEF Bot!Begin
<1> HIDE DEF k
<1> QED BY <1>3, <1>8, <1>9, CallMoves DEF BotInv, BotTypes

\* A call that waits for Zulip, or has found no bastion, has no row yet.
LEMMA CreateKeeps ==
  ASSUME BotInv, NEW c \in Callers, NEW op \in {"tool", "route"},
         NEW n \in Names, Bot!Create(c, op, n)
  PROVE  BotInv'
<1>1. PICK k : /\ call' = [call EXCEPT ![c] = k]
               /\ k \in {[Bot!Idle EXCEPT !.op = op, !.at = "insert",
                            !.name = n, !.bot = bots + 1, !.token = bots + 1],
                         [Bot!Idle EXCEPT !.op = op, !.at = "provision",
                            !.name = n]}
  BY DEF Bot!Create, Bot!Step
<1>2. bots' \in 0..MaxBots /\ UNCHANGED <<row, rows, spoilt>>
  BY BotNumbers DEF Bot!Create, BotInv, BotTypes
<1>3. /\ k \in AgentCalls /\ k.id = 0 /\ k.name \in Bot!AllNames
      /\ k.at \in {"insert", "provision"} /\ k.op = op
      /\ k.bot = k.token
  <2>1. bots + 1 \in Bot!Bots /\ 0 \in Bot!Bots /\ n \in Bot!AllNames
    BY BotNumbers DEF Bot!Create, BotInv, BotTypes, Bot!AllNames
  <2>2. CASE k = [Bot!Idle EXCEPT !.op = op, !.at = "insert", !.name = n,
                                  !.bot = bots + 1, !.token = bots + 1]
    BY <2>1, <2>2 DEF AgentCalls, Bot!Idle
  <2>3. CASE k = [Bot!Idle EXCEPT !.op = op, !.at = "provision", !.name = n]
    BY <2>1, <2>3 DEF AgentCalls, Bot!Idle
  <2> QED BY <1>1, <2>2, <2>3
<1>4. Fits(c, k, spoilt')
  BY <1>3 DEF Fits, Sound, BotInv, BotTypes
<1> QED BY <1>1, <1>2, <1>4, CallMoves

\* A call that is over fits anywhere.
LEMMA IdleFits == ASSUME BotInv, NEW c PROVE Fits(c, Bot!Idle, spoilt)
BY BotNumbers DEF Fits, Sound, AgentCalls, Bot!Idle, BotInv, BotTypes

\* Zulip hands out a bot that is new.
LEMMA ProvisionKeeps ==
  ASSUME BotInv, NEW c \in Callers,
         Bot!Provision(c) \/ Bot!ProvisionFails(c)
  PROVE  BotInv'
<1>1. /\ bots' \in 0..MaxBots /\ UNCHANGED <<row, rows, spoilt>>
      /\ call[c].at = "provision"
  BY BotNumbers DEF Bot!Provision, Bot!ProvisionFails, BotInv, BotTypes
<1>2. CASE call' = [call EXCEPT ![c] = Bot!Idle]
  BY <1>1, <1>2, IdleFits, CallMoves
<1>3. CASE /\ bots < MaxBots
           /\ \E captured \in {0, bots + 1} :
                call' = [call EXCEPT ![c] = [call[c] EXCEPT
                  !.at = IF call[c].op = "provision" THEN "load" ELSE "insert",
                  !.bot = bots + 1, !.token = captured]]
  <2>1. PICK captured \in {0, bots + 1} :
        call' = [call EXCEPT ![c] = [call[c] EXCEPT
          !.at = IF call[c].op = "provision" THEN "load" ELSE "insert",
          !.bot = bots + 1, !.token = captured]]
    BY <1>3
  <2> DEFINE k == [call[c] EXCEPT
          !.at = IF call[c].op = "provision" THEN "load" ELSE "insert",
          !.bot = bots + 1, !.token = captured]
  <2>2. /\ call[c] \in AgentCalls /\ bots \in Nat
        /\ bots + 1 \in Bot!Bots /\ captured \in Bot!Bots
    BY <1>3, <2>1, BotNumbers DEF BotInv, BotTypes
  <2>3. Sound(call[c])
    BY DEF BotInv, CallsAreSound
  <2>4. /\ k \in AgentCalls /\ k.id = call[c].id /\ k.name = call[c].name
        /\ k.op = call[c].op /\ k.bot = bots + 1 /\ k.token \in {0, bots + 1}
        /\ k.at = IF call[c].op = "provision" THEN "load" ELSE "insert"
    <3> DEFINE next == IF call[c].op = "provision" THEN "load" ELSE "insert"
    <3>1. next \in {"load", "insert"} /\ captured \in Bot!Bots
      BY <2>2
    <3>2. k = [call[c] EXCEPT !.at = next, !.bot = bots + 1, !.token = captured]
      OBVIOUS
    <3> HIDE DEF next, k
    <3>3. /\ k \in AgentCalls /\ k.id = call[c].id /\ k.name = call[c].name
          /\ k.op = call[c].op /\ k.bot = bots + 1 /\ k.token = captured
          /\ k.at = next
      BY <2>2, <3>1, <3>2 DEF AgentCalls
    <3> QED BY <3>3 DEF next
  <2>5. Sound(k)
    BY <1>1, <2>2, <2>3, <2>4 DEF Sound
  <2>6. Fits(c, k, spoilt')
    BY <1>1, <2>3, <2>4, <2>5 DEF Fits, BotInv, IdsAreOwn, Sound
  <2> HIDE DEF k
  <2> QED BY <1>1, <2>1, <2>6, CallMoves DEF k
<1>4. CASE Bot!Provision(c) /\ ~Bot!End(c)
  <2>1. PICK captured \in IF call[c].op = "route" THEN {0} ELSE {0, bots + 1} :
        call' = [call EXCEPT ![c] = [call[c] EXCEPT
          !.at = IF call[c].op = "provision" THEN "load" ELSE "insert",
          !.bot = bots + 1, !.token = captured]]
    BY <1>4 DEF Bot!Provision, Bot!Step
  <2>2. captured \in {0, bots + 1} /\ bots < MaxBots
    BY <1>4, <2>1 DEF Bot!Provision
  <2> QED BY <1>3, <2>1, <2>2
<1> QED BY <1>2, <1>4 DEF Bot!Provision, Bot!ProvisionFails, Bot!End, Bot!Step

\* An update reads the row it will write.
LEMMA LoadKeeps ==
  ASSUME BotInv, NEW c \in Callers, Bot!Load(c) PROVE BotInv'
<1> DEFINE k == [call[c] EXCEPT !.at = "commit", !.seen = row[call[c].name]]
<1>1. /\ UNCHANGED <<row, bots, rows, spoilt>> /\ bots \in 0..MaxBots
      /\ call[c].at = "load"
  BY DEF Bot!Load, BotInv, BotTypes
<1>2. CASE call' = [call EXCEPT ![c] = Bot!Idle]
  BY <1>1, <1>2, IdleFits, CallMoves
<1>3. CASE /\ Bot!Is(call[c].name, call[c].id)
           /\ call' = [call EXCEPT ![c] = k]
  <2>1. call[c] \in AgentCalls /\ Sound(call[c])
    BY DEF BotInv, BotTypes, CallsAreSound
  <2>2. row[call[c].name] \in AgentRows
    BY <1>1, <1>3, <2>1 DEF BotInv, BotTypes, Sound, Bot!Is
  <2>3. /\ k \in AgentCalls /\ k.id = call[c].id /\ k.name = call[c].name
        /\ k.op = call[c].op /\ k.bot = call[c].bot /\ k.token = call[c].token
        /\ k.at = "commit" /\ k.seen = row[k.name]
    BY <2>1, <2>2 DEF AgentCalls
  <2>4. Sound(k)
    BY <1>1, <2>1, <2>2, <2>3 DEF Sound
  <2>5. Fits(c, k, spoilt')
    BY <1>1, <2>1, <2>3, <2>4 DEF Fits, BotInv, IdsAreOwn
  <2> HIDE DEF k
  <2> QED BY <1>1, <1>3, <2>5, CallMoves
<1> QED BY <1>2, <1>3 DEF Bot!Load, Bot!End, Bot!Step

\* The seeder finds a bastion or is about to insert one.
LEMMA SeedKeeps ==
  ASSUME BotInv, NEW c \in Callers, NEW n \in Bastions, Bot!Seed(c, n)
  PROVE  BotInv'
<1>0. Bot!Existing(n) = Bastioned
  BY DEF Bot!Existing, Bastioned
<1>1. /\ UNCHANGED <<row, bots, rows>> /\ bots \in 0..MaxBots
      /\ Bot!ConfigBot \in Bot!Bots \ {0} /\ 0 \in Bot!Bots
  <2>1. UNCHANGED <<row, bots, rows>>
    BY DEF Bot!Seed
  <2>2. Bot!ConfigBot \in Bot!Bots \ {0} /\ 0 \in Bot!Bots
    BY BotNumbers
  <2> QED BY <2>1, <2>2 DEF BotInv, BotTypes
<1>2. CASE Bastioned = {}
  <2> DEFINE k == [Bot!Idle EXCEPT !.op = "seed", !.at = "insert", !.name = n,
                     !.bot = Bot!ConfigBot, !.token = Bot!ConfigBot]
  <2>1. /\ call' = [call EXCEPT ![c] = k]
        /\ spoilt' = IF \E d \in Callers \ {c} : call[d].op = "seed"
                         THEN spoilt \cup {0} ELSE spoilt
    BY <1>0, <1>2 DEF Bot!Seed, Bot!Step
  <2>2. /\ k \in AgentCalls /\ k.id = 0 /\ k.name = n /\ k.op = "seed"
        /\ k.bot = Bot!ConfigBot /\ k.token = Bot!ConfigBot
        /\ k.at = "insert" /\ n \in Bot!AllNames
    BY <1>1 DEF AgentCalls, Bot!Idle, Bot!AllNames
  <2>3. 0 \notin spoilt' => Seeding \subseteq {c}
    BY <2>1 DEF Seeding
  <2>4. Fits(c, k, spoilt')
    BY <1>1, <1>2, <2>2, <2>3 DEF Fits, Sound, BotInv, BotTypes
  <2> HIDE DEF k
  <2> QED BY <1>1, <2>1, <2>4, CallMoves
<1>3. CASE Bastioned # {}
  <2>1. PICK m \in Bastioned :
        /\ Bot!Step(c, [Bot!Idle EXCEPT !.op = "seed", !.at = "commit",
                 !.name = m, !.id = row[m].id, !.bot = Bot!ConfigBot,
                 !.token = Bot!ConfigBot, !.was = row[m].bot,
                 !.seen = row[m]])
        /\ spoilt' = spoilt
    BY <1>0, <1>3 DEF Bot!Seed
  <2> DEFINE k == [Bot!Idle EXCEPT !.op = "seed", !.at = "commit",
                 !.name = m, !.id = row[m].id, !.bot = Bot!ConfigBot,
                 !.token = Bot!ConfigBot, !.was = row[m].bot,
                 !.seen = row[m]]
  <2>2. /\ m \in Bot!Live /\ m \in Bot!AllNames /\ row[m] \in AgentRows
        /\ row[m].id <= rows
        /\ \A j \in Bot!Live : row[j].id = row[m].id => j = m
    BY DEF Bastioned, Bot!Live, BotInv, BotTypes, IdsAreOwn
  <2>3. /\ k \in AgentCalls /\ k.id = row[m].id /\ k.name = m /\ k.op = "seed"
        /\ k.bot = Bot!ConfigBot /\ k.token = Bot!ConfigBot
        /\ k.at = "commit" /\ k.seen = row[m]
    BY <1>1, <2>2 DEF AgentCalls, AgentRows, Bot!Idle
  <2>4. Fits(c, k, spoilt')
    BY <1>1, <2>1, <2>2, <2>3 DEF Fits, Sound
  <2>5. call' = [call EXCEPT ![c] = k] /\ spoilt \subseteq spoilt'
    BY <2>1 DEF Bot!Step
  <2> HIDE DEF k
  <2> QED BY <1>1, <2>4, <2>5, CallMoves
<1> QED BY <1>2, <1>3

\* What ends a call without a write.
LEMMA EndKeeps ==
  ASSUME BotInv, NEW c \in Callers, Bot!End(c),
         UNCHANGED <<row, bots, rows, spoilt>>
  PROVE  BotInv'
BY IdleFits, CallMoves DEF Bot!End, Bot!Step, BotInv, BotTypes

\* A new row has an id no call has seen, and the token of its bot, or none.
LEMMA InsertKeeps ==
  ASSUME BotInv, NEW c \in Callers, Bot!Insert(c) PROVE BotInv'
<1> DEFINE k == call[c]
           r == [id |-> rows + 1, bot |-> k.bot, status |-> "active",
                 token |-> k.token, enabled |-> TRUE,
                 is_bastion |-> k.op = "seed"]
<1>1. CASE ~Bot!Free(k.name, k.bot)
  BY <1>1, EndKeeps DEF Bot!Insert
<1>2. CASE Bot!Free(k.name, k.bot)
  <2>1. /\ row' = [row EXCEPT ![k.name] = r]
        /\ rows' = rows + 1 /\ UNCHANGED <<bots, spoilt>>
        /\ call' = [call EXCEPT ![c] = Bot!Idle]
        /\ k.at = "insert" /\ row[k.name] = None
    BY <1>2 DEF Bot!Insert, Bot!Free, Bot!End, Bot!Step
  <2>2. /\ k \in AgentCalls /\ Sound(k)
        /\ bots \in 0..MaxBots /\ rows \in 0..MaxRows /\ rows < MaxRows
        /\ row \in [Bot!AllNames -> AgentRows \cup {None}]
        /\ call \in [Callers -> AgentCalls]
    BY DEF BotInv, BotTypes, CallsAreSound, Bot!Insert
  <2>3. /\ r \in AgentRows /\ r.id = rows + 1 /\ r.bot = k.bot
        /\ r.token \in {0, k.bot} /\ r.is_bastion = (k.op = "seed")
        /\ k.name \in Bot!AllNames
    BY <2>1, <2>2, BotNumbers DEF AgentRows, AgentCalls, Sound
  <2> HIDE DEF r
  <2>4. /\ row' \in [Bot!AllNames -> AgentRows \cup {None}]
        /\ row'[k.name] = r
        /\ \A m \in Bot!AllNames \ {k.name} : row'[m] = row[m]
        /\ k.name \notin Bot!Live
        /\ Bot!Live' \subseteq Bot!Live \cup {k.name}
        /\ Bot!Live \subseteq Bot!Live'
    BY <2>1, <2>2, <2>3 DEF Bot!Live
  <2>5. /\ call'[c] = Bot!Idle
        /\ \A d \in Callers \ {c} : call'[d] = call[d]
        /\ Bot!Idle.id = 0 /\ Bot!Idle.at = "idle" /\ Bot!Idle.op = "none"
        /\ Bot!Idle \in AgentCalls
    BY <2>1, <2>2, BotNumbers DEF Bot!Idle, AgentCalls
  <2>6. BotTypes'
    BY <2>1, <2>2, <2>4, <2>5, ManagementParameters
       DEF BotTypes, ManagementParameters
  <2>7. IdsAreOwn'
    <3>1. \A m \in Bot!Live : row'[m] = row[m] /\ row[m].id \in Nat
                              /\ row[m].id <= rows
      BY <2>2, <2>4 DEF BotInv, IdsAreOwn, AgentRows, Bot!Live
    <3>2. \A d \in Callers : call[d].id \in Nat /\ call[d].id <= rows
      BY <2>2 DEF BotInv, IdsAreOwn, AgentCalls
    <3>3. \A d \in Callers : call'[d].id = call[d].id \/ call'[d].id = 0
      BY <2>5
    <3>4. ASSUME NEW n \in Bot!Live', NEW m \in Bot!Live',
                 row'[n].id = row'[m].id
          PROVE  n = m
      BY <2>2, <2>3, <2>4, <3>1, <3>4 DEF BotInv, IdsAreOwn
    <3>5. ASSUME NEW d \in Callers, call'[d].id # 0, NEW n \in Bot!Live',
                 row'[n].id = call'[d].id
          PROVE  n = call'[d].name
      <4>1. d # c /\ call'[d] = call[d]
        BY <2>5, <3>5
      <4>2. n # k.name
        BY <2>2, <2>3, <2>4, <3>2, <3>5, <4>1
      <4> QED BY <2>4, <3>1, <3>5, <4>1, <4>2 DEF BotInv, IdsAreOwn
    <3>6. \A n \in Bot!Live' : row'[n].id <= rows'
      BY <2>1, <2>2, <2>3, <2>4, <3>1
    <3> QED BY <2>1, <2>2, <3>2, <3>3, <3>4, <3>5, <3>6 DEF IdsAreOwn
  <2>8. CallsAreSound'
    BY <2>5 DEF BotInv, CallsAreSound, Sound
  <2>9. OneSeed'
    <3>1. CASE k.op # "seed"
      <4>1. Bastioned' \subseteq Bastioned /\ Seeding' \subseteq Seeding
        BY <2>3, <2>4, <2>5, <3>1 DEF Bastioned, Seeding, Bot!Live
      <4> QED BY <2>1, <4>1 DEF BotInv, OneSeed
    <3>2. CASE k.op = "seed" /\ 0 \notin spoilt
      <4>1. c \in Seeding /\ c \notin Seeding'
        BY <2>1, <2>5, <3>2 DEF Seeding
      <4>2. Bastioned = {} /\ Seeding' = {}
        BY <2>5, <3>2, <4>1 DEF BotInv, OneSeed, Seeding
      <4>3. Bastioned' \subseteq {k.name}
        BY <2>4, <4>2 DEF Bastioned, Bot!Live
      <4> QED BY <4>2, <4>3 DEF OneSeed
    <3>3. CASE 0 \in spoilt
      BY <2>1, <3>3 DEF OneSeed
    <3> QED BY <3>1, <3>2, <3>3
  <2>10. Bot!TokenOfBot'
    BY <2>1, <2>3, <2>4 DEF BotInv, Bot!TokenOfBot, Bot!Live
  <2> QED BY <2>6, <2>7, <2>8, <2>9, <2>10 DEF BotInv
<1> QED BY <1>1, <1>2

\* What a call writes: the bot, its token and the status, the bastion's apart.
LEMMA CommitKeeps ==
  ASSUME BotInv, NEW c \in Callers, Bot!Commit(c) PROVE BotInv'
<1> DEFINE k == call[c]
           w == Bot!Written(k)
           r == [f \in DOMAIN row[k.name] |->
                   IF f \in DOMAIN w /\ (f = "token" \/ w[f] # k.seen[f])
                   THEN w[f] ELSE row[k.name][f]]
<1>1. CASE ~Bot!Is(k.name, k.id) \/ Bot!Taken(k)
  BY <1>1, EndKeeps DEF Bot!Commit
<1>2. CASE Bot!Is(k.name, k.id) /\ ~Bot!Taken(k)
  <2>1. /\ row' = [row EXCEPT ![k.name] = r]
        /\ spoilt' = spoilt \cup {x \in {k.id} : Bot!Spoils(k)}
        /\ UNCHANGED <<bots, rows>>
        /\ call' = [call EXCEPT ![c] = Bot!Idle]
        /\ k.at = "commit"
    BY <1>2 DEF Bot!Commit, Bot!End, Bot!Step
  <2>2. /\ k \in AgentCalls /\ Sound(k)
        /\ call \in [Callers -> AgentCalls]
        /\ row \in [Bot!AllNames -> AgentRows \cup {None}]
    BY DEF BotInv, BotTypes, CallsAreSound
  <2>3. /\ k.name \in Bot!Live /\ row[k.name] \in AgentRows
        /\ k.seen \in AgentRows /\ row[k.name].id = k.id
    BY <1>2, <2>1, <2>2 DEF Bot!Is, Bot!Live, Sound
  <2>4. /\ DOMAIN w = (IF k.bot = 0 THEN {} ELSE {"bot"}) \cup
                      (IF k.token = 0 THEN {} ELSE {"token"}) \cup
                      (IF k.op = "seed" THEN {} ELSE {"status"})
        /\ k.bot # 0 => w["bot"] = k.bot
        /\ k.token # 0 => w["token"] = k.token
        /\ k.op # "seed" => w["status"] = Bot!Status(k)
    BY DEF Bot!Written
  <2> HIDE DEF w
  <2>5. DOMAIN row[k.name] = {"id", "bot", "token", "status", "enabled",
                              "is_bastion"}
    BY <2>3 DEF AgentRows
  <2>6. /\ r.id = row[k.name].id /\ r.enabled = row[k.name].enabled
        /\ r.is_bastion = row[k.name].is_bastion
        /\ r.bot = IF k.bot # 0 /\ k.bot # k.seen.bot
                   THEN k.bot ELSE row[k.name].bot
        /\ r.token = IF k.token # 0 THEN k.token ELSE row[k.name].token
        /\ r.status = IF k.op # "seed" /\ Bot!Status(k) # k.seen.status
                      THEN Bot!Status(k) ELSE row[k.name].status
    BY <2>4, <2>5
  <2>7. r \in AgentRows
    <3>1. r = [id |-> r.id, bot |-> r.bot, token |-> r.token,
               status |-> r.status, enabled |-> r.enabled,
               is_bastion |-> r.is_bastion]
      BY <2>5
    <3>2. Bot!Status(k) \in {"active", "awaiting_token"}
      BY DEF Bot!Status
    <3> HIDE DEF r
    <3> QED BY <2>2, <2>3, <2>6, <3>1, <3>2 DEF AgentRows, AgentCalls
  <2> HIDE DEF r
  <2>8. ASSUME k.id \notin spoilt', r.status = "active", r.token # 0
        PROVE  r.token = r.bot
    <3>1. /\ k.seen.bot = row[k.name].bot
          /\ k.seen.status = row[k.name].status
          /\ k.op = "attach" =>
                k.token = IF k.bot # 0 THEN k.bot ELSE row[k.name].bot
      BY <2>1, <2>8 DEF Bot!Spoils
    <3>2. k.token = 0 => k.op # "seed" /\ Bot!Status(k) = "awaiting_token"
      BY <2>1, <2>2 DEF Sound, Bot!Status
    <3>3. k.token # 0
      BY <2>6, <2>8, <3>1, <3>2
    <3>4. r.token = k.token
      BY <2>6, <3>3
    <3>5. r.bot = k.token
      BY <2>1, <2>2, <2>6, <3>1, <3>3 DEF Sound
    <3> QED BY <3>4, <3>5
  <2>9. /\ \A d \in Callers : call'[d] \in {call[d], Bot!Idle}
        /\ call' \in [Callers -> AgentCalls]
    <3>1. Bot!Idle \in AgentCalls
      BY <2>3, BotNumbers DEF AgentRows, AgentCalls, Bot!Idle
    <3> QED BY <2>1, <2>2, <3>1
  <2> HIDE DEF k
  <2> QED BY <2>1, <2>3, <2>6, <2>7, <2>8, <2>9, RowMoves
<1> QED BY <1>1, <1>2

\* A delete or a switch by id touches that row or none.
LEMMA ActKeeps ==
  ASSUME BotInv, NEW c \in Callers, Bot!Act(c) PROVE BotInv'
<1> DEFINE k == call[c]
           r == IF k.op = "delete" THEN None
                ELSE [row[k.name] EXCEPT !.enabled = (k.op = "enable")]
<1>1. CASE ~Bot!Is(k.name, k.id)
  BY <1>1, EndKeeps DEF Bot!Act
<1>2. CASE Bot!Is(k.name, k.id)
  <2>1. /\ row' = [row EXCEPT ![k.name] = r]
        /\ UNCHANGED <<bots, rows, spoilt>>
        /\ call' = [call EXCEPT ![c] = Bot!Idle]
        /\ k.at = "act"
    BY <1>2 DEF Bot!Act, Bot!End, Bot!Step
  <2>2. /\ k \in AgentCalls /\ Sound(k)
        /\ call \in [Callers -> AgentCalls]
        /\ row \in [Bot!AllNames -> AgentRows \cup {None}]
    BY DEF BotInv, BotTypes, CallsAreSound
  <2>3. /\ k.name \in Bot!Live /\ row[k.name] \in AgentRows
        /\ row[k.name].id = k.id
    BY <1>2, <2>1, <2>2 DEF Bot!Is, Bot!Live, Sound
  <2>4. /\ r \in AgentRows \cup {None}
        /\ r # None => /\ r.id = k.id /\ r.bot = row[k.name].bot
                       /\ r.token = row[k.name].token
                       /\ r.status = row[k.name].status
                       /\ r.is_bastion = row[k.name].is_bastion
    BY <2>3 DEF AgentRows
  <2> HIDE DEF r
  <2>5. /\ \A d \in Callers : call'[d] \in {call[d], Bot!Idle}
        /\ call' \in [Callers -> AgentCalls]
    <3>1. Bot!Idle \in AgentCalls
      BY <2>3, BotNumbers DEF AgentRows, AgentCalls, Bot!Idle
    <3> QED BY <2>1, <2>2, <3>1
  <2> HIDE DEF k
  <2> QED BY <2>1, <2>3, <2>4, <2>5, RowMoves DEF BotInv, Bot!TokenOfBot
<1> QED BY <1>1, <1>2

\* The route deletes by id, in one transaction.
LEMMA RouteDeleteKeeps ==
  ASSUME BotInv, NEW n \in Bot!AllNames, Bot!RouteDelete(n) PROVE BotInv'
<1>1. n \in Bot!Live
  BY DEF Bot!RouteDelete, Bot!Live
<1> QED BY <1>1, RowMoves DEF Bot!RouteDelete, BotInv, BotTypes

\* One step per operation.
LEMMA BotStep == BotInv /\ [Bot!Next]_(Bot!vars) => BotInv'
<1> SUFFICES ASSUME BotInv, [Bot!Next]_(Bot!vars) PROVE BotInv'
  OBVIOUS
<1>1. CASE UNCHANGED Bot!vars
  BY <1>1 DEF Bot!vars, BotInv, BotTypes, IdsAreOwn, Sound, CallsAreSound,
     Seeding, Bastioned, OneSeed, Bot!TokenOfBot, Bot!Live
<1> QED BY <1>1, BeginKeeps, CreateKeeps, ProvisionKeeps, LoadKeeps, SeedKeeps,
           InsertKeeps, CommitKeeps, ActKeeps, RouteDeleteKeeps DEF Bot!Next

\* ... so the invariant holds.
LEMMA BotInvariance == Spec => []BotInv
<1>1. Init => Bot!Init
  BY DEF Init
<1>2. [Next]_vars => [Bot!Next]_(Bot!vars)
  BY DEF Next, vars, agents, Bot!vars
<1> QED BY <1>1, <1>2, InitBotInv, BotStep, PTL DEF Spec

\* Unless two seeders met at an empty table there is one bastion; and an active
\* agent's token, where it has one, is its bot's, unless a call was given
\* another bot's or committed over credentials that had changed under it.
THEOREM AgentRowsHold == Spec => []RowsHold
<1>1. ASSUME BotInv PROVE RowsHold
  <2>1. ASSUME 0 \notin spoilt
        PROVE  Bot!Cardinality(Bastioned) \in {0, 1}
    <3>1. \A n, m \in Bastioned : n = m
      BY <1>1, <2>1 DEF BotInv, OneSeed
    <3>2. Bot!Cardinality(Bastioned) = Cardinality(Bastioned)
      BY DEF Bot!Cardinality, Cardinality
    <3>3. CASE Bastioned = {}
      BY <3>2, <3>3, FS_EmptySet
    <3>4. CASE Bastioned # {}
      <4>1. PICK n : Bastioned = {n}
        BY <3>1, <3>4
      <4> QED BY <3>2, <4>1, FS_Singleton
    <3> QED BY <3>3, <3>4
  <2>2. Bot!OneBastion
    BY <2>1 DEF Bot!OneBastion, Bastioned
  <2> QED BY <1>1, <2>2 DEF RowsHold, Bot!RowsHold, BotInv
<1> QED BY <1>1, BotInvariance, PTL

\* Whatever part of a name the model calls a tool by, and whatever changes
\* before the tool acts, it destroys only what its message names.
THEOREM OnlyNamedIsDestroyed == Spec => DestroyedWasNamed
<1>1. ASSUME BotInv, Bot!Next, NEW c \in Callers, call[c].at = "act",
             call[c].op \in {"delete", "disable"}, NEW n \in Bot!Live,
             row'[n] # row[n], call'[c].at = "idle"
      PROVE  <<n, call[c].says>> \in Within
  <2>1. /\ call' # call /\ row' # row
        /\ call \in [Callers -> AgentCalls]
        /\ row \in [Bot!AllNames -> AgentRows \cup {None}]
    BY <1>1 DEF BotInv, BotTypes
  <2>2. PICK d \in Callers : Bot!Insert(d) \/ Bot!Commit(d) \/ Bot!Act(d)
    BY <1>1, <2>1 DEF Bot!Next, Bot!Begin, Bot!Create, Bot!Seed,
       Bot!Provision, Bot!ProvisionFails, Bot!Load, Bot!RouteDelete
  <2>3. call' = [call EXCEPT ![d] = Bot!Idle]
    BY <2>2 DEF Bot!Insert, Bot!Commit, Bot!Act, Bot!End, Bot!Step
  <2>4. d = c
    BY <1>1, <2>1, <2>3
  <2>5. Bot!Act(c)
    BY <1>1, <2>2, <2>4 DEF Bot!Insert, Bot!Commit
  <2>6. n = call[c].name
    BY <1>1, <2>1, <2>5 DEF Bot!Act
  <2> QED BY <1>1, <2>6 DEF BotInv, CallsAreSound, Sound
<1>2. [Next]_vars => [Bot!Next]_(Bot!vars)
  BY DEF Next, vars, agents, Bot!vars
<1>3. ASSUME BotInv, [Bot!Next]_(Bot!vars)
      PROVE  [\A c \in Callers : (call[c].at = "act"
                                  /\ call[c].op \in {"delete", "disable"})
                => \A n \in Bot!Live : (row'[n] # row[n]
                                        /\ call'[c].at = "idle")
                      => <<n, call[c].says>> \in Within]_(Bot!vars)
  BY <1>1, <1>3 DEF Bot!vars
<1> QED BY <1>2, <1>3, BotInvariance, PTL
        DEF Spec, DestroyedWasNamed, Bot!DestroyedWasNamed

-------------------------------------------------------------------------------
(* The types.                                                              *)

\* What the component proofs assume of the bounds.
LEMMA ComponentBounds == CronT!Bounds /\ FormT!Bounds /\ GoalT!CountBounds
BY BoundsParameters
   DEF BoundsParameters, CronT!Bounds, FormT!Bounds, GoalT!CountBounds

\* The scheduler, the artifacts and the browser runs keep to their types.
LEMMA ComponentsAreTyped ==
  Spec => [](Cron!TypeOK /\ Form!TypeOK /\ Goal!TypeOK)
<1>1. CronT!Spec => []CronT!TypeOK
  BY CronT!LoopTypeCorrect, CronParameters, ComponentBounds
<1>2. CronT!TypeOK => Cron!TypeOK
  BY DEF Cron!TypeOK, CronT!TypeOK, Cron!Rows, CronT!Rows, Cron!Statuses,
         CronT!Statuses
<1>3. FormT!Spec => []FormT!TypeOK
  BY FormT!FormTypeCorrect, FormParameters, ComponentBounds
<1>4. FormT!TypeOK => Form!TypeOK
  BY DEF Form!TypeOK, FormT!TypeOK, Form!Kinds, FormT!Kinds
<1>5. GoalT!Spec => []GoalT!TypeOK
  BY GoalT!RunTypeCorrect, GoalBounds, ComponentBounds
<1>6. GoalT!TypeOK => Goal!TypeOK
  BY DEF Goal!TypeOK, GoalT!TypeOK, Goal!States, GoalT!States, Goal!Awaits,
         GoalT!Awaits, Goal!Tasks, GoalT!Tasks, Goal!Cuts, GoalT!Cuts
<1> QED BY <1>1, <1>2, <1>3, <1>4, <1>5, <1>6, RunsComponents, CronSpec,
           FormSpec, GoalSpec, PTL

\* What the agents' invariant leaves open: the calls counted and the rows
\* spoilt.
BotBounded == calls \in 0..MaxCalls /\ spoilt \subseteq 0..MaxRows

\* An id that a row has is one of those inserted.
LEMMA RowIdsAreBounded ==
  ASSUME BotInv, NEW n \in Bot!Live
  PROVE  /\ n \in Bot!AllNames /\ row[n] \in AgentRows
         /\ row[n].id \in 1..MaxRows /\ row[n].id \in 0..MaxRows
<1>1. /\ n \in Bot!AllNames /\ row[n] \in AgentRows
      /\ row[n].id <= rows /\ rows \in 0..MaxRows
  BY DEF BotInv, BotTypes, IdsAreOwn, Bot!Live
<1>2. row[n].id \in Nat \ {0}
  BY <1>1 DEF AgentRows
<1> QED BY <1>1, <1>2, ManagementParameters DEF ManagementParameters

LEMMA BotBoundedStep ==
  BotInv /\ BotBounded /\ [Bot!Next]_(Bot!vars) => BotBounded'
<1> SUFFICES ASSUME BotInv, BotBounded, [Bot!Next]_(Bot!vars) PROVE BotBounded'
  OBVIOUS
<1>1. calls' = calls \/ (calls < MaxCalls /\ calls' = calls + 1)
  BY DEF Bot!Next, Bot!vars, Bot!Begin, Bot!Create, Bot!Seed, Bot!Provision,
     Bot!ProvisionFails, Bot!Insert, Bot!Load, Bot!Commit, Bot!Act,
     Bot!RouteDelete
<1>2. calls' \in 0..MaxCalls
  BY <1>1, BoundsParameters DEF BotBounded, BoundsParameters
<1>3. spoilt' \subseteq 0..MaxRows
  <2>1. CASE spoilt' \in {spoilt, spoilt \cup {0}}
    BY <2>1, BotNumbers DEF BotBounded
  <2>2. ASSUME NEW c \in Callers, Bot!Commit(c)
        PROVE  spoilt' \subseteq 0..MaxRows
    <3> DEFINE k == call[c]
    <3>1. k.name \in Bot!AllNames
      BY <2>2 DEF Bot!Commit, BotInv, CallsAreSound, Sound
    <3>2. CASE Bot!Is(k.name, k.id)
      <4>1. k.name \in Bot!Live /\ row[k.name].id = k.id
        BY <3>1, <3>2 DEF Bot!Is, Bot!Live
      <4>2. k.id \in 0..MaxRows
        BY <4>1, RowIdsAreBounded
      <4>3. spoilt' \subseteq spoilt \cup {k.id}
        BY <2>2 DEF Bot!Commit
      <4> QED BY <4>2, <4>3 DEF BotBounded
    <3>3. CASE ~Bot!Is(k.name, k.id)
      BY <2>2, <3>3 DEF Bot!Commit, BotBounded
    <3> QED BY <3>2, <3>3
  <2>3. ASSUME NEW c \in Callers, NEW n \in Bastions, Bot!Seed(c, n)
        PROVE  spoilt' \in {spoilt, spoilt \cup {0}}
    BY <2>3 DEF Bot!Seed
  <2> QED BY <2>1, <2>2, <2>3
          DEF Bot!Next, Bot!vars, Bot!Begin, Bot!Create, Bot!Provision,
              Bot!ProvisionFails, Bot!Insert, Bot!Load, Bot!Act,
              Bot!RouteDelete
<1> QED BY <1>2, <1>3 DEF BotBounded

\* The agents' rows and calls keep to their types.
LEMMA AgentsAreTyped == Spec => []Bot!TypeOK
<1>1. Init => BotBounded
  BY BoundsParameters DEF BoundsParameters, Init, Bot!Init, BotBounded
<1>2. [Next]_vars => [Bot!Next]_(Bot!vars)
  BY DEF Next, vars, agents, Bot!vars
<1>3. ASSUME BotInv, BotBounded PROVE Bot!TypeOK
  <2>1. \A n \in Bot!AllNames : row[n] \in Bot!Rows \cup {None}
    <3> SUFFICES ASSUME NEW n \in Bot!Live PROVE row[n] \in Bot!Rows
      BY DEF Bot!Live
    <3> QED BY <1>3, RowIdsAreBounded DEF AgentRows, Bot!Rows
  <2>2. \A c \in Callers : call[c].at \in {"idle", "provision", "insert",
                                           "load", "commit", "act"}
    BY <1>3 DEF BotInv, BotTypes, AgentCalls
  <2> QED BY <1>3, <2>1, <2>2 DEF BotInv, BotTypes, BotBounded, Bot!TypeOK
<1> QED BY <1>1, <1>2, <1>3, BotInvariance, BotBoundedStep, PTL DEF Spec

\* The bus: the ring buffer holds positions of the history.
WaBounded ==
    /\ loggedOut \subseteq Accounts /\ stopped \in BOOLEAN
    /\ history \in Seq(Accounts)
    /\ buffer \in Seq(1..Len(history)) /\ Len(buffer) <= Capacity
    /\ closes \in 0..MaxCloses

\* slice(-n): what it keeps was there, and is n at most.
LEMMA LastOfIsBounded ==
  ASSUME NEW S, NEW q \in Seq(S), NEW n \in Nat
  PROVE  Wa!LastOf(q, n) \in Seq(S) /\ Len(Wa!LastOf(q, n)) <= n
<1> DEFINE i == IF Len(q) > n THEN Len(q) - n + 1 ELSE 1
<1>1. Len(q) \in Nat /\ i \in 1..(Len(q) + 1)
  OBVIOUS
<1>2. Wa!LastOf(q, n) = SubSeq(q, i, Len(q))
  BY DEF Wa!LastOf
<1>3. /\ SubSeq(q, i, Len(q)) \in Seq(S)
      /\ Len(SubSeq(q, i, Len(q))) = IF i <= Len(q) THEN Len(q) - i + 1 ELSE 0
  BY <1>1, SubSeqProperties
<1> QED BY <1>1, <1>2, <1>3

LEMMA WaBoundedStep == WaBounded /\ [Wa!Next]_(Wa!vars) => WaBounded'
<1> SUFFICES ASSUME WaBounded, [Wa!Next]_(Wa!vars) PROVE WaBounded'
  OBVIOUS
<1> USE DEF WaBounded
<1>1. ASSUME NEW a \in Accounts, Wa!Publish(a) PROVE WaBounded'
  <2>1. /\ history' = Append(history, a)
        /\ buffer' = Wa!LastOf(Append(buffer, Len(history')), Capacity)
        /\ UNCHANGED <<loggedOut, stopped, closes>>
    BY <1>1 DEF Wa!Publish
  <2>2. history' \in Seq(Accounts) /\ Len(history') = Len(history) + 1
    BY <2>1
  <2>3. Append(buffer, Len(history')) \in Seq(1..Len(history'))
    BY <2>2
  <2>4. Capacity \in Nat
    BY BoundsParameters DEF BoundsParameters
  <2> QED BY <2>1, <2>2, <2>3, <2>4, LastOfIsBounded
<1>2. ASSUME NEW a \in Accounts, NEW k, NEW out \in BOOLEAN, Wa!Close(a, k, out)
      PROVE  WaBounded'
  <2>1. closes < MaxCloses /\ closes' = closes + 1 /\ MaxCloses \in Nat
    BY <1>2, BoundsParameters DEF Wa!Close, BoundsParameters
  <2> QED BY <1>2, <2>1 DEF Wa!Close, Wa!bus
<1>3. CASE Wa!Stop
  BY <1>3 DEF Wa!Stop, Wa!bus
<1>4. CASE UNCHANGED <<loggedOut, stopped, history, buffer, closes>>
  BY <1>4
<1> QED BY <1>1, <1>2, <1>3, <1>4
        DEF Wa!Next, Wa!vars, Wa!bus, Wa!Connect, Wa!ConnectFails, Wa!Retry,
            Wa!Pair, Wa!Open, Wa!Subscribe, Wa!Unsubscribe

\* The connections and the bus keep to their types.
LEMMA AccountsAreTyped == Spec => []Wa!TypeOK
<1>1. Init => Wa!Init
  BY DEF Init
<1>2. ASSUME Wa!Init PROVE WaBounded
  <2>1. loggedOut \subseteq Accounts /\ stopped \in BOOLEAN
    BY <1>2 DEF Wa!Init
  <2>2. /\ history \in Seq(Accounts) /\ buffer \in Seq(1..Len(history))
        /\ Len(buffer) = 0 /\ closes = 0
    BY <1>2 DEF Wa!Init
  <2>3. 0 <= Capacity /\ 0 \in 0..MaxCloses
    BY BoundsParameters DEF BoundsParameters
  <2> QED BY <2>1, <2>2, <2>3 DEF WaBounded
<1>3. [Next]_vars => [Wa!Next]_(Wa!vars)
  BY DEF Next, vars, accounts, Wa!vars
<1>4. ASSUME WaInv, WaBounded PROVE Wa!TypeOK
  <2>1. Wa!Idle \in [Wa!Steps -> Nat]
        /\ \A k \in Wa!Steps : At(k) \in [Wa!Steps -> Nat]
    BY DEF Wa!Idle, At
  <2>2. work \in [Accounts -> [Wa!Steps -> Nat]]
    BY <1>4, <2>1 DEF WaInv, Connected
  <2>3. /\ accountStatus \in [Accounts -> {"connecting", "pairing", "open",
                                           "close"}]
        /\ fails \in [Accounts -> 0..2]
    BY <1>4 DEF WaInv, Connected
  <2> QED BY <1>4, <2>2, <2>3 DEF WaBounded, Wa!TypeOK
<1> QED BY <1>1, <1>2, <1>3, <1>4, InitWaInv, WaStep, WaBoundedStep, PTL
        DEF Spec

\* The services keep to the states of the code: a step of a schedule, of a
\* form, of a browser run, of a tool call on an agent or of a connection finds
\* nothing it has no case for, and the ring buffer stays within its capacity.
THEOREM ServicesAreTyped == Spec => []TypeOK
BY ComponentsAreTyped, AgentsAreTyped, AccountsAreTyped, PTL DEF TypeOK

-------------------------------------------------------------------------------
(* The streams of the sidecar.  Induction here is the least number: what    *)
(* fails for some sequence fails first for one of least length.             *)

\* A set of naturals has a least one.
LEMMA LeastNumber ==
  ASSUME NEW T \in SUBSET Nat, T # {}
  PROVE  \E x \in T : \A y \in T : x <= y
<1> DEFINE R == OpToRel(<, Nat)
<1>1. IsWellFoundedOn(R, Nat)
  BY NatLessThanWellFounded, Zenon
<1>2. \A x, y \in T : <<y, x>> \in R <=> y < x
  BY Zenon DEF OpToRel
<1> HIDE DEF R
<1>3. \E x \in T : \A y \in T : ~(<<y, x>> \in R)
  BY <1>1, WFMin
<1>4. PICK x \in T : \A y \in T : ~(<<y, x>> \in R)
  BY <1>3
<1>5. \A y \in T : ~(y < x)
  BY <1>2, <1>4
<1>6. \A y \in T : x \in Nat /\ y \in Nat
  OBVIOUS
<1> QED BY <1>5, <1>6

\* f holds what a filter has kept after each position of q.
Filters(f, q, S) ==
    f = [k \in 0..Len(q) |->
           IF k = 0 THEN <<>>
           ELSE IF q[k] \in S THEN Append(f[k - 1], q[k]) ELSE f[k - 1]]

\* Every sequence has one: position by position, with one more step.
LEMMA FilterExists ==
  ASSUME NEW T, NEW q \in Seq(T), NEW S
  PROVE  \E f : Filters(f, q, S)
<1> DEFINE
      Upto(n, f) ==
        f = [k \in 0..n |->
               IF k = 0 THEN <<>>
               ELSE IF q[k] \in S THEN Append(f[k - 1], q[k]) ELSE f[k - 1]]
      Fails == {n \in Nat : ~\E f : Upto(n, f)}
<1>1. ASSUME Fails # {} PROVE FALSE
  <2>1. PICK n \in Fails : \A m \in Fails : n <= m
    BY <1>1, LeastNumber
  <2>2. CASE n = 0
    <3>1. Upto(0, [k \in 0..0 |-> <<>>])
      OBVIOUS
    <3> QED BY <2>1, <2>2, <3>1
  <2>3. CASE n # 0
    <3>1. n - 1 \in Nat /\ ~(n <= n - 1)
      BY <2>3
    <3>2. PICK f : Upto(n - 1, f)
      BY <2>1, <3>1
    <3> DEFINE g == [k \in 0..n |->
                       IF k < n THEN f[k]
                       ELSE IF q[k] \in S THEN Append(f[k - 1], q[k])
                                          ELSE f[k - 1]]
    <3>3. \A k \in 0..n : k # 0 => g[k - 1] = f[k - 1]
      BY <2>3
    <3>4. \A k \in 0..(n - 1) : g[k] = IF k = 0 THEN <<>>
               ELSE IF q[k] \in S THEN Append(g[k - 1], q[k]) ELSE g[k - 1]
      <4> SUFFICES ASSUME NEW k \in 0..(n - 1)
                   PROVE  g[k] = IF k = 0 THEN <<>>
               ELSE IF q[k] \in S THEN Append(g[k - 1], q[k]) ELSE g[k - 1]
        OBVIOUS
      <4>1. g[k] = f[k]
        OBVIOUS
      <4>2. f[k] = IF k = 0 THEN <<>>
               ELSE IF q[k] \in S THEN Append(f[k - 1], q[k]) ELSE f[k - 1]
        BY <3>2
      <4> QED BY <3>3, <4>1, <4>2
    <3>5. g[n] = IF q[n] \in S THEN Append(g[n - 1], q[n]) ELSE g[n - 1]
      BY <2>3, <3>3
    <3>6. Upto(n, g)
      <4>1. \A k \in 0..n : k \in 0..(n - 1) \/ k = n
        OBVIOUS
      <4>2. \A k \in 0..n : g[k] = IF k = 0 THEN <<>>
               ELSE IF q[k] \in S THEN Append(g[k - 1], q[k]) ELSE g[k - 1]
        BY <2>3, <3>4, <3>5, <4>1
      <4>3. DOMAIN g = 0..n /\ g = [k \in 0..n |-> g[k]]
        OBVIOUS
      <4> HIDE DEF g
      <4> QED BY <4>2, <4>3
    <3> QED BY <2>1, <3>6
  <2> QED BY <2>2, <2>3
<1>2. Len(q) \in Nat
  OBVIOUS
<1> QED BY <1>1, <1>2 DEF Filters

\* What a filter keeps is what it has kept after the last position.
LEMMA KeptIsFiltered ==
  ASSUME NEW T, NEW q \in Seq(T), NEW S
  PROVE  \E f : Filters(f, q, S) /\ Wa!Kept(q, S) = f[Len(q)]
<1> DEFINE kept == CHOOSE f : Filters(f, q, S)
<1>1. Filters(kept, q, S)
  BY FilterExists
<1>2. Wa!Kept(q, S) = kept[Len(q)]
  BY DEF Wa!Kept, Filters
<1> QED BY <1>1, <1>2

\* What a filter keeps of one element more.
LEMMA KeptOfAppend ==
  ASSUME NEW T, NEW q \in Seq(T), NEW x \in T, NEW S
  PROVE  Wa!Kept(Append(q, x), S) =
           IF x \in S THEN Append(Wa!Kept(q, S), x) ELSE Wa!Kept(q, S)
<1> DEFINE r == Append(q, x)
<1>1. /\ r \in Seq(T) /\ Len(q) \in Nat /\ Len(r) = Len(q) + 1
      /\ r[Len(q) + 1] = x /\ \A k \in 1..Len(q) : r[k] = q[k]
  BY AppendProperties
<1>2. PICK f : Filters(f, q, S) /\ Wa!Kept(q, S) = f[Len(q)]
  BY KeptIsFiltered
<1> HIDE DEF r
<1>3. PICK g : Filters(g, r, S) /\ Wa!Kept(r, S) = g[Len(r)]
  BY <1>1, KeptIsFiltered
<1>4. /\ f[0] = <<>> /\ g[0] = <<>>
      /\ \A k \in 1..Len(q) :
           /\ f[k] = IF q[k] \in S THEN Append(f[k - 1], q[k]) ELSE f[k - 1]
           /\ g[k] = IF q[k] \in S THEN Append(g[k - 1], q[k]) ELSE g[k - 1]
      /\ g[Len(q) + 1] = IF x \in S THEN Append(g[Len(q)], x) ELSE g[Len(q)]
  <2>1. /\ f[0] = <<>>
        /\ \A k \in 1..Len(q) :
             f[k] = IF q[k] \in S THEN Append(f[k - 1], q[k]) ELSE f[k - 1]
    <3>1. 0 \in 0..Len(q) /\ Len(q) \in Nat
      BY <1>1
    <3>2. f[0] = <<>>
      BY <1>2, <3>1 DEF Filters
    <3>3. ASSUME NEW k \in 1..Len(q)
          PROVE  f[k] = IF q[k] \in S THEN Append(f[k - 1], q[k])
                                     ELSE f[k - 1]
      <4>1. k \in 0..Len(q) /\ k # 0
        BY <1>1
      <4> QED BY <1>2, <4>1 DEF Filters
    <3> QED BY <3>2, <3>3
  <2>2. /\ g[0] = <<>>
        /\ \A k \in 1..(Len(q) + 1) :
             g[k] = IF r[k] \in S THEN Append(g[k - 1], r[k]) ELSE g[k - 1]
    <3>1. 0 \in 0..Len(r) /\ Len(r) \in Nat
      BY <1>1
    <3>2. g[0] = <<>>
      BY <1>3, <3>1 DEF Filters
    <3>3. ASSUME NEW k \in 1..(Len(q) + 1)
          PROVE  g[k] = IF r[k] \in S THEN Append(g[k - 1], r[k])
                                     ELSE g[k - 1]
      <4>1. k \in 0..Len(r) /\ k # 0
        BY <1>1
      <4> QED BY <1>3, <4>1 DEF Filters
    <3> QED BY <3>2, <3>3
  <2>3. \A k \in 1..Len(q) :
          g[k] = IF q[k] \in S THEN Append(g[k - 1], q[k]) ELSE g[k - 1]
    <3> SUFFICES ASSUME NEW k \in 1..Len(q)
                 PROVE  g[k] = IF q[k] \in S THEN Append(g[k - 1], q[k])
                                              ELSE g[k - 1]
      OBVIOUS
    <3>1. k \in 1..(Len(q) + 1) /\ r[k] = q[k]
      BY <1>1
    <3> QED BY <2>2, <3>1
  <2>4. g[Len(q) + 1] = IF x \in S THEN Append(g[Len(q)], x) ELSE g[Len(q)]
    <3>1. Len(q) + 1 \in 1..(Len(q) + 1) /\ Len(q) + 1 - 1 = Len(q)
      BY <1>1
    <3>2. g[Len(q) + 1] = IF r[Len(q) + 1] \in S
                            THEN Append(g[Len(q) + 1 - 1], r[Len(q) + 1])
                            ELSE g[Len(q) + 1 - 1]
      BY <2>2, <3>1
    <3> QED BY <1>1, <3>1, <3>2
  <2> QED BY <2>1, <2>2, <2>3, <2>4
<1> DEFINE Differ == {k \in Nat : k <= Len(q) /\ f[k] # g[k]}
<1>5. ASSUME Differ # {} PROVE FALSE
  <2>1. PICK n \in Differ : \A m \in Differ : n <= m
    BY <1>5, LeastNumber
  <2>2. n \in 1..Len(q) /\ n - 1 \in Nat /\ ~(n <= n - 1) /\ n - 1 <= Len(q)
    BY <1>1, <1>4, <2>1
  <2>3. f[n - 1] = g[n - 1]
    BY <2>1, <2>2
  <2> QED BY <1>4, <2>1, <2>2, <2>3
<1>6. f[Len(q)] = g[Len(q)]
  BY <1>1, <1>5
<1> QED BY <1>1, <1>2, <1>3, <1>4, <1>6 DEF r

\* A filter keeps nothing of nothing.
LEMMA KeptOfEmpty ==
  ASSUME NEW S
  PROVE  Wa!Kept(<<>>, S) = <<>>
<1>1. <<>> \in Seq({}) /\ Len(<<>>) = 0
  OBVIOUS
<1>2. PICK f : Filters(f, <<>>, S) /\ Wa!Kept(<<>>, S) = f[0]
  BY <1>1, KeptIsFiltered
<1> QED BY <1>1, <1>2 DEF Filters

\* s is the last part of t.
Ends(s, t) ==
    /\ Len(s) <= Len(t)
    /\ \A i \in 1..Len(s) : s[i] = t[Len(t) - Len(s) + i]

\* A last part stays one when both grow by the same element.
LEMMA AppendEnds ==
  ASSUME NEW T, NEW s \in Seq(T), NEW t \in Seq(T), NEW x \in T, Ends(s, t)
  PROVE  Ends(Append(s, x), Append(t, x))
<1>1. /\ Len(s) \in Nat /\ Len(t) \in Nat
      /\ Len(Append(s, x)) = Len(s) + 1 /\ Len(Append(t, x)) = Len(t) + 1
      /\ Append(s, x)[Len(s) + 1] = x /\ Append(t, x)[Len(t) + 1] = x
      /\ \A i \in 1..Len(s) : Append(s, x)[i] = s[i]
      /\ \A i \in 1..Len(t) : Append(t, x)[i] = t[i]
  BY AppendProperties
<1>2. ASSUME NEW i \in 1..(Len(s) + 1)
      PROVE  Append(s, x)[i] = Append(t, x)[Len(t) - Len(s) + i]
  <2>1. CASE i = Len(s) + 1
    <3>1. Len(t) - Len(s) + i = Len(t) + 1
      BY <1>1, <2>1
    <3> QED BY <1>1, <2>1, <3>1
  <2>2. CASE i \in 1..Len(s)
    <3>1. Len(t) - Len(s) + i \in 1..Len(t)
      BY <1>1, <2>2 DEF Ends
    <3>2. s[i] = t[Len(t) - Len(s) + i]
      BY <2>2 DEF Ends
    <3> QED BY <1>1, <2>2, <3>1, <3>2
  <2>3. i = Len(s) + 1 \/ i \in 1..Len(s)
    BY <1>1
  <2> QED BY <2>1, <2>2, <2>3
<1> HIDE DEF Ends
<1>3. (Len(t) + 1) - (Len(s) + 1) = Len(t) - Len(s)
  BY <1>1
<1>4. Len(s) + 1 <= Len(t) + 1
  BY <1>1 DEF Ends
<1> QED BY <1>1, <1>2, <1>3, <1>4 DEF Ends

\* A sequence is empty or one element longer than another.
LEMMA Shorter ==
  ASSUME NEW T, NEW q \in Seq(T), Len(q) # 0
  PROVE  \E p \in Seq(T), x \in T : q = Append(p, x) /\ Len(q) = Len(p) + 1
<1>1. q # <<>>
  OBVIOUS
<1>2. PICK p \in Seq(T), x \in T : q = Append(p, x)
  BY <1>1, SequenceEmptyOrAppend
<1> QED BY <1>2, AppendProperties

\* A filter keeps a sequence of what it was given.
LEMMA KeptIsSeq ==
  ASSUME NEW T, NEW S
  PROVE  \A q \in Seq(T) : Wa!Kept(q, S) \in Seq(T \cap S)
<1> DEFINE Fails == {n \in Nat : \E q \in Seq(T) :
                       Len(q) = n /\ Wa!Kept(q, S) \notin Seq(T \cap S)}
<1>1. ASSUME Fails # {} PROVE FALSE
  <2>1. PICK n \in Fails : \A m \in Fails : n <= m
    BY <1>1, LeastNumber
  <2>2. PICK q \in Seq(T) :
          Len(q) = n /\ Wa!Kept(q, S) \notin Seq(T \cap S)
    BY <2>1
  <2>3. CASE n = 0
    <3>1. q = <<>>
      BY <2>2, <2>3
    <3> QED BY <2>2, <3>1, KeptOfEmpty
  <2>4. CASE n # 0
    <3>1. PICK p \in Seq(T), x \in T : q = Append(p, x) /\ Len(q) = Len(p) + 1
      BY <2>2, <2>4, Shorter
    <3>2. Len(p) \in Nat /\ ~(n <= Len(p))
      BY <2>2, <3>1
    <3>3. Wa!Kept(p, S) \in Seq(T \cap S)
      BY <2>1, <3>2
    <3>4. Wa!Kept(q, S) =
            IF x \in S THEN Append(Wa!Kept(p, S), x) ELSE Wa!Kept(p, S)
      BY <3>1, KeptOfAppend
    <3> QED BY <2>2, <3>3, <3>4
  <2> QED BY <2>3, <2>4
<1> QED BY <1>1

\* A filter keeps the same of the last part of a sequence, last.
LEMMA KeptEnds ==
  ASSUME NEW T, NEW S
  PROVE  \A q, t \in Seq(T) :
           Ends(q, t) => Ends(Wa!Kept(q, S), Wa!Kept(t, S))
<1> DEFINE Fails == {n \in Nat : \E q, t \in Seq(T) :
                       /\ Len(q) = n /\ Ends(q, t)
                       /\ ~Ends(Wa!Kept(q, S), Wa!Kept(t, S))}
<1>1. ASSUME Fails # {} PROVE FALSE
  <2>1. PICK n \in Fails : \A m \in Fails : n <= m
    BY <1>1, LeastNumber
  <2>2. PICK q \in Seq(T), t \in Seq(T) :
          /\ Len(q) = n /\ Ends(q, t)
          /\ ~Ends(Wa!Kept(q, S), Wa!Kept(t, S))
    BY <2>1
  <2> HIDE DEF Fails
  <2>3. Wa!Kept(t, S) \in Seq(T \cap S) /\ Len(Wa!Kept(t, S)) \in Nat
    BY KeptIsSeq
  <2>4. CASE n = 0
    <3>1. q = <<>>
      BY <2>2, <2>4
    <3> QED BY <2>2, <2>3, <3>1, KeptOfEmpty DEF Ends
  <2>5. CASE n # 0
    <3>1. PICK p \in Seq(T), x \in T : q = Append(p, x) /\ Len(q) = Len(p) + 1
      BY <2>2, <2>5, Shorter
    <3>2. Len(t) # 0
      BY <2>2, <2>5 DEF Ends, Fails
    <3>3. PICK u \in Seq(T), y \in T : t = Append(u, y) /\ Len(t) = Len(u) + 1
      BY <3>2, Shorter
    <3>4. Ends(p, u) /\ x = y
      <4>1. /\ Len(p) \in Nat /\ Len(u) \in Nat /\ Len(p) <= Len(u)
            /\ q[Len(q)] = x /\ t[Len(t)] = y
            /\ \A i \in 1..Len(p) : q[i] = p[i]
            /\ \A i \in 1..Len(u) : t[i] = u[i]
        BY <2>2, <3>1, <3>3, AppendProperties DEF Ends
      <4>2. x = y
        <5>1. q[Len(q)] = t[Len(t) - Len(q) + Len(q)]
          <6>1. Len(q) \in 1..Len(q)
            BY <3>1, <4>1
          <6> QED BY <2>2, <6>1 DEF Ends
        <5> QED BY <3>1, <3>3, <4>1, <5>1
      <4>3. ASSUME NEW i \in 1..Len(p) PROVE p[i] = u[Len(u) - Len(p) + i]
        <5>1. q[i] = t[Len(t) - Len(q) + i]
          <6>1. i \in 1..Len(q)
            BY <3>1, <4>1
          <6> QED BY <2>2, <6>1 DEF Ends
        <5>2. /\ Len(t) - Len(q) + i = Len(u) - Len(p) + i
              /\ Len(u) - Len(p) + i \in 1..Len(u)
          BY <3>1, <3>3, <4>1
        <5> QED BY <4>1, <5>1, <5>2
      <4> QED BY <4>1, <4>2, <4>3 DEF Ends
    <3>5. Ends(Wa!Kept(p, S), Wa!Kept(u, S))
      <4>1. Len(p) \in Nat /\ ~(n <= Len(p))
        BY <2>2, <3>1
      <4>2. Len(p) \notin Fails
        BY <2>1, <4>1
      <4> QED BY <3>4, <4>1, <4>2 DEF Fails
    <3>6. /\ Wa!Kept(q, S) =
               IF x \in S THEN Append(Wa!Kept(p, S), x) ELSE Wa!Kept(p, S)
          /\ Wa!Kept(t, S) =
               IF x \in S THEN Append(Wa!Kept(u, S), x) ELSE Wa!Kept(u, S)
      BY <3>1, <3>3, <3>4, KeptOfAppend
    <3>7. Wa!Kept(p, S) \in Seq(T \cap S) /\ Wa!Kept(u, S) \in Seq(T \cap S)
      BY KeptIsSeq
    <3>8. x \in S => Ends(Append(Wa!Kept(p, S), x), Append(Wa!Kept(u, S), x))
      BY <3>5, <3>7, AppendEnds
    <3> QED BY <2>2, <3>5, <3>6, <3>8
  <2> QED BY <2>4, <2>5
<1>2. ASSUME NEW q \in Seq(T), NEW t \in Seq(T), Ends(q, t)
      PROVE  Ends(Wa!Kept(q, S), Wa!Kept(t, S))
  <2>1. Len(q) \in Nat
    OBVIOUS
  <2> QED BY <1>1, <1>2, <2>1
<1> QED BY <1>2

\* A filter looks at the elements of the sequence alone.
LEMMA KeptSame ==
  ASSUME NEW T, NEW S, NEW R
  PROVE  \A q \in Seq(T) :
           (\A i \in 1..Len(q) : q[i] \in S <=> q[i] \in R)
           => Wa!Kept(q, S) = Wa!Kept(q, R)
<1> DEFINE Same(q) == \A i \in 1..Len(q) : q[i] \in S <=> q[i] \in R
           Fails == {n \in Nat : \E q \in Seq(T) :
                       /\ Len(q) = n /\ Same(q)
                       /\ Wa!Kept(q, S) # Wa!Kept(q, R)}
<1>1. ASSUME Fails # {} PROVE FALSE
  <2>1. PICK n \in Fails : \A m \in Fails : n <= m
    BY <1>1, LeastNumber
  <2>2. PICK q \in Seq(T) :
          Len(q) = n /\ Same(q) /\ Wa!Kept(q, S) # Wa!Kept(q, R)
    BY <2>1
  <2>3. CASE n = 0
    <3>1. q = <<>>
      BY <2>2, <2>3
    <3> QED BY <2>2, <3>1, KeptOfEmpty
  <2>4. CASE n # 0
    <3>1. PICK p \in Seq(T), x \in T : q = Append(p, x) /\ Len(q) = Len(p) + 1
      BY <2>2, <2>4, Shorter
    <3>2. /\ Len(p) \in Nat /\ ~(n <= Len(p)) /\ q[Len(q)] = x
          /\ \A i \in 1..Len(p) : q[i] = p[i] /\ i \in 1..Len(q)
          /\ Len(q) \in 1..Len(q)
      BY <2>2, <3>1, AppendProperties
    <3>3. Same(p) /\ (x \in S <=> x \in R)
      BY <2>2, <3>2
    <3>4. Wa!Kept(p, S) = Wa!Kept(p, R)
      BY <2>1, <3>2, <3>3
    <3>5. /\ Wa!Kept(q, S) =
               IF x \in S THEN Append(Wa!Kept(p, S), x) ELSE Wa!Kept(p, S)
          /\ Wa!Kept(q, R) =
               IF x \in R THEN Append(Wa!Kept(p, R), x) ELSE Wa!Kept(p, R)
      BY <3>1, KeptOfAppend
    <3> QED BY <2>2, <3>3, <3>4, <3>5
  <2> QED BY <2>3, <2>4
<1>2. \A q \in Seq(T) : Len(q) \in Nat
  OBVIOUS
<1> QED BY <1>1, <1>2

\* The last part of a last part is a last part.
LEMMA EndsTransitive ==
  ASSUME NEW T, NEW s \in Seq(T), NEW t \in Seq(T), NEW u \in Seq(T),
         Ends(s, t), Ends(t, u)
  PROVE  Ends(s, u)
<1>1. Len(s) \in Nat /\ Len(t) \in Nat /\ Len(u) \in Nat
  OBVIOUS
<1>2. ASSUME NEW i \in 1..Len(s) PROVE s[i] = u[Len(u) - Len(s) + i]
  <2> DEFINE j == Len(t) - Len(s) + i
  <2>1. j \in 1..Len(t) /\ Len(u) - Len(t) + j = Len(u) - Len(s) + i
    BY <1>1 DEF Ends
  <2>2. s[i] = t[j]
    BY DEF Ends
  <2> HIDE DEF j
  <2>3. t[j] = u[Len(u) - Len(t) + j]
    BY <2>1 DEF Ends
  <2> QED BY <2>1, <2>2, <2>3
<1>3. Len(s) <= Len(u)
  BY <1>1 DEF Ends
<1> QED BY <1>2, <1>3 DEF Ends

\* slice(-n) is the last part of what it slices.
LEMMA LastOfEnds ==
  ASSUME NEW T, NEW q \in Seq(T), NEW n \in Nat
  PROVE  Wa!LastOf(q, n) \in Seq(T) /\ Ends(Wa!LastOf(q, n), q)
<1> DEFINE i == IF Len(q) > n THEN Len(q) - n + 1 ELSE 1
<1>1. Len(q) \in Nat /\ i \in 1..(Len(q) + 1)
  OBVIOUS
<1>2. Wa!LastOf(q, n) = SubSeq(q, i, Len(q))
  BY DEF Wa!LastOf
<1> HIDE DEF i
<1>3. /\ SubSeq(q, i, Len(q)) \in Seq(T)
      /\ Len(SubSeq(q, i, Len(q))) = Len(q) - i + 1
      /\ \A k \in 1..(Len(q) - i + 1) : SubSeq(q, i, Len(q))[k] = q[i + k - 1]
  BY <1>1, SubSeqProperties
<1>4. \A k \in 1..(Len(q) - i + 1) :
        Len(q) - (Len(q) - i + 1) + k = i + k - 1
  BY <1>1
<1>5. Len(q) - i + 1 <= Len(q)
  BY <1>1
<1> QED BY <1>2, <1>3, <1>4, <1>5 DEF Ends

\* The last part of a sequence is a suffix of it.
LEMMA EndsIsSuffix ==
  ASSUME NEW T, NEW s \in Seq(T), NEW t \in Seq(T), Ends(s, t)
  PROVE  Wa!IsSuffix(s, t)
<1>1. Len(s) \in Nat /\ Len(t) \in Nat /\ Len(s) <= Len(t)
  BY DEF Ends
<1>2. /\ Wa!Reverse(s) \in Seq(T) /\ Len(Wa!Reverse(s)) = Len(s)
      /\ Wa!Reverse(t) \in Seq(T) /\ Len(Wa!Reverse(t)) = Len(t)
  BY DEF Wa!Reverse
<1>3. ASSUME NEW i \in 1..Len(s) PROVE Wa!Reverse(s)[i] = Wa!Reverse(t)[i]
  <2> DEFINE k == Len(s) - i + 1
  <2>1. k \in 1..Len(s) /\ Len(t) - Len(s) + k = Len(t) - i + 1
        /\ i \in 1..Len(t)
    BY <1>1
  <2>2. Wa!Reverse(s)[i] = s[k] /\ Wa!Reverse(t)[i] = t[Len(t) - i + 1]
    BY <2>1 DEF Wa!Reverse
  <2>3. s[k] = t[Len(t) - Len(s) + k]
    BY <2>1 DEF Ends
  <2> QED BY <2>1, <2>2, <2>3
<1> DEFINE r == Wa!Reverse(s)  v == Wa!Reverse(t)  n == Len(s)
<1>4. /\ r \in Seq(T) /\ v \in Seq(T) /\ Len(r) = n /\ n <= Len(v)
      /\ \A i \in 1..n : r[i] = v[i]
  BY <1>1, <1>2, <1>3
<1> HIDE DEF r, v
<1>5. SubSeq(r, 1, n) = SubSeq(v, 1, n)
  BY <1>1, <1>4
<1> QED BY <1>4, <1>5 DEF Wa!IsSuffix, Wa!IsPrefix, r, v

\* The positions 1..n in order, and what a filter lets through of a history.
Upto(n) == [i \in 1..n |-> i]
LetThrough(h, a) ==
    Wa!Kept(Upto(Len(h)), {i \in 1..Len(h) : a \in {All, h[i]}})

\* The positions of a sequence are those of one element less, and one.
LEMMA UptoGrows ==
  ASSUME NEW n \in Nat
  PROVE  /\ Upto(n) \in Seq(Nat) /\ Upto(n) \in Seq(1..n)
         /\ Len(Upto(n)) = n /\ Upto(n + 1) = Append(Upto(n), n + 1)
<1>1. /\ Upto(n) \in Seq(Nat) /\ Upto(n) \in Seq(1..n) /\ Len(Upto(n)) = n
      /\ Upto(n + 1) \in Seq(Nat) /\ Len(Upto(n + 1)) = n + 1
  BY DEF Upto
<1>2. /\ Append(Upto(n), n + 1) \in Seq(Nat)
      /\ Len(Append(Upto(n), n + 1)) = n + 1
      /\ Append(Upto(n), n + 1)[n + 1] = n + 1
      /\ \A i \in 1..n : Append(Upto(n), n + 1)[i] = Upto(n)[i]
  BY <1>1, AppendProperties
<1>3. ASSUME NEW i \in 1..(n + 1)
      PROVE  Upto(n + 1)[i] = Append(Upto(n), n + 1)[i]
  <2>1. i \in 1..n \/ i = n + 1
    OBVIOUS
  <2>2. Upto(n + 1)[i] = i /\ (i \in 1..n => Upto(n)[i] = i)
    BY DEF Upto
  <2> QED BY <1>2, <2>1, <2>2
<1> QED BY <1>1, <1>2, <1>3, SeqEqual

\* What a filter lets through are positions of the history.
LEMMA LetThroughIsSeq ==
  ASSUME NEW h \in Seq(Accounts), NEW a
  PROVE  LetThrough(h, a) \in Seq(1..Len(h))
<1> DEFINE n == Len(h)
           S == {i \in 1..n : a \in {All, h[i]}}
<1>1. Upto(n) \in Seq(1..n)
  BY UptoGrows
<1> HIDE DEF S, n
<1>2. Wa!Kept(Upto(n), S) \in Seq((1..n) \cap S)
  BY <1>1, KeptIsSeq
<1>3. Wa!Kept(Upto(n), S) \in Seq(1..n)
  BY <1>2, SeqMonotonic
<1> QED BY <1>3 DEF LetThrough, S, n

\* A message published is the next one of what its filter lets through.
LEMMA LetThroughGrows ==
  ASSUME NEW h \in Seq(Accounts), NEW b \in Accounts, NEW a
  PROVE  LetThrough(Append(h, b), a) =
           IF a \in {All, b} THEN Append(LetThrough(h, a), Len(h) + 1)
                             ELSE LetThrough(h, a)
<1> DEFINE n == Len(h)
           g == Append(h, b)
           S == {i \in 1..n : a \in {All, h[i]}}
           R == {i \in 1..Len(g) : a \in {All, g[i]}}
<1>1. n \in Nat
  OBVIOUS
<1>2. Len(g) = n + 1 /\ g[n + 1] = b /\ \A i \in 1..n : g[i] = h[i]
  BY AppendProperties
<1> HIDE DEF n, g
<1>3. /\ Upto(n) \in Seq(1..n) /\ Upto(n) \in Seq(Nat) /\ Len(Upto(n)) = n
      /\ Upto(n + 1) = Append(Upto(n), n + 1)
  BY <1>1, UptoGrows
<1>4. \A i \in 1..n : Upto(n)[i] \in S <=> Upto(n)[i] \in R
  BY <1>1, <1>2 DEF Upto
<1>5. n + 1 \in R <=> a \in {All, b}
  BY <1>1, <1>2
<1> HIDE DEF S, R
<1>6. Wa!Kept(Upto(n), S) = Wa!Kept(Upto(n), R)
  BY <1>3, <1>4, KeptSame
<1>7. Wa!Kept(Upto(n + 1), R) =
        IF n + 1 \in R THEN Append(Wa!Kept(Upto(n), R), n + 1)
                       ELSE Wa!Kept(Upto(n), R)
  <2> DEFINE m == n + 1
  <2>1. m \in Nat
    BY <1>1
  <2> HIDE DEF m
  <2>2. Wa!Kept(Append(Upto(n), m), R) =
          IF m \in R THEN Append(Wa!Kept(Upto(n), R), m)
                     ELSE Wa!Kept(Upto(n), R)
    BY <1>3, <2>1, KeptOfAppend
  <2> QED BY <1>3, <2>2 DEF m
<1> QED BY <1>2, <1>5, <1>6, <1>7 DEF LetThrough, n, g, S, R

\* The ring buffer is the end of the history; every stream has the end of what
\* its filter lets through.
StreamInv ==
    /\ buffer \in Seq(1..Len(history)) /\ Ends(buffer, Upto(Len(history)))
    /\ stream \in [Streams -> [on : BOOLEAN, account : Accounts \cup {All},
                               got : Seq(1..Len(history))]]
    /\ \A s \in Streams :
         s \notin Throwing /\ stream[s].on
         => Ends(stream[s].got, LetThrough(history, stream[s].account))

\* At first nothing is published.
LEMMA StreamInit == Wa!Init => StreamInv
<1> SUFFICES ASSUME Wa!Init PROVE StreamInv
  OBVIOUS
<1>1. history = <<>> /\ buffer = <<>> /\ Len(history) = 0 /\ Len(buffer) = 0
      /\ stream = [s \in Streams |-> [on |-> FALSE, account |-> All,
                                      got |-> <<>>]]
  BY DEF Wa!Init
<1>2. Ends(buffer, Upto(Len(history)))
  <2>1. Len(Upto(0)) = 0
    BY UptoGrows
  <2> QED BY <1>1, <2>1 DEF Ends
<1> QED BY <1>1, <1>2 DEF StreamInv

\* The buffer and the streams whose filter lets it through grow by the
\* message.
LEMMA StreamPublish ==
  ASSUME StreamInv, history \in Seq(Accounts), NEW b \in Accounts,
         Wa!Publish(b)
  PROVE  StreamInv'
<1> DEFINE n == Len(history)
<1>1. /\ history' = Append(history, b)
      /\ buffer' = Wa!LastOf(Append(buffer, Len(history')), Capacity)
      /\ stream' = [s \in Streams |->
           IF stream[s].on /\ s \notin Throwing
              /\ stream[s].account \in {All, b}
           THEN [stream[s] EXCEPT !.got = Append(@, Len(history'))]
           ELSE stream[s]]
  BY DEF Wa!Publish
<1>2. n \in Nat /\ Len(history') = n + 1
  BY <1>1, AppendProperties
<1> HIDE DEF n
<1>3. Capacity \in Nat
  BY BoundsParameters DEF BoundsParameters
<1>4. buffer \in Seq(1..(n + 1)) /\ n + 1 \in 1..(n + 1)
  <2>1. buffer \in Seq(1..n) /\ 1..n \subseteq 1..(n + 1)
    BY <1>2 DEF StreamInv, n
  <2> QED BY <1>2, <2>1, SeqMonotonic
<1>5. /\ Upto(n) \in Seq(1..(n + 1)) /\ Upto(n + 1) \in Seq(1..(n + 1))
      /\ Upto(n + 1) = Append(Upto(n), n + 1)
  <2>0. 1..n \subseteq 1..(n + 1)
    BY <1>2
  <2>1. Upto(n) \in Seq(1..n)
    BY <1>2, UptoGrows
  <2>2. Upto(n) \in Seq(1..(n + 1))
    BY <2>0, <2>1, SeqMonotonic
  <2> QED BY <1>2, <2>2, UptoGrows
<1>6. buffer' \in Seq(1..(n + 1)) /\ Ends(buffer', Upto(n + 1))
  <2>1. Ends(Append(buffer, n + 1), Upto(n + 1))
    BY <1>4, <1>5, AppendEnds DEF StreamInv, n
  <2>2. Append(buffer, n + 1) \in Seq(1..(n + 1))
    BY <1>4, AppendProperties
  <2>3. /\ buffer' \in Seq(1..(n + 1))
        /\ Ends(buffer', Append(buffer, n + 1))
    BY <1>1, <1>2, <1>3, <2>2, LastOfEnds
  <2> QED BY <1>5, <2>1, <2>2, <2>3, EndsTransitive
<1>7. ASSUME NEW s \in Streams
      PROVE  /\ stream'[s] \in [on : BOOLEAN, account : Accounts \cup {All},
                                got : Seq(1..(n + 1))]
             /\ s \notin Throwing /\ stream'[s].on
                => Ends(stream'[s].got,
                        LetThrough(history', stream'[s].account))
  <2>1. /\ stream[s] \in [on : BOOLEAN, account : Accounts \cup {All},
                          got : Seq(1..n)]
        /\ s \notin Throwing /\ stream[s].on
           => Ends(stream[s].got, LetThrough(history, stream[s].account))
    BY DEF StreamInv, n
  <2> DEFINE a == stream[s].account
             got == stream[s].got
             all == LetThrough(history, a)
  <2>2. /\ stream[s] = [on |-> stream[s].on, account |-> a, got |-> got]
        /\ stream[s].on \in BOOLEAN /\ a \in Accounts \cup {All}
    BY <2>1
  <2>3. got \in Seq(1..(n + 1)) /\ all \in Seq(1..(n + 1))
    <3>1. 1..n \subseteq 1..(n + 1)
      BY <1>2
    <3>2. got \in Seq(1..n)
      BY <2>1
    <3>3. all \in Seq(1..n)
      BY LetThroughIsSeq DEF n
    <3> HIDE DEF got, all
    <3> QED BY <3>1, <3>2, <3>3, SeqMonotonic
  <2>4. LetThrough(history', a) =
          IF a \in {All, b} THEN Append(all, n + 1) ELSE all
    BY <1>1, LetThroughGrows DEF n
  <2>5. CASE stream[s].on /\ s \notin Throwing /\ a \in {All, b}
    <3>1. stream'[s] = [on |-> TRUE, account |-> a, got |-> Append(got, n + 1)]
      BY <1>1, <1>2, <2>2, <2>5
    <3>2. Append(got, n + 1) \in Seq(1..(n + 1))
      BY <1>4, <2>3, AppendProperties
    <3>3. Ends(Append(got, n + 1), Append(all, n + 1))
      BY <1>4, <2>1, <2>3, <2>5, AppendEnds
    <3> HIDE DEF a, got, all
    <3>4. stream'[s] \in [on : BOOLEAN, account : Accounts \cup {All},
                          got : Seq(1..(n + 1))]
      BY <2>2, <3>1, <3>2
    <3>5. stream'[s].account = a /\ stream'[s].got = Append(got, n + 1)
      BY <3>1
    <3> QED BY <2>4, <2>5, <3>3, <3>4, <3>5
  <2>6. CASE ~(stream[s].on /\ s \notin Throwing /\ a \in {All, b})
    <3>1. stream'[s] = stream[s]
      BY <1>1, <2>6
    <3>2. stream[s] \in [on : BOOLEAN, account : Accounts \cup {All},
                         got : Seq(1..(n + 1))]
      BY <2>2, <2>3
    <3> QED BY <2>1, <2>4, <2>6, <3>1, <3>2
  <2> QED BY <2>5, <2>6
<1>8. stream' \in [Streams -> [on : BOOLEAN, account : Accounts \cup {All},
                               got : Seq(1..(n + 1))]]
  BY <1>1, <1>7
<1> QED BY <1>2, <1>6, <1>7, <1>8 DEF StreamInv

\* The backlog is the end of what the buffer, an end itself, holds of it.
LEMMA StreamSubscribe ==
  ASSUME StreamInv, history \in Seq(Accounts), NEW s \in Streams,
         NEW a \in Accounts \cup {All}, NEW m \in Lasts,
         Wa!Subscribe(s, a, m)
  PROVE  StreamInv'
<1> DEFINE n == Len(history)
           got == IF m > 0 THEN Wa!Recent(m, a) ELSE <<>>
           all == LetThrough(history, a)
<1>1. /\ stream' = [stream EXCEPT ![s] =
                      [on |-> TRUE, account |-> a, got |-> got]]
      /\ UNCHANGED <<history, buffer>>
  BY DEF Wa!Subscribe
<1>2. n \in Nat /\ m \in Nat
  BY SidecarParameters DEF SidecarParameters
<1>3. all \in Seq(1..n) /\ Len(all) \in Nat
  <2>1. all \in Seq(1..n)
    BY LetThroughIsSeq
  <2> QED BY <2>1, LenProperties
<1>4. got \in Seq(1..n) /\ Ends(got, all)
  <2>1. CASE ~(m > 0)
    BY <1>3, <2>1 DEF Ends
  <2>2. CASE m > 0
    <3> DEFINE S == {i \in 1..n : a \in {All, history[i]}}
               back == Wa!Kept(buffer, S)
    <3>1. got = Wa!LastOf(back, m)
      BY <2>2 DEF Wa!Recent, Wa!Of
    <3>2. all = Wa!Kept(Upto(n), S)
      BY DEF LetThrough
    <3>3. /\ buffer \in Seq(1..n) /\ Upto(n) \in Seq(1..n)
          /\ Ends(buffer, Upto(n))
      BY <1>2, UptoGrows DEF StreamInv
    <3> HIDE DEF n, got, all, S
    <3>4. Ends(back, all)
      BY <3>2, <3>3, KeptEnds
    <3>5. back \in Seq(1..n)
      <4>1. back \in Seq((1..n) \cap S)
        BY <3>3, KeptIsSeq
      <4> QED BY <4>1, SeqMonotonic
    <3> HIDE DEF back
    <3>6. Wa!LastOf(back, m) \in Seq(1..n) /\ Ends(Wa!LastOf(back, m), back)
      BY <1>2, <3>5, LastOfEnds
    <3> QED BY <1>3, <3>1, <3>4, <3>5, <3>6, EndsTransitive
  <2> QED BY <2>1, <2>2
<1> HIDE DEF n, got, all
<1>5. [on |-> TRUE, account |-> a, got |-> got]
        \in [on : BOOLEAN, account : Accounts \cup {All}, got : Seq(1..n)]
  BY <1>4
<1>6. stream' \in [Streams -> [on : BOOLEAN, account : Accounts \cup {All},
                               got : Seq(1..n)]]
  BY <1>1, <1>5 DEF StreamInv, n
<1>7. ASSUME NEW t \in Streams, t \notin Throwing, stream'[t].on
      PROVE  Ends(stream'[t].got, LetThrough(history', stream'[t].account))
  <2>1. CASE t = s
    <3>1. stream'[t] = [on |-> TRUE, account |-> a, got |-> got]
      BY <1>1, <2>1 DEF StreamInv
    <3> QED BY <1>1, <1>4, <3>1 DEF all
  <2>2. CASE t # s
    <3>1. stream'[t] = stream[t]
      BY <1>1, <2>2 DEF StreamInv
    <3> QED BY <1>1, <1>7, <3>1 DEF StreamInv
  <2> QED BY <2>1, <2>2
<1> QED BY <1>1, <1>6, <1>7 DEF StreamInv, n

\* A stream that ended has nothing.
LEMMA StreamUnsubscribe ==
  ASSUME StreamInv, NEW s \in Streams, Wa!Unsubscribe(s)
  PROVE  StreamInv'
<1>1. /\ stream' = [stream EXCEPT ![s].on = FALSE, ![s].got = <<>>]
      /\ UNCHANGED <<history, buffer>>
  BY DEF Wa!Unsubscribe
<1>2. stream[s] = [on |-> stream[s].on, account |-> stream[s].account,
                   got |-> stream[s].got]
  BY DEF StreamInv
<1> DEFINE ended == [on |-> FALSE, account |-> stream[s].account, got |-> <<>>]
<1>3. stream'[s] = ended
  <2>1. stream'[s] = [stream[s] EXCEPT !.on = FALSE, !.got = <<>>]
    BY <1>1 DEF StreamInv
  <2> QED BY <1>2, <2>1
<1>4. /\ DOMAIN stream' = Streams
      /\ \A t \in Streams \ {s} : stream'[t] = stream[t]
  BY <1>1 DEF StreamInv
<1>5. ended \in [on : BOOLEAN, account : Accounts \cup {All},
                got : Seq(1..Len(history))]
  BY DEF StreamInv
<1> HIDE DEF ended
<1>6. stream' = [t \in Streams |-> stream'[t]]
  BY <1>1 DEF StreamInv
<1>7. stream' \in [Streams -> [on : BOOLEAN, account : Accounts \cup {All},
                               got : Seq(1..Len(history))]]
  BY <1>3, <1>4, <1>5, <1>6 DEF StreamInv
<1>8. stream'[s].on = FALSE
  BY <1>3 DEF ended
<1> QED BY <1>1, <1>4, <1>7, <1>8 DEF StreamInv

\* Only the bus writes to the streams.
LEMMA StreamStep ==
  StreamInv /\ history \in Seq(Accounts) /\ [Wa!Next]_(Wa!vars) => StreamInv'
<1> SUFFICES ASSUME StreamInv, history \in Seq(Accounts),
                    [Wa!Next]_(Wa!vars)
             PROVE  StreamInv'
  OBVIOUS
<1>1. CASE UNCHANGED <<history, buffer, stream>>
  BY <1>1 DEF StreamInv
<1> QED BY <1>1, StreamPublish, StreamSubscribe, StreamUnsubscribe
        DEF Wa!Next, Wa!vars, Wa!bus, Wa!Connect, Wa!ConnectFails, Wa!Retry,
            Wa!Pair, Wa!Open, Wa!Close, Wa!Stop

\* What a stream received is the tail of the published messages its filter
\* lets through: a backlog written from the ring buffer and a listener
\* registered in one callback leave no gap and repeat nothing, whatever was
\* published before, however small the buffer and whoever throws.
THEOREM StreamsAreTails == Spec => []StreamIsTail
<1>1. Init => StreamInv
  BY StreamInit DEF Init
<1>2. [Next]_vars => [Wa!Next]_(Wa!vars)
  BY DEF Next, vars, accounts, Wa!vars
<1>3. ASSUME StreamInv, Wa!TypeOK PROVE StreamIsTail
  <2> SUFFICES ASSUME NEW s \in Streams
               PROVE  /\ stream[s].got \in Seq(1..Len(history))
                      /\ s \notin Throwing /\ stream[s].on
                         => Wa!IsSuffix(stream[s].got,
                              Wa!Kept(Wa!Published,
                                      Wa!Of(stream[s].account)))
    BY DEF StreamIsTail, Wa!StreamIsTail
  <2>1. stream[s].got \in Seq(1..Len(history))
    BY <1>3 DEF StreamInv
  <2>2. ASSUME s \notin Throwing, stream[s].on
        PROVE  Wa!IsSuffix(stream[s].got,
                           LetThrough(history, stream[s].account))
    <3>1. history \in Seq(Accounts)
      BY <1>3 DEF Wa!TypeOK
    <3>2. LetThrough(history, stream[s].account) \in Seq(1..Len(history))
      BY <3>1, LetThroughIsSeq
    <3>3. Ends(stream[s].got, LetThrough(history, stream[s].account))
      BY <1>3, <2>2 DEF StreamInv
    <3> QED BY <2>1, <3>2, <3>3, EndsIsSuffix
  <2>3. LetThrough(history, stream[s].account) =
          Wa!Kept(Wa!Published, Wa!Of(stream[s].account))
    BY DEF LetThrough, Upto, Wa!Published, Wa!Of
  <2> QED BY <2>1, <2>2, <2>3
<1>4. Wa!TypeOK => history \in Seq(Accounts)
  BY DEF Wa!TypeOK
<1> QED BY <1>1, <1>2, <1>3, <1>4, StreamStep, AccountsAreTyped, PTL DEF Spec
===============================================================================
