-------------------------- MODULE BrowserGoalProofs --------------------------
(***************************************************************************)
(* Theorems about BrowserGoal, for any bounds on steps, calls and resumes. *)
(***************************************************************************)
EXTENDS BrowserGoal, FiniteSetTheorems, TLAPS

\* A run is started at least once, and resumed any number of times.
Bounds == MaxTasks \in Nat \ {0}

-----------------------------------------------------------------------------
(* The invariant.                                                          *)

Entries == [pc : Awaits \cup {"none", "gone", "broke"}, calls : Int,
            cut : Cuts]

TasksExist ==
    /\ task \in [Tasks -> Entries]
    /\ cur \in 0..MaxTasks
    /\ status # "none" => cur # 0
    /\ status = "none" => cur = 0 /\ \A t \in Tasks : task[t].pc = "none"

\* While the run is paused no task drives it, the newest neither, but for those
\* whose cancellation was lost.
PausedIsUndriven ==
    status = "paused" => \A t \in Tasks : Drives(t) => task[t].cut = "lost"

IInv == TasksExist /\ OneDriver /\ PausedIsUndriven

LEMMA InitIInv == ASSUME Bounds PROVE Init => IInv
BY DEF Bounds, Init, IInv, TasksExist, OneDriver, PausedIsUndriven, Drives,
       Alive, Awaits, Task, Tasks, Entries, Cuts

\* Where only tasks drive the run that did, or that lost their cancellation,
\* the same task is the newest and the run is not paused, the invariant is kept.
LEMMA FewerDrive ==
    ASSUME IInv, TasksExist', cur' = cur,
           status' = "paused" => status = "paused",
           \A t \in Tasks : Drives(t)' => \/ task'[t].cut = "lost"
                                          \/ Drives(t) /\ task[t].cut # "lost"
    PROVE  IInv'
BY DEF IInv, OneDriver, PausedIsUndriven, Tasks

LEMMA TaskStepKeeps ==
    ASSUME Bounds, IInv, NEW t \in Tasks, TaskStep(t)
    PROVE  IInv'
<1> USE DEF Bounds, IInv, TasksExist
<1>1. /\ task' \in [Tasks -> Entries]
      /\ \A u \in Tasks \ {t} : task'[u] = task[u]
      /\ Drives(t)' => \/ task'[t].cut = "lost"
                       \/ Drives(t) /\ task[t].cut # "lost"
    <2> USE DEF Drives, Alive, Awaits, At, Entries, Cuts
    <2>1. ASSUME NEW pc \in Awaits, NEW n \in Int, Onward(t, pc, n),
                 task[t].pc \in Awaits \ {"closing"}
          PROVE  <1>1!1 /\ <1>1!2 /\ <1>1!3
        BY <2>1 DEF Onward, Task
    <2>2. ASSUME NEW pc \in Awaits \cup {"gone", "broke"}, Goto(t, pc),
                 \/ At(t, "new") \/ pc \in {"closing", "gone", "broke"}
                 \/ task[t].cut = "asked"
          PROVE  <1>1!1 /\ <1>1!2 /\ <1>1!3
        BY <2>2 DEF Goto
    <2>3. task[t].calls \in Int /\ task[t].calls - 1 \in Int
        OBVIOUS
    <2>4. CASE Begin(t)
        BY <2>1, <2>2, <2>3, <2>4 DEF Begin, Head
    <2>5. CASE Opened(t) \/ Napped(t)
        BY <2>1, <2>3, <2>5 DEF Opened, Napped, Head
    <2>6. CASE AskTools(t)
        BY <2>1, <2>6 DEF AskTools
    <2>7. CASE Tool(t)
        BY <2>1, <2>3, <2>7 DEF Tool
    <2>8. CASE \/ Breaks(t) \/ AskFails(t) \/ AskFinal(t) \/ CancelLands(t)
               \/ CancelHandled(t) \/ Closed(t)
        BY <2>2, <2>8 DEF Breaks, AskFails, AskFinal, CancelLands,
                          CancelHandled, Closed, Finish
    <2> QED BY <2>4, <2>5, <2>6, <2>7, <2>8 DEF TaskStep
<1>2. cur' = cur /\ (status' = "paused" => status = "paused")
                 /\ status # "none" /\ status' # "none"
    BY DEF Awaits, TaskStep, Begin, Breaks, Opened, Napped, AskFails,
           AskFinal, AskTools, Tool, CancelLands, CancelHandled, Closed, Head,
           Finish, run, At
<1>3. TasksExist'
    BY <1>1, <1>2
<1>4. \A u \in Tasks \ {t} : Drives(u)' = Drives(u)
    BY <1>1 DEF Drives, Alive
<1>5. \A u \in Tasks : Drives(u)' => \/ task'[u].cut = "lost"
                                     \/ Drives(u) /\ task[u].cut # "lost"
    BY <1>1, <1>4
<1> QED BY <1>2, <1>3, <1>5, FewerDrive

\* A request that cancels the newest task leaves none that drives the run, but
\* for those that lost an earlier cancellation.
LEMMA CancelKeeps ==
    ASSUME Bounds, IInv, status # "none", status' # "none", cur' = cur,
           task' = [task EXCEPT ![cur].cut = IF Alive(cur) THEN "asked"
                                                           ELSE @]
    PROVE  IInv'
<1> USE DEF Bounds, IInv, TasksExist, Drives, Alive, Awaits, Tasks
<1>1. cur \in Tasks
    OBVIOUS
<1>2. TasksExist'
    BY <1>1 DEF Entries, Cuts
<1>3. \A t \in Tasks : Drives(t)' => task'[t].cut = "lost"
    BY <1>1 DEF OneDriver
<1> QED BY <1>2, <1>3 DEF OneDriver, PausedIsUndriven

\* A task is added when no other drives the run, and is the newest then.
LEMMA NewTaskKeeps ==
    ASSUME Bounds, IInv, NewTask, cur < MaxTasks, cur' = cur + 1,
           status' = "running",
           \A t \in Tasks : Drives(t) => task[t].cut = "lost"
    PROVE  IInv'
<1> USE DEF Bounds, IInv, TasksExist, Drives, Alive, Awaits, Tasks, Task
<1>1. TasksExist'
    BY DEF NewTask, Entries, Cuts
<1>2. \A t \in Tasks : Drives(t)' => t = cur + 1 \/ task'[t].cut = "lost"
    BY DEF NewTask
<1> QED BY <1>1, <1>2 DEF OneDriver, PausedIsUndriven

LEMMA StepIInv == ASSUME Bounds PROVE IInv /\ [Next]_vars => IInv'
<1> SUFFICES ASSUME IInv, [Next]_vars PROVE IInv'
    OBVIOUS
<1>1. CASE \E t \in Tasks : TaskStep(t)
    BY <1>1, TaskStepKeeps
<1>2. CASE Start
    <2>1. cur = 0 /\ \A t \in Tasks : ~Drives(t)
        BY <1>2 DEF Start, IInv, TasksExist, Drives, Alive, Awaits
    <2> QED BY <1>2, <2>1, NewTaskKeeps DEF Start, Bounds
<1>3. CASE Resume
    <2>1. \A t \in Tasks : Drives(t) => task[t].cut = "lost"
        BY <1>3 DEF Resume, IInv, PausedIsUndriven
    <2> QED BY <1>3, <2>1, NewTaskKeeps DEF Resume
<1>4. CASE Shutdown
    <2>1. status # "none"
        BY <1>4 DEF Shutdown, IInv, TasksExist, Bounds
    <2> QED BY <1>4, <2>1, CancelKeeps DEF Shutdown, run
<1>5. CASE \E c \in Callers : Pause(c) \/ Stop(c)
    BY <1>5, CancelKeeps DEF Pause, Stop, CancelTask
<1>6. CASE UNCHANGED <<status, task, cur>>
    BY <1>6 DEF IInv, TasksExist, OneDriver, PausedIsUndriven, Drives, Alive
<1> QED BY <1>1, <1>2, <1>3, <1>4, <1>5, <1>6 DEF Next, Steer, Waited, run,
           vars

LEMMA Invariance == ASSUME Bounds PROVE Spec => []IInv
BY InitIInv, StepIInv, PTL DEF Spec

-----------------------------------------------------------------------------
(* The theorems.                                                           *)

\* However pauses, resumes and stops overlap, one task makes calls for the run:
\* the newest, and beside it only those whose cancellation was lost.
THEOREM RunHasOneDriver == ASSUME Bounds PROVE Spec => []OneDriver
BY Invariance, PTL DEF IInv

\* While a run is paused nothing it does counts and it stays paused, until it is
\* resumed or a stop is asked for; but for what a task does whose cancellation
\* came to nothing, the call it was in included.
THEOREM PausedRunIsQuiet == ASSUME Bounds PROVE Spec => PausedIsQuiet
<1>1. ASSUME IInv, [Next]_vars
      PROVE  [UndisturbedPause]_vars
    <2> SUFFICES ASSUME status = "paused",
                        ~ \E t \in Tasks : /\ task'[t] # task[t]
                                           /\ task'[t].cut = "lost"
                 PROVE  /\ step' = step
                        /\ \/ status' = "paused"
                           \/ status' = "running" /\ cur' = cur + 1
                           \/ status' = "stopped" /\ asked'
        BY DEF UndisturbedPause
    <2>1. CASE \E t \in Tasks : TaskStep(t)
        <3>1. PICK t \in Tasks : TaskStep(t)
            BY <2>1
        <3>2. task[t] \in Entries /\ task \in [Tasks -> Entries]
            BY <1>1 DEF IInv, TasksExist
        <3>3. Drives(t) => task[t].cut = "lost"
            BY <1>1 DEF IInv, PausedIsUndriven
        <3>4. ASSUME task[t].pc \in Awaits \ {"closing"}, NEW pc, NEW n,
                     pc # task[t].pc \/ n # task[t].calls, Onward(t, pc, n)
              PROVE  FALSE
            <4>1. task[t].cut # "no"
                BY <3>3, <3>4 DEF Drives, Alive
            <4>2. task'[t].cut = "lost" /\ task'[t] # task[t]
                BY <3>2, <3>4, <4>1 DEF Onward, Task, Entries, Cuts
            <4> QED BY <4>2
        <3>5. ASSUME task[t].pc \in Awaits \ {"closing"}, NEW pc,
                     pc # task[t].pc, task[t].cut # "asked", Goto(t, pc)
              PROVE  FALSE
            <4>1. task[t].cut = "lost"
                BY <3>3, <3>5 DEF Drives, Alive
            <4>2. task'[t].cut = "lost" /\ task'[t] # task[t]
                BY <3>2, <3>5, <4>1 DEF Goto, Entries
            <4> QED BY <4>2
        <3>6. CASE Begin(t) \/ Breaks(t)
            BY <3>4, <3>5, <3>6 DEF Begin, Breaks, Head, At, Awaits
        <3>7. CASE Opened(t) \/ Napped(t) \/ AskTools(t)
            BY <3>4, <3>7 DEF Opened, Napped, AskTools, Head, At, Awaits
        <3>8. CASE AskFails(t) \/ AskFinal(t)
            BY <3>5, <3>8 DEF AskFails, AskFinal, Finish, At, Awaits
        <3>9. CASE Tool(t)
            <4>1. task[t].calls - 1 # task[t].calls
                BY <3>2 DEF Entries
            <4> QED BY <3>4, <3>9, <4>1 DEF Tool, Awaits
        <3>10. CASE CancelLands(t) \/ CancelHandled(t) \/ Closed(t)
            BY <3>10 DEF CancelLands, CancelHandled, Closed, Finish, run
        <3> QED BY <3>1, <3>6, <3>7, <3>8, <3>9, <3>10 DEF TaskStep
    <2>2. CASE (\E c \in Callers : Stop(c)) \/ Resume
        BY <2>2 DEF Stop, Resume
    <2>3. CASE step' = step /\ status' = "paused"
        BY <2>3
    <2> QED BY <1>1, <2>1, <2>2, <2>3 DEF Next, vars, run, Start, Steer,
               Shutdown, Pause, Waited
<1> QED BY <1>1, Invariance, PTL DEF Spec, PausedIsQuiet

-----------------------------------------------------------------------------
(* The types.                                                              *)

CountBounds == MaxCalls \in Nat /\ MaxSteer \in Nat

\* A task that executes calls has some left.
Counts ==
    /\ step \in Nat /\ steer \in 0..MaxSteer
    /\ \A t \in Tasks : /\ task[t].calls \in 0..MaxCalls
                        /\ task[t].pc = "tool" => task[t].calls # 0
    /\ ctl \in [Callers -> [pc : {"idle", "wait"}, task : 0..MaxTasks]]

LEMMA TaskCounts ==
    ASSUME Bounds, CountBounds, IInv, Counts, NEW t \in Tasks, TaskStep(t)
    PROVE  Counts'
<1> USE DEF Bounds, CountBounds, IInv, TasksExist, Counts
<1>1. step' \in Nat /\ steer' \in {0, steer} /\ ctl' = ctl
    BY DEF TaskStep, Begin, Breaks, Opened, Napped, AskFails, AskFinal,
           AskTools, Tool, CancelLands, CancelHandled, Closed, Head, run
<1>2. ASSUME NEW pc, NEW n \in 0..MaxCalls, pc = "tool" => n # 0,
             Onward(t, pc, n)
      PROVE  Counts'
    BY <1>1, <1>2 DEF Onward, Task
<1>3. ASSUME NEW pc, pc # "tool", Goto(t, pc)
      PROVE  Counts'
    BY <1>1, <1>3 DEF Goto
<1>4. CASE Begin(t) \/ Opened(t) \/ Napped(t)
    BY <1>2, <1>3, <1>4 DEF Begin, Opened, Napped, Head
<1>5. CASE AskTools(t)
    BY <1>2, <1>5 DEF AskTools
<1>6. CASE Tool(t)
    <2>1. task[t].calls - 1 \in 0..MaxCalls
        BY <1>6 DEF Tool
    <2> QED BY <1>2, <1>6, <2>1 DEF Tool
<1>7. CASE \/ Breaks(t) \/ AskFails(t) \/ AskFinal(t) \/ CancelLands(t)
           \/ CancelHandled(t) \/ Closed(t)
    BY <1>3, <1>7 DEF Breaks, AskFails, AskFinal, CancelLands, CancelHandled,
                      Closed, Finish
<1> QED BY <1>4, <1>5, <1>6, <1>7 DEF TaskStep

LEMMA CountsStep ==
    ASSUME Bounds, CountBounds, IInv, Counts, [Next]_vars
    PROVE  Counts'
<1> USE DEF Bounds, CountBounds, IInv, TasksExist, Counts
<1>1. CASE \E t \in Tasks : TaskStep(t)
    BY <1>1, TaskCounts
<1>2. CASE Start \/ Resume
    <2>1. NewTask /\ UNCHANGED <<step, steer, ctl>>
        BY <1>2 DEF Start, Resume
    <2> QED BY <2>1 DEF NewTask, Task, Tasks
<1>3. CASE Steer
    BY <1>3 DEF Steer
<1>4. ASSUME NEW cut, task' = [task EXCEPT ![cur].cut = cut],
             UNCHANGED <<step, steer>>,
             ctl' \in [Callers -> [pc : {"idle", "wait"}, task : 0..MaxTasks]]
      PROVE  Counts'
    BY <1>4
<1>5. CASE Shutdown
    BY <1>4, <1>5 DEF Shutdown, run
<1>6. CASE \E c \in Callers : Pause(c) \/ Stop(c)
    <2>1. PICK c \in Callers : CancelTask(c) /\ UNCHANGED <<step, steer>>
        BY <1>6 DEF Pause, Stop
    <2>2. ctl' \in [Callers -> [pc : {"idle", "wait"}, task : 0..MaxTasks]]
        BY <2>1 DEF CancelTask
    <2> QED BY <1>4, <2>1, <2>2 DEF CancelTask
<1>7. CASE \E c \in Callers : Waited(c)
    <2>1. ctl' \in [Callers -> [pc : {"idle", "wait"}, task : 0..MaxTasks]]
        BY <1>7 DEF Waited, Free
    <2> QED BY <1>7, <2>1 DEF Waited, run
<1>8. CASE UNCHANGED vars
    BY <1>8 DEF vars
<1> QED BY <1>1, <1>2, <1>3, <1>5, <1>6, <1>7, <1>8 DEF Next

\* The run, its tasks and its requests keep to the states of the code, and no
\* task has fewer calls left than it makes.
THEOREM RunTypeCorrect ==
    ASSUME Bounds, CountBounds PROVE Spec => []TypeOK
<1>1. Init => Counts
    BY DEF Bounds, CountBounds, Init, Counts, Task, Free
<1>2. Spec => [](IInv /\ Counts)
    BY <1>1, Invariance, CountsStep, PTL DEF Spec
<1>3. IInv /\ Counts /\ status \in States => TypeOK
    BY DEF IInv, TasksExist, Entries, Counts, TypeOK
<1>4. Init => status \in States
    BY DEF Init, States
<1>5. status \in States /\ [Next]_vars => (status \in States)'
    BY DEF Next, vars, run, States, TaskStep, Begin, Breaks, Opened, Napped,
           Head, Finish, AskFails, AskFinal, AskTools, Tool, CancelLands,
           CancelHandled, Closed, Start, Steer, Resume, Shutdown, Pause, Stop,
           Waited
<1>6. Spec => [](status \in States)
    BY <1>4, <1>5, PTL DEF Spec
<1> QED BY <1>2, <1>3, <1>6, PTL
=============================================================================
