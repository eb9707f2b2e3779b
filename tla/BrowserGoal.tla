---------------------------- MODULE BrowserGoal ----------------------------
(***************************************************************************)
(* One run of the browser goal runner: the task that drives it, and the    *)
(* requests that steer, pause, resume and stop it.  A request cancels the  *)
(* task and waits for it; until the task's handlers have run, which for a  *)
(* tool call includes killing a subprocess, other requests are served.  A  *)
(* cancellation that meets a subprocess which has just exited is lost.     *)
(***************************************************************************)
EXTENDS Naturals, FiniteSets

CONSTANTS
    Callers,        \* requests that pause or stop
    MaxSteps,       \* max_steps of the run
    MaxCalls,       \* bound: tool calls in one completion
    MaxTasks,       \* bound: 1 + number of resumes
    MaxSteer,       \* bound: messages in the steering queue
    HasUrl          \* the run was started with a url

VARIABLES
    status,     \* run.status ("none" before start)
    step,       \* run.step
    steer,      \* length of run.steering_queue
    task,       \* every task started for the run
    cur,        \* run.task
    ctl,        \* each pause or stop: what it waits for
    asked,      \* a stop was requested, or the process is closing (history)
    down        \* aclose was called

vars == <<status, step, steer, task, cur, ctl, asked, down>>
run == <<status, step, steer>>

Tasks == 1..MaxTasks
States ==
    {"none", "running", "paused", "blocked", "done", "failed", "stopped"}
Awaits == {"new", "open", "ask", "refused", "tool", "nap", "killing",
           "closing"}
\* A task is not cancelled, to be cancelled, or was: the cancellation is lost.
Cuts == {"no", "asked", "lost"}

\* calls: the tool calls of its completions that have no result.
Task(pc, calls, cut) == [pc |-> pc, calls |-> calls, cut |-> cut]
Free == [pc |-> "idle", task |-> 0]

Init ==
    /\ status = "none" /\ step = 0 /\ steer = 0
    /\ task = [t \in Tasks |-> Task("none", 0, "no")]
    /\ cur = 0
    /\ ctl = [c \in Callers |-> Free]
    /\ asked = FALSE /\ down = FALSE

Alive(t) == task[t].pc \in Awaits

-----------------------------------------------------------------------------
(* The loop.                                                               *)

At(t, pc) == task[t].pc = pc /\ task[t].cut # "asked"
Goto(t, pc) == task' = [task EXCEPT ![t].pc = pc]
Finish(t, st) == status' = st /\ Goto(t, "closing")

\* The task goes on, whether or not it was to be cancelled.
Onward(t, pc, calls) ==
    task' = [task EXCEPT ![t] =
        Task(pc, calls, IF @.cut = "asked" THEN "lost" ELSE @.cut)]

\* The head of the while loop, up to the request to the model: steering is
\* appended to the transcript there.  The API refuses a transcript that has
\* calls without results.
Head(t, n) ==
    IF status # "running"
    THEN Onward(t, "closing", task[t].calls) /\ UNCHANGED <<status, steer>>
    ELSE IF n >= MaxSteps
         THEN /\ status' = "blocked"
              /\ Onward(t, "closing", task[t].calls)
              /\ UNCHANGED steer
         ELSE /\ Onward(t, IF \A u \in Tasks : task[u].calls = 0
                           THEN "ask" ELSE "refused", task[t].calls)
              /\ steer' = 0
              /\ UNCHANGED status

Begin(t) ==
    /\ At(t, "new")
    /\ IF HasUrl /\ step = 0
       THEN Goto(t, "open") /\ UNCHANGED <<status, steer>>
       ELSE Head(t, step)
    /\ UNCHANGED <<step, cur, ctl, asked, down>>

\* The client or the tool context is not made: this is outside the try, and
\* the run stays as it is.
Breaks(t) ==
    /\ At(t, "new")
    /\ Goto(t, "broke")
    /\ UNCHANGED <<run, cur, ctl, asked, down>>

\* The browser is open, or is not: any result counts.  To kill an exited
\* subprocess raises in the place of the cancellation, which is a result too.
Opened(t) ==
    /\ task[t].pc = "open"
    /\ step' = step + 1
    /\ Head(t, step + 1)
    /\ UNCHANGED <<cur, ctl, asked, down>>

Napped(t) ==
    /\ At(t, "nap")
    /\ Head(t, step)
    /\ UNCHANGED <<step, cur, ctl, asked, down>>

AskFails(t) ==
    /\ At(t, "ask") \/ At(t, "refused")
    /\ Finish(t, "failed")
    /\ UNCHANGED <<step, steer, cur, ctl, asked, down>>

AskFinal(t) ==
    /\ At(t, "ask")
    /\ Finish(t, "done")
    /\ UNCHANGED <<step, steer, cur, ctl, asked, down>>

AskTools(t) ==
    /\ At(t, "ask")
    /\ \E n \in 1..MaxCalls :
          Onward(t, IF step >= MaxSteps THEN "closing" ELSE "tool", n)
    /\ status' = IF step >= MaxSteps THEN "blocked" ELSE status
    /\ UNCHANGED <<step, steer, cur, ctl, asked, down>>

\* (fault) A tool call is no step.
ToolUncounted(t) ==
    LET left == task[t].calls - 1 IN
    /\ task[t].pc = "tool"
    /\ Onward(t, IF status # "running" THEN "closing"
                 ELSE IF left = 0 THEN "nap" ELSE "tool", left)
    /\ UNCHANGED <<status, step, steer, cur, ctl, asked, down>>

\* A tool call has returned, whatever its result; as above, it may have been
\* cancelled too late.
Tool(t) ==
    LET left == task[t].calls - 1
        spent == left > 0 /\ step + 1 >= MaxSteps
    IN
    /\ task[t].pc = "tool"
    /\ step' = step + 1
    /\ status' = IF status = "running" /\ spent THEN "blocked" ELSE status
    /\ Onward(t, IF status # "running" \/ spent THEN "closing"
                 ELSE IF left = 0 THEN "nap" ELSE "tool", left)
    /\ UNCHANGED <<steer, cur, ctl, asked, down>>

\* The cancellation arrives: a task that has not begun just ends, a tool call
\* kills its subprocess first.
CancelLands(t) ==
    /\ task[t].cut = "asked"
    /\ \/ task[t].pc = "new" /\ Goto(t, "gone")
       \/ task[t].pc \in {"open", "tool"} /\ Goto(t, "killing")
    /\ UNCHANGED <<run, cur, ctl, asked, down>>

\* (fault) The cancelled loop reports itself stopped, whoever paused it.
CancelHandledAlways(t) ==
    /\ task[t].cut = "asked"
    /\ task[t].pc \in {"ask", "refused", "nap", "killing"}
    /\ Finish(t, "stopped")
    /\ UNCHANGED <<step, steer, cur, ctl, asked, down>>

\* except CancelledError: the status is read now, not when it was requested.
CancelHandled(t) ==
    /\ task[t].cut = "asked"
    /\ task[t].pc \in {"ask", "refused", "nap", "killing"}
    /\ Finish(t, IF status \in {"paused", "stopped"} THEN status
                 ELSE "stopped")
    /\ UNCHANGED <<step, steer, cur, ctl, asked, down>>

\* finally: the client is closed.
Closed(t) ==
    /\ task[t].pc = "closing"
    /\ Goto(t, "gone")
    /\ UNCHANGED <<run, cur, ctl, asked, down>>

TaskStep(t) ==
    \/ Begin(t) \/ Breaks(t) \/ Opened(t) \/ Napped(t)
    \/ AskFails(t) \/ AskFinal(t) \/ AskTools(t) \/ Tool(t)
    \/ CancelLands(t) \/ CancelHandled(t) \/ Closed(t)

-----------------------------------------------------------------------------
(* The requests.                                                           *)

NewTask == task' = [task EXCEPT ![cur + 1] = Task("new", 0, "no")]

Start ==
    /\ status = "none"
    /\ status' = "running"
    /\ NewTask
    /\ cur' = 1
    /\ UNCHANGED <<step, steer, ctl, asked, down>>

Steer ==
    /\ status # "none" /\ ~down
    /\ steer < MaxSteer
    /\ steer' = steer + 1
    /\ UNCHANGED <<status, step, task, cur, ctl, asked, down>>

\* _cancel_task: cancel, then wait until the task is done.
CancelTask(c) ==
    /\ task' = [task EXCEPT ![cur].cut = IF Alive(cur) THEN "asked"
                                             ELSE @]
    /\ ctl' = [ctl EXCEPT ![c] = [pc |-> "wait", task |-> cur]]

\* (fault) The task is left to find out by itself.
PauseLazily(c) ==
    /\ ctl[c].pc = "idle" /\ ~down
    /\ status = "running"
    /\ status' = "paused"
    /\ ctl' = [ctl EXCEPT ![c] = [pc |-> "wait", task |-> cur]]
    /\ UNCHANGED <<step, steer, task, cur, asked, down>>

Pause(c) ==
    /\ ctl[c].pc = "idle" /\ ~down
    /\ status = "running"
    /\ status' = "paused"
    /\ CancelTask(c)
    /\ UNCHANGED <<step, steer, cur, asked, down>>

Resume ==
    /\ status = "paused" /\ ~down
    /\ cur < MaxTasks
    /\ status' = "running"
    /\ NewTask
    /\ cur' = cur + 1
    /\ UNCHANGED <<step, steer, ctl, asked, down>>

Stop(c) ==
    /\ ctl[c].pc = "idle" /\ ~down
    /\ status # "none"
    /\ status' = "stopped"
    /\ CancelTask(c)
    /\ asked' = TRUE
    /\ UNCHANGED <<step, steer, cur, down>>

\* The task is done: the request answers; a stop may close the browser first,
\* which changes nothing but last_output.
Waited(c) ==
    /\ ctl[c].pc = "wait"
    /\ ~Alive(ctl[c].task)
    /\ ctl' = [ctl EXCEPT ![c] = Free]
    /\ UNCHANGED <<run, task, cur, asked, down>>

Shutdown ==
    /\ cur > 0 /\ ~down
    /\ down' = TRUE
    /\ asked' = TRUE
    /\ task' = [task EXCEPT ![cur].cut = IF Alive(cur) THEN "asked"
                                             ELSE @]
    /\ UNCHANGED <<run, cur, ctl>>

Next ==
    \/ \E t \in Tasks : TaskStep(t)
    \/ Start \/ Steer \/ Resume \/ Shutdown
    \/ \E c \in Callers : Pause(c) \/ Stop(c) \/ Waited(c)

Spec == Init /\ [][Next]_vars

\* The model answers or times out, a tool call ends within its timeout, a
\* killed subprocess is reaped, and the event loop resumes what is ready.
Fairness ==
    /\ \A t \in Tasks : WF_vars(TaskStep(t))
    /\ \A c \in Callers : WF_vars(Waited(c))

FairSpec == Spec /\ Fairness

-----------------------------------------------------------------------------
(* Properties.                                                             *)

\* The run, its tasks and requests are in states the code can put them in.
TypeOK ==
    /\ status \in States
    /\ step \in Nat
    /\ steer \in 0..MaxSteer
    /\ \A t \in Tasks :
          /\ task[t].pc \in Awaits \cup {"none", "gone", "broke"}
          /\ task[t].calls \in 0..MaxCalls
          /\ task[t].cut \in Cuts
    /\ cur \in 0..MaxTasks
    /\ \A c \in Callers : ctl[c].task \in 0..MaxTasks

\* The task makes calls for the run, and will make more.
Drives(t) ==
    Alive(t) /\ task[t].cut # "asked" /\ task[t].pc # "closing"

\* A resumed run has one loop: an earlier task was cancelled and makes no call
\* any more.  One alone can go on beside the new one, which was resumed before
\* the old one's cancellation came to nothing (playwright_cli.py:63-66,
\* runtime.py:94-98).
OneDriver == \A t \in Tasks : Drives(t) => t = cur \/ task[t].cut = "lost"

\* While a run is paused nothing it does counts and it stays paused, until a
\* resume starts another task or a stop is asked for, however slowly its own
\* task ends; but for a task whose cancellation was lost, which counts the
\* call it was in and, if the run was resumed and paused again, goes on.
UndisturbedPause ==
    status = "paused" =>
        \/ /\ step' = step
           /\ \/ status' = "paused"
              \/ status' = "running" /\ cur' = cur + 1
              \/ status' = "stopped" /\ asked'
        \/ \E t \in Tasks : task'[t] # task[t] /\ task'[t].cut = "lost"
PausedIsQuiet == [][UndisturbedPause]_vars

\* A run that runs comes to an end or to a pause; but for one whose newest
\* task broke before its try, which nothing ends (browser_goal_runner.py:205).
RunEnds ==
    status = "running" ~> \/ status # "running" \/ down
                          \/ cur # 0 /\ task[cur].pc = "broke"

=============================================================================
