----------------------------- MODULE ExecService ------------------------------
(***************************************************************************)
(* run_command: the gates of the tool in the control plane, the request    *)
(* over MCP to the exec service, and the bash process the service runs and *)
(* kills on a timeout.  A process the command started, in the foreground   *)
(* or not, holds the output pipes; the service waits for their end.        *)
(***************************************************************************)
EXTENDS Naturals, FiniteSets

CONSTANTS Calls    \* the tool calls made over time

VARIABLES request,   \* per call, what its turn sees: "new", "refused",
                     \* "waiting", "answered", "abandoned"
          service,   \* per call, the service's task: "none", "running",
                     \* "killed" (after the timeout), "done"
          bash,      \* per call, its bash process
          child,     \* per call, a process it started, which has the pipes
          timedOut   \* per call, what the result says

vars == <<request, service, bash, child, timedOut>>

Gates == {"channel", "user", "confirm"}
Processes == {"none", "alive", "dead"}

Init == /\ request = [c \in Calls |-> "new"]
        /\ service = [c \in Calls |-> "none"]
        /\ bash = [c \in Calls |-> "none"]
        /\ child = [c \in Calls |-> "none"]
        /\ timedOut = [c \in Calls |-> FALSE]

\* What the turn's message passed: its channel, the invoking user (a scheduled
\* turn has none) and the word "confirm" must all be right.
Gate(passed) == passed = Gates

\* _run in the control plane, and the request to the service.
Call(c, passed) ==
           /\ request[c] = "new"
           /\ IF Gate(passed)
              THEN /\ request' = [request EXCEPT ![c] = "waiting"]
                   /\ service' = [service EXCEPT ![c] = "running"]
                   /\ bash' = [bash EXCEPT ![c] = "alive"]
              ELSE /\ request' = [request EXCEPT ![c] = "refused"]
                   /\ UNCHANGED <<service, bash>>
           /\ UNCHANGED <<child, timedOut>>

\* The command starts a process, as bash does for all but the simplest, and
\* ends, with or without it.
Fork(c) == /\ bash[c] = "alive" /\ child[c] = "none"
           /\ child' = [child EXCEPT ![c] = "alive"]
           /\ UNCHANGED <<request, service, bash, timedOut>>
BashExits(c) == /\ bash[c] = "alive"
                /\ bash' = [bash EXCEPT ![c] = "dead"]
                /\ UNCHANGED <<request, service, child, timedOut>>
ChildExits(c) == /\ child[c] = "alive"
                 /\ child' = [child EXCEPT ![c] = "dead"]
                 /\ UNCHANGED <<request, service, bash, timedOut>>

\* What proc.kill() kills: bash, not what bash started.
Killed(c) == [bash EXCEPT ![c] = "dead"]

\* wait_for gives up on communicate(): the process is killed, and the second
\* communicate() waits for the pipes.
Timeout(c) == /\ service[c] = "running"
              /\ service' = [service EXCEPT ![c] = "killed"]
              /\ timedOut' = [timedOut EXCEPT ![c] = TRUE]
              /\ bash' = Killed(c)
              /\ UNCHANGED <<request, child>>

\* communicate() returns: every process that holds a pipe has ended.
PipesClosed(c) == bash[c] = "dead" /\ child[c] # "alive"

\* The result is returned, to a client that may be gone.
Finish(c) == /\ service[c] \in {"running", "killed"} /\ PipesClosed(c)
             /\ service' = [service EXCEPT ![c] = "done"]
             /\ request' = [request EXCEPT ![c] =
                              IF @ = "waiting" THEN "answered" ELSE @]
             /\ UNCHANGED <<bash, child, timedOut>>

\* The turn is cancelled by its timeout; nothing tells the service.
Abandon(c) == /\ request[c] = "waiting"
              /\ request' = [request EXCEPT ![c] = "abandoned"]
              /\ UNCHANGED <<service, bash, child, timedOut>>

Next == \E c \in Calls : \/ \E passed \in SUBSET Gates : Call(c, passed)
                         \/ Fork(c) \/ BashExits(c)
                         \/ ChildExits(c) \/ Timeout(c) \/ Finish(c)
                         \/ Abandon(c)
Spec == Init /\ [][Next]_vars
\* The service's event loop goes on: its timer fires, and a result that can
\* be returned is.  Nothing makes a command, or what it started, end.
Fairness == \A c \in Calls : WF_vars(Timeout(c)) /\ WF_vars(Finish(c))
FairSpec == Spec /\ Fairness

-------------------------------------------------------------------------------
\* The type invariant.
TypeOK == /\ request \in [Calls -> {"new", "refused", "waiting", "answered",
                                    "abandoned"}]
          /\ service \in [Calls -> {"none", "running", "killed", "done"}]
          /\ bash \in [Calls -> Processes] /\ child \in [Calls -> Processes]
          /\ timedOut \in [Calls -> BOOLEAN]

\* "A hard timeout" (exec-mcp runner.py:4): whatever the command does, its
\* request is answered in the end.
HardTimeout ==
  \A c \in Calls : service[c] = "running" ~> service[c] = "done"

===============================================================================
