----------------------------- MODULE CodexTurn -----------------------------
(***************************************************************************)
(* Codex turns: a turn prepares its topic's workspace, waits for the lock  *)
(* of that workspace, mounts its skills there and drives a `codex exec`    *)
(* subprocess, which reaches the agent's tools through a loopback bridge   *)
(* with a token minted for the turn.  Topics whose names have the same     *)
(* slug share a workspace.                                                 *)
(***************************************************************************)
EXTENDS Naturals, FiniteSets

CONSTANTS
    Turns,
    Spaces,         \* workspace directories
    SpaceOf,        \* [Turns -> Spaces]: where a turn's topic lives
    Skills,         \* names of database skills
    Wanted,         \* [Turns -> SUBSET Skills]: configured and loaded
    None

VARIABLES
    git,        \* each workspace's repository
    folder,     \* .agents/skills of each workspace, by name
    holder,     \* the turn that has the workspace's lock, or None
    turn,       \* where each turn is
    tokens,     \* turns whose bridge token is known
    child,      \* each turn's codex process
    call,       \* a bridged tool call of the turn is executing
    broken      \* turns whose output could not be read (history)

vars == <<git, folder, holder, turn, tokens, child, call, broken>>
tree == <<git, folder>>

Init ==
    /\ git = [s \in Spaces |-> "none"]
    /\ folder = [s \in Spaces |-> [k \in Skills |-> "absent"]]
    /\ holder = [s \in Spaces |-> None]
    /\ turn = [t \in Turns |-> "idle"]
    /\ tokens = {}
    /\ child = [t \in Turns |-> "none"]
    /\ call = [t \in Turns |-> "none"]
    /\ broken = {}

Goto(t, pc) == turn' = [turn EXCEPT ![t] = pc]
Managed(s) == {k \in Skills : folder[s][k] = "managed"}

-----------------------------------------------------------------------------
(* Before the lock.                                                        *)

\* WorkspaceManager.ensure: a .git directory, even one that another turn's
\* `git init` is still filling, is taken for a repository.
Ensure(t) ==
    LET s == SpaceOf[t] IN
    /\ turn[t] = "idle"
    /\ \/ git[s] = "none" /\ git' = [git EXCEPT ![s] = "init"]
          /\ Goto(t, "init")
       \/ git[s] = "init" /\ UNCHANGED git /\ turn' \in
             {[turn EXCEPT ![t] = "init"], [turn EXCEPT ![t] = "load"]}
       \/ git[s] = "ready" /\ UNCHANGED git /\ Goto(t, "load")
    /\ UNCHANGED <<folder, holder, tokens, child, call, broken>>

GitInit(t) ==
    /\ turn[t] = "init"
    /\ git' = [git EXCEPT ![SpaceOf[t]] = "ready"]
    /\ Goto(t, "load")
    /\ UNCHANGED <<folder, holder, tokens, child, call, broken>>

\* The skill rows are read, then the token minted (if tools are exposed).
Mint(t) ==
    /\ turn[t] = "load"
    /\ Goto(t, "wait")
    /\ tokens' \in {tokens, tokens \cup {t}}
    /\ UNCHANGED <<tree, holder, child, call, broken>>

-----------------------------------------------------------------------------
(* With the lock.                                                          *)

\* _mount_db_skills: only folders with a marker are replaced or removed.
Mounted(t) ==
    [k \in Skills |-> IF k \in Wanted[t] THEN "managed"
                      ELSE IF folder[SpaceOf[t]][k] = "managed" THEN "absent"
                      ELSE folder[SpaceOf[t]][k]]

\* (fault) Whatever is in the way is overwritten.
BlockedNever(t) == {}

Blocked(t) == {k \in Wanted[t] : folder[SpaceOf[t]][k] = "own"}

\* (fault) The lock is that of the turn, not that of the workspace.
StartUnlocked(t) ==
    LET s == SpaceOf[t] IN
    /\ turn[t] = "wait"
    /\ Blocked(t) = {}
    /\ folder' = [folder EXCEPT ![s] = Mounted(t)]
    /\ holder' = [holder EXCEPT ![s] = t]
    /\ child' = [child EXCEPT ![t] = "alive"]
    /\ Goto(t, "run")
    /\ UNCHANGED <<git, tokens, call, broken>>

Start(t) ==
    LET s == SpaceOf[t] IN
    /\ turn[t] = "wait"
    /\ holder[s] = None
    /\ Blocked(t) = {}
    /\ folder' = [folder EXCEPT ![s] = Mounted(t)]
    /\ holder' = [holder EXCEPT ![s] = t]
    /\ child' = [child EXCEPT ![t] = "alive"]
    /\ Goto(t, "run")
    /\ UNCHANGED <<git, tokens, call, broken>>

\* (fault) The token outlives the turn.
LeaveKeepsToken(t) ==
    /\ holder' = [s \in Spaces |-> IF holder[s] = t THEN None ELSE holder[s]]
    /\ Goto(t, "done")
    /\ UNCHANGED tokens

\* The lock is given up, then the token.
Leave(t) ==
    /\ holder' = [s \in Spaces |-> IF holder[s] = t THEN None ELSE holder[s]]
    /\ tokens' = tokens \ {t}
    /\ Goto(t, "done")

\* A folder the workspace owns is in the way of a wanted skill: stale skills
\* are gone and the rows before it mounted when the turn fails.
MountRefused(t) ==
    LET s == SpaceOf[t] IN
    /\ turn[t] = "wait"
    /\ holder[s] = None
    /\ Blocked(t) # {}
    /\ \E done \in SUBSET (Wanted[t] \ Blocked(t)) :
          folder' = [folder EXCEPT ![s] = [k \in Skills |->
              IF k \in done THEN "managed"
              ELSE IF k \in Wanted[t] THEN folder[s][k] ELSE Mounted(t)[k]]]
    /\ Leave(t)
    /\ UNCHANGED <<git, child, call, broken>>

\* The end of the output: codex has exited.
Finish(t) ==
    /\ turn[t] = "run"
    /\ child[t] = "dead"
    /\ Leave(t)
    /\ UNCHANGED <<tree, child, call, broken>>

\* (fault) The error path leaves without the lock's exit.
ReadFailsHolding(t) ==
    /\ turn[t] = "run"
    /\ child[t] = "alive"
    /\ broken' = broken \cup {t}
    /\ tokens' = tokens \ {t}
    /\ Goto(t, "done")
    /\ UNCHANGED <<tree, holder, child, call>>

\* A line beyond the reader's limit raises ValueError, which is no
\* cancellation: nothing ends the process.
ReadFails(t) ==
    /\ turn[t] = "run"
    /\ child[t] = "alive"
    /\ broken' = broken \cup {t}
    /\ Leave(t)
    /\ UNCHANGED <<tree, child, call>>

\* The turn timeout, or a shutdown: the process is killed, then reaped.
CancelRun(t) ==
    /\ turn[t] = "run"
    /\ child' = [child EXCEPT ![t] = "dead"]
    /\ Goto(t, "reap")
    /\ UNCHANGED <<tree, holder, tokens, call, broken>>

Reap(t) ==
    /\ turn[t] = "reap"
    /\ Leave(t)
    /\ UNCHANGED <<tree, child, call, broken>>

\* A cancellation before the process runs; `git init` goes on by itself.
CancelEarly(t) ==
    /\ turn[t] \in {"init", "load", "wait"}
    /\ git' = IF turn[t] = "init"
              THEN [git EXCEPT ![SpaceOf[t]] = "ready"] ELSE git
    /\ Leave(t)
    /\ UNCHANGED <<folder, child, call, broken>>

-----------------------------------------------------------------------------
(* The subprocess.                                                         *)

Exit(t) ==
    /\ child[t] = "alive"
    /\ child' = [child EXCEPT ![t] = "dead"]
    /\ UNCHANGED <<tree, holder, turn, tokens, call, broken>>

\* Codex may keep a skill folder of its own in its workspace.
OwnFolder(t, k) ==
    /\ child[t] = "alive"
    /\ folder[SpaceOf[t]][k] = "absent"
    /\ folder' = [folder EXCEPT ![SpaceOf[t]][k] = "own"]
    /\ UNCHANGED <<git, holder, turn, tokens, child, call, broken>>

\* _dispatch: a call is executed if its token is known.
BridgeCall(t) ==
    /\ child[t] = "alive"
    /\ t \in tokens
    /\ call[t] = "none"
    /\ call' = [call EXCEPT ![t] = "running"]
    /\ UNCHANGED <<tree, holder, turn, tokens, child, broken>>

BridgeReturn(t) ==
    /\ call[t] = "running"
    /\ call' = [call EXCEPT ![t] = "none"]
    /\ UNCHANGED <<tree, holder, turn, tokens, child, broken>>

TurnStep(t) ==
    \/ GitInit(t) \/ Mint(t) \/ Start(t) \/ MountRefused(t)
    \/ Finish(t) \/ Reap(t)

Next ==
    \E t \in Turns :
        \/ Ensure(t) \/ TurnStep(t)
        \/ CancelRun(t) \/ CancelEarly(t) \/ ReadFails(t)
        \/ Exit(t) \/ BridgeCall(t) \/ BridgeReturn(t)
        \/ \E k \in Skills : OwnFolder(t, k)

Spec == Init /\ [][Next]_vars

\* Nobody has to begin a turn; asyncio.timeout bounds every turn begun, and a
\* killed process is reaped.
Fairness ==
    \A t \in Turns : WF_vars(CancelRun(t)) /\ WF_vars(TurnStep(t))

FairSpec == Spec /\ Fairness

-----------------------------------------------------------------------------
(* Properties.                                                             *)

\* Workspaces, turns and processes are in states the code can put them in.
TypeOK ==
    /\ git \in [Spaces -> {"none", "init", "ready"}]
    /\ folder \in [Spaces -> [Skills -> {"absent", "managed", "own"}]]
    /\ holder \in [Spaces -> Turns \cup {None}]
    /\ turn \in [Turns ->
          {"idle", "init", "load", "wait", "run", "reap", "done"}]
    /\ tokens \subseteq {t \in Turns : turn[t] \in {"wait", "run", "reap"}}
    /\ child \in [Turns -> {"none", "alive", "dead"}]
    /\ call \in [Turns -> {"none", "running"}]
    /\ broken \subseteq Turns

\* A codex process that runs belongs to the turn that has the workspace's
\* lock, unless that turn's output could not be read.
TreeHasOwner ==
    \A t \in Turns :
        child[t] = "alive" /\ t \notin broken => holder[SpaceOf[t]] = t

\* Codex sees the skills its turn wants and no other database skill, however
\* turns of several agents alternate in the workspace.
OwnSkillsOnly ==
    \A t \in Turns :
        turn[t] = "run" => Managed(SpaceOf[t]) = Wanted[t]

\* What a running codex process finds in its workspace is its own turn's.
WorkspaceHolds == TreeHasOwner /\ OwnSkillsOnly

\* Folders codex made are never replaced, and no call of a bridged tool
\* begins for a turn that is over, even if its process has survived it.  A call
\* that has begun is not cancelled with its turn, and may finish after it.
NothingAfterTurn ==
    [][/\ \A s \in Spaces, k \in Skills :
              folder[s][k] = "own" => folder'[s][k] = "own"
       /\ \A t \in Turns :
              call[t] = "none" /\ call'[t] = "running" =>
                  holder[SpaceOf[t]] = t]_vars

\* A turn that waits for a workspace gets its turn or gives up: no error, kill
\* or lost output of an earlier turn keeps the lock.
TurnsEnd == \A t \in Turns : turn[t] = "wait" ~> turn[t] = "done"

\* "two `codex exec` runs never share one git working tree".
NeverShared ==
    \A s \in Spaces :
        Cardinality({t \in Turns : SpaceOf[t] = s /\ child[t] = "alive"}) <= 1

=============================================================================
