------------------------------- MODULE Runtimes --------------------------------
(***************************************************************************)
(* What happens inside a turn: the tools it may use, the Codex process, a  *)
(* command on the host, the memory, the turn's events, the Google token    *)
(* and the generated images.  They share no state: which says whose        *)
(* behaviour a behaviour of the module is, and the others stay in their    *)
(* initial states.  The constants are those of the components.             *)
(***************************************************************************)
EXTENDS Naturals, Sequences, FiniteSets

CONSTANTS
    None,
    \* ToolAccess
    Tools, Ghosts, Management, Exec, Profile, MaxToolCalls, MaxBatch,
    \* CodexTurn
    Turns, Spaces, SpaceOf, Skills, Wanted,
    \* ExecService and GeneratedMedia
    Calls,
    \* AgentMemory and SessionMemory
    Members, Workers, Topics, ChannelOf, Homes, Slug, Librarians, Limit, Fetch,
    MaxMemories, Appenders, KeyOf, MaxEvents,
    \* Telemetry
    Senders, Turn, QueueSize, MaxSent,
    \* GoogleClient
    Reqs, Life, Skew, Delay, Transit, MaxTime, MaxRevoked, MaxTokens

ASSUME ToolAccessParameters == Management \cap Exec = {}
ASSUME CodexTurnParameters ==
    /\ SpaceOf \in [Turns -> Spaces]
    /\ Wanted \in [Turns -> SUBSET Skills]
    /\ None \notin Turns
ASSUME AgentMemoryParameters ==
    /\ {Limit, Fetch} \subseteq Nat
    /\ ChannelOf \in [Topics -> DOMAIN Slug]
    /\ Members \cup Homes \cup Topics \cup {"all"} \subseteq DOMAIN Slug
    /\ None \notin Homes
ASSUME TelemetryParameters == Turn \in Senders /\ MaxSent \in Nat
\* The client lets a token go earlier than the answers to a refresh and to a
\* call can be late together (60 s, 20 s, 2 x 20 s), and Google later (1 h).
ASSUME GoogleParameters ==
    /\ {Life, Skew, Delay, Transit} \subseteq Nat
    /\ Delay + Transit <= Skew
    /\ Delay + Transit < Life
ASSUME BoundsParameters ==
    /\ {MaxToolCalls, MaxBatch, MaxMemories, MaxEvents, QueueSize,
        MaxTokens} \subseteq Nat
    /\ MaxTime \in Nat \ {0}

\* The agent of the runs that are not about what an agent may do.
NoAgent == [allowed |-> {}, is_bastion |-> FALSE, can_exec |-> FALSE,
            runtime_kind |-> "codex"]

VARIABLES
    which,   \* the component that runs
    \* ToolAccess
    agent, phase, pending, made, ran, refused, outcome,
    \* CodexTurn
    git, folder, holder, turn, tokens, child, call, broken,
    \* ExecService
    request, service, bash, background, timedOut,
    \* AgentMemory
    cloudStore, open, context, store, found,
    \* SessionMemory
    cloud, sessionList, copy, acked, clashed,
    \* Telemetry
    turnPhase, seq, sending, sent, audit, live, queue, listening, span,
    \* GoogleClient
    cached, lock, gcall, expires, revoked, applied, now,
    \* GeneratedMedia
    image, imageRow, imageEvents, uploads, posts

access == <<agent, phase, pending, made, ran, refused, outcome>>
codex == <<git, folder, holder, turn, tokens, child, call, broken>>
host == <<request, service, bash, background, timedOut>>
memory == <<cloudStore, open, context, store, found>>
session == <<cloud, sessionList, copy, acked, clashed>>
events == <<turnPhase, seq, sending, sent, audit, live, queue, listening,
            span>>
google == <<cached, lock, gcall, expires, revoked, applied, now>>
media == <<image, imageRow, imageEvents, uploads, posts>>
vars == <<which, access, codex, host, memory, session, events, google, media>>

Tool == INSTANCE ToolAccess
Codex == INSTANCE CodexTurn
Host == INSTANCE ExecService WITH child <- background
Memory == INSTANCE AgentMemory WITH
    cloud <- cloudStore, turn <- context, Agents <- Members
Session == INSTANCE SessionMemory WITH session <- sessionList
Events == INSTANCE Telemetry WITH MaxEvents <- MaxSent, phase <- turnPhase
Google == INSTANCE GoogleClient WITH call <- gcall
Media == INSTANCE GeneratedMedia WITH
    at <- image, row <- imageRow, events <- imageEvents

Init == /\ which \in {"access", "codex", "host", "memory", "session",
                        "events", "google", "media"}
        /\ Tool!Init
        /\ which # "access" => agent = NoAgent
        /\ Codex!Init
        /\ Host!Init
        /\ Memory!Init
        /\ which # "memory" => ~cloudStore
        /\ Session!Init
        /\ which # "session" => ~cloud
        /\ Events!Init
        /\ Google!Init
        /\ Media!Init

Next ==
    \/ /\ which = "access" /\ Tool!Next
       /\ UNCHANGED <<which, codex, host, memory, session, events, google,
                      media>>
    \/ /\ which = "codex" /\ Codex!Next
       /\ UNCHANGED <<which, access, host, memory, session, events, google,
                      media>>
    \/ /\ which = "host" /\ Host!Next
       /\ UNCHANGED <<which, access, codex, memory, session, events, google,
                      media>>
    \/ /\ which = "memory" /\ Memory!Next
       /\ UNCHANGED <<which, access, codex, host, session, events, google,
                      media>>
    \/ /\ which = "session" /\ Session!Next
       /\ UNCHANGED <<which, access, codex, host, memory, events, google,
                      media>>
    \/ /\ which = "events" /\ Events!Next
       /\ UNCHANGED <<which, access, codex, host, memory, session, google,
                      media>>
    \/ /\ which = "google" /\ Google!Next
       /\ UNCHANGED <<which, access, codex, host, memory, session, events,
                      media>>
    \/ /\ which = "media" /\ Media!Next
       /\ UNCHANGED <<which, access, codex, host, memory, session, events,
                      google>>

Spec == Init /\ [][Next]_vars

\* The fairness of each component, for the one that runs.
FairSpec ==
    /\ Spec
    /\ \A t \in Turns :
          /\ WF_codex(which = "codex" /\ Codex!CancelRun(t))
          /\ WF_codex(which = "codex" /\ Codex!TurnStep(t))
    /\ \A c \in Calls :
          /\ WF_host(which = "host" /\ Host!Timeout(c))
          /\ WF_host(which = "host" /\ Host!Finish(c))

-------------------------------------------------------------------------------
\* The type invariants of the eight modules.
TypeOK == /\ Tool!TypeOK /\ Codex!TypeOK /\ Host!TypeOK
          /\ Memory!TypeOK /\ Session!TypeOK /\ Events!TypeOK
          /\ Google!TypeOK /\ Media!TypeOK

\* The flags decide what runs, and no runner refuses a tool that it described
\* and bound (registry.py:57, runtime.py:74).
AccessAgrees == Tool!AccessAgrees

\* Each codex process works in a tree that is its turn's, with its turn's
\* skills (codex_backend.py:170-196, codex_workspace.py:30-53).
WorkspaceHolds == Codex!WorkspaceHolds
\* No bridged call begins for a turn that is over, and what codex put in a
\* workspace stays (codex_tool_bridge.py:60-104, codex_workspace.py:82-104).
NothingAfterTurn == Codex!NothingAfterTurn
\* Two codex processes never share a tree (codex_workspace.py:51-52).
NeverShared == Codex!NeverShared
\* A waiting turn gets the workspace or gives up (codex_backend.py:160-196).
TurnsEnd == Codex!TurnsEnd

\* Every command is answered for: the timeout is a hard one (exec-mcp
\* runner.py:4).
HardTimeout == Host!HardTimeout

\* A search shows a turn what was written as its own and what a librarian
\* wrote for its channel, up to names the store cannot tell apart
\* (agent_memory.py:5-8, 49-56, 259-266), and a session event reported as
\* saved is kept, unless a concurrent append overwrote it (166-201).
MemoryHolds == Memory!SearchHolds /\ Session!EventsKept

\* What a call of the Google tools or the image tool did outside happened
\* once and is what it reports, and one token revoked early costs no call
\* its answer (google_api.py:77-118, images.py:173-212).
OutsideHolds == Google!TokensHold /\ Media!PostedIsStored

\* A failing audit log costs no other sink an event (sink.py:27-39).
FanOutComplete == Events!FanOutComplete
===============================================================================
