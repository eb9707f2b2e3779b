---------------------------- MODULE RuntimesProofs -----------------------------
(***************************************************************************)
(* Theorems about Runtimes, for any registry, workspaces, agents, events,  *)
(* requests and images.                                                    *)
(***************************************************************************)
EXTENDS Runtimes, FiniteSetTheorems, SequenceTheorems, TLAPS

CodexT == INSTANCE CodexTurnProofs

-------------------------------------------------------------------------------
(* The tools an agent may use.                                             *)

\* What ran was permitted, and what was refused was not.
RanPermitted == \A n \in ran : Tool!Permitted(n)
RefusedForbidden == \A n \in refused : n \in Tools /\ ~Tool!Permitted(n)

AccessInv == RanPermitted /\ RefusedForbidden

\* The second check permits what runs and forbids what is refused.
LEMMA ExecuteKeeps ==
  ASSUME AccessInv, NEW n, Tool!Execute(n), agent' = agent
  PROVE  AccessInv'
BY DEF AccessInv, RanPermitted, RefusedForbidden, Tool!Execute,
       Tool!Permitted, Tool!PermittedByFlags

\* Nothing else runs or refuses anything, and the row stays as it was read.
LEMMA QuietKeeps ==
  ASSUME AccessInv, UNCHANGED <<agent, ran, refused>>
  PROVE  AccessInv'
BY DEF AccessInv, RanPermitted, RefusedForbidden, Tool!Permitted,
       Tool!PermittedByFlags

\* One step per operation of the three runners.
LEMMA AccessStep == AccessInv /\ [Tool!Next]_(Tool!vars) => AccessInv'
<1> SUFFICES ASSUME AccessInv, [Tool!Next]_(Tool!vars) PROVE AccessInv'
  OBVIOUS
<1>1. CASE Tool!Ask
  BY <1>1, QuietKeeps DEF Tool!Ask
<1>2. CASE Tool!Call
  <2>1. CASE Tool!OverBudget(made')
    BY <1>2, <2>1, QuietKeeps DEF Tool!Call
  <2>2. CASE ~Tool!OverBudget(made')
    BY <1>2, <2>2, ExecuteKeeps DEF Tool!Call
  <2> QED BY <2>1, <2>2
<1>3. CASE Tool!BridgedCall
  BY <1>3, ExecuteKeeps DEF Tool!BridgedCall
<1>4. CASE Tool!BridgedEnd
  BY <1>4, QuietKeeps DEF Tool!BridgedEnd
<1>5. CASE UNCHANGED Tool!vars
  BY <1>5, QuietKeeps DEF Tool!vars
<1> QED BY <1>1, <1>2, <1>3, <1>4, <1>5 DEF Tool!Next

\* ... so it holds in every turn.
LEMMA AccessInvariance == Spec => []AccessInv
<1>1. Init => AccessInv
  BY DEF Init, Tool!Init, AccessInv, RanPermitted, RefusedForbidden
<1>2. [Next]_vars => [Tool!Next]_(Tool!vars)
  BY DEF Next, vars, access, Tool!vars
<1> QED BY <1>1, <1>2, AccessStep, PTL DEF Spec

\* A tool that was described and bound passes the runtime's own checks, for
\* every runner: no tool is registered both as management and as exec.
LEMMA OfferedIsPermitted ==
  ASSUME NEW n \in Tool!Described, n \in Tool!Offered \cup Tool!SubagentTools
  PROVE  Tool!Permitted(n)
BY ToolAccessParameters
   DEF ToolAccessParameters, Tool!Described, Tool!Offered, Tool!SubagentTools,
       Tool!ResolveNames, Tool!Permitted, Tool!PermittedByFlags
\* Access is decided once: for every registry, list, flags and runner, no tool
\* that was described and bound is refused, and what runs has its flag.  A
\* name that is bound but not described, or described but not bound, may be.
THEOREM AccessIsDecidedOnce == Spec => []AccessAgrees
<1>1. ASSUME AccessInv PROVE Tool!PrivilegeFollowsFlag
  BY <1>1 DEF AccessInv, RanPermitted, Tool!PrivilegeFollowsFlag,
              Tool!Permitted, Tool!PermittedByFlags
<1>2. ASSUME AccessInv PROVE Tool!OfferedRuns
  BY <1>2, OfferedIsPermitted DEF AccessInv, RefusedForbidden,
     Tool!OfferedRuns
<1> QED BY <1>1, <1>2, AccessInvariance, PTL
        DEF AccessAgrees, Tool!AccessAgrees

-------------------------------------------------------------------------------
(* The Codex process.                                                      *)

\* The component that runs is the component proved about.
LEMMA CodexSpec == Codex!Spec <=> CodexT!Spec
<1>1. Codex!Init <=> CodexT!Init
  BY DEF Codex!Init, CodexT!Init
<1>2. [Codex!Next]_(Codex!vars) <=> [CodexT!Next]_(CodexT!vars)
  BY DEF Codex!Next, CodexT!Next, Codex!vars, CodexT!vars, Codex!tree,
         CodexT!tree, Codex!Goto, CodexT!Goto, Codex!Ensure, CodexT!Ensure,
         Codex!TurnStep, CodexT!TurnStep, Codex!GitInit, CodexT!GitInit,
         Codex!Mint, CodexT!Mint, Codex!Start, CodexT!Start, Codex!Blocked,
         CodexT!Blocked, Codex!Mounted, CodexT!Mounted, Codex!MountRefused,
         CodexT!MountRefused, Codex!Leave, CodexT!Leave, Codex!Finish,
         CodexT!Finish, Codex!Reap, CodexT!Reap, Codex!CancelRun,
         CodexT!CancelRun, Codex!CancelEarly, CodexT!CancelEarly,
         Codex!ReadFails, CodexT!ReadFails, Codex!Exit, CodexT!Exit,
         Codex!BridgeCall, CodexT!BridgeCall, Codex!BridgeReturn,
         CodexT!BridgeReturn, Codex!OwnFolder, CodexT!OwnFolder
<1> QED BY <1>1, <1>2, PTL DEF Codex!Spec, CodexT!Spec

\* A behaviour of the module has a behaviour of CodexTurn's in it.
LEMMA RunsCodex == Spec => CodexT!Spec
<1>1. Init => Codex!Init
  BY DEF Init
<1>2. [Next]_vars => [Codex!Next]_(Codex!vars)
  BY DEF Next, vars, codex, Codex!vars
<1>3. Spec => Codex!Spec
  BY <1>1, <1>2, PTL DEF Spec, Codex!Spec
<1> QED BY <1>3, CodexSpec

\* What the proofs of CodexTurn assume is assumed here.
LEMMA CodexParameters == CodexT!Parameters
BY CodexTurnParameters DEF CodexTurnParameters, CodexT!Parameters

\* A codex process that runs is its turn's, in a workspace that holds its
\* skills.
THEOREM WorkspacesHold == Spec => []WorkspaceHolds
<1>1. CodexT!Spec => []CodexT!WorkspaceHolds
  BY CodexT!WorkspacesHold, CodexParameters
<1>2. CodexT!WorkspaceHolds => WorkspaceHolds
  BY DEF WorkspaceHolds, Codex!WorkspaceHolds, CodexT!WorkspaceHolds,
         Codex!TreeHasOwner, CodexT!TreeHasOwner, Codex!OwnSkillsOnly,
         CodexT!OwnSkillsOnly, Codex!Managed, CodexT!Managed
<1> QED BY <1>1, <1>2, RunsCodex, PTL

\* No bridged call begins for a turn that is over, though one that has begun
\* may finish after it; and the folders codex made are never replaced.
THEOREM NothingFollowsTurn == Spec => NothingAfterTurn
<1>1. CodexT!Spec => CodexT!NothingAfterTurn
  BY CodexT!NothingFollowsTurn, CodexParameters
<1>2. CodexT!NothingAfterTurn => NothingAfterTurn
  BY DEF NothingAfterTurn, Codex!NothingAfterTurn, CodexT!NothingAfterTurn,
         Codex!vars, CodexT!vars
<1> QED BY <1>1, <1>2, RunsCodex, PTL

\* Two codex processes are in one workspace only if a turn lost its process's
\* output.
THEOREM SharedOnlyIfOutputLost == Spec => [](broken = {} => NeverShared)
<1>1. CodexT!Spec => [](broken = {} => CodexT!NeverShared)
  BY CodexT!SharedOnlyIfOutputLost, CodexParameters
<1>2. CodexT!NeverShared => NeverShared
  BY DEF NeverShared, Codex!NeverShared, CodexT!NeverShared,
         Codex!Cardinality, CodexT!Cardinality
<1> QED BY <1>1, <1>2, RunsCodex, PTL

-------------------------------------------------------------------------------
(* The generated images.                                                   *)

\* What each step of generate_image finds done before it.
Reached(c) ==
    /\ image[c] \in {"check", "generate", "store"} =>
          imageRow[c] = "none" /\ imageEvents[c] = {} /\ posts[c] = 0
    /\ image[c] = "created" =>
          imageRow[c] = "stored" /\ imageEvents[c] = {} /\ posts[c] = 0
    /\ image[c] = "upload" =>
          imageRow[c] = "stored" /\ imageEvents[c] = {"created"} /\ posts[c] = 0
    /\ image[c] = "post" =>
          /\ imageRow[c] = "stored" /\ imageEvents[c] = {"created"}
          /\ posts[c] = 0 /\ c \in uploads
    /\ image[c] = "mark" =>
          /\ imageRow[c] = "stored" /\ imageEvents[c] = {"created"}
          /\ posts[c] = 1 /\ c \in uploads
    /\ image[c] = "posted" =>
          /\ imageRow[c] = "marked" /\ imageEvents[c] = {"created"}
          /\ posts[c] = 1 /\ c \in uploads

MediaInv ==
    /\ image \in [Calls -> Media!Steps \cup Media!Ends]
    /\ imageRow \in [Calls -> {"none", "stored", "marked"}]
    /\ imageEvents \in [Calls -> SUBSET {"created", "posted"}]
    /\ posts \in [Calls -> 0..1]
    /\ \A c \in Calls : Reached(c)
    /\ Media!PostedIsStored

\* One step per await of the image tool.
LEMMA MediaStep == MediaInv /\ [Media!Next]_(Media!vars) => MediaInv'
<1> SUFFICES ASSUME MediaInv, [Media!Next]_(Media!vars) PROVE MediaInv'
  OBVIOUS
<1> USE DEF MediaInv, Reached, Media!PostedIsStored, Media!Steps, Media!Ends,
            Media!Goto, Media!zulip
<1>1. ASSUME NEW c \in Calls, Media!Check(c) \/ Media!Generate(c)
      PROVE  MediaInv'
  BY <1>1 DEF Media!Check, Media!Generate
<1>2. ASSUME NEW c \in Calls, Media!Store(c) PROVE MediaInv'
  BY <1>2 DEF Media!Store
<1>3. ASSUME NEW c \in Calls, Media!Created(c) PROVE MediaInv'
  BY <1>3 DEF Media!Created
<1>4. ASSUME NEW c \in Calls, Media!Upload(c) PROVE MediaInv'
  BY <1>4 DEF Media!Upload
<1>5. ASSUME NEW c \in Calls, Media!Post(c) PROVE MediaInv'
  BY <1>5 DEF Media!Post
<1>6. ASSUME NEW c \in Calls, Media!Mark(c) PROVE MediaInv'
  BY <1>6 DEF Media!Mark
<1>7. ASSUME NEW c \in Calls, Media!Posted(c) PROVE MediaInv'
  BY <1>7 DEF Media!Posted
<1>8. ASSUME NEW c \in Calls, Media!Fails(c) PROVE MediaInv'
  BY <1>8 DEF Media!Fails
<1>9. CASE UNCHANGED Media!vars
  BY <1>9 DEF Media!vars
<1> QED BY <1>1, <1>2, <1>3, <1>4, <1>5, <1>6, <1>7, <1>8, <1>9
        DEF Media!Next

\* ... so what is in the chat is stored.
LEMMA MediaInvariance == Spec => []MediaInv
<1>1. Init => MediaInv
  BY DEF Init, Media!Init, MediaInv, Reached, Media!PostedIsStored,
         Media!Steps, Media!Ends
<1>2. [Next]_vars => [Media!Next]_(Media!vars)
  BY DEF Next, vars, media, Media!vars
<1> QED BY <1>1, <1>2, MediaStep, PTL DEF Spec

-------------------------------------------------------------------------------
(* The events of a turn.                                                   *)

Emissions == [at : {"idle", "audit", "live"}, n : Nat, seq : Nat,
              kind : Events!Kinds]

EventTypes ==
    /\ turnPhase \in {"ready", "running", "ended"}
    /\ seq \in Nat /\ sent \in 0..MaxSent
    /\ sending \in [Senders -> Emissions]
    /\ audit \subseteq [n : Nat, seq : Nat]
    /\ live \in [Events!Ids -> {"none", "published", "dropped", "cancelled"}]

\* The counter counts what was sent, so a number is that of one event.
Numbered ==
    /\ seq = sent
    /\ \A s \in Senders :
          /\ sending[s].at = "idle" => sending[s].n = 0
          /\ sending[s].at # "idle" => /\ sending[s].n \in 1..sent
                                       /\ sending[s].n = sending[s].seq + 1
    /\ \A e \in audit : e.n = e.seq + 1

\* The turn's start and end are its own; once it has ended, its end is on its
\* way to the span, or has closed it for good.
EndIsOwn ==
    /\ \A s \in Senders \ {Turn} :
          sending[s].kind \notin {"turn.start", "turn.end"}
    /\ sending[Turn].at = "idle" =>
          sending[Turn].kind \notin {"turn.start", "turn.end"}
    /\ turnPhase = "ended" =>
          \/ sending[Turn].at # "idle" /\ sending[Turn].kind = "turn.end"
          \/ span = "closed" /\ sending[Turn].kind # "turn.start"

EventInv == EventTypes /\ Numbered /\ EndIsOwn /\ Events!Delivered

\* One step per stage of the fan-out; subscribers come and go beside it.
LEMMA EventStep == EventInv /\ [Events!Next]_(Events!vars) => EventInv'
<1> SUFFICES ASSUME EventInv, [Events!Next]_(Events!vars) PROVE EventInv'
  OBVIOUS
<1> USE TelemetryParameters
        DEF TelemetryParameters, EventInv, EventTypes, Emissions,
            Events!Nothing, Events!Kinds, Events!Ids
<1>1. ASSUME NEW s \in Senders, NEW kind \in Events!Kinds,
             Events!Send(s, kind)
      PROVE  EventInv'
  <2> DEFINE e == [at |-> "audit", n |-> sent + 1, seq |-> seq, kind |-> kind]
  <2>1. /\ sending' = [sending EXCEPT ![s] = e]
        /\ sent' = sent + 1 /\ seq' = seq + 1 /\ sent + 1 \in 1..MaxSent
        /\ sending[s].at = "idle"
        /\ UNCHANGED <<audit, live, span>>
    BY <1>1 DEF Events!Send, Events!Stamp
  <2>2. e \in Emissions
    BY <2>1
  <2> HIDE DEF e
  <2>3. /\ sending'[s] = e
        /\ \A r \in Senders \ {s} : sending'[r] = sending[r]
    BY <2>1
  <2>4. /\ turnPhase' \in {"ready", "running", "ended"}
        /\ turnPhase' = "ended" =>
              \/ s = Turn /\ kind = "turn.end"
              \/ turnPhase = "ended" /\ kind = "tool.call"
        /\ kind = "tool.call" \/ s = Turn
    BY <1>1 DEF Events!Send, Events!MaySend
  <2>5. Numbered'
    BY <2>1, <2>3 DEF Numbered, e
  <2>6. EndIsOwn'
    BY <2>1, <2>3, <2>4 DEF EndIsOwn, e
  <2>7. Events!Delivered'
    BY <2>1, <2>3 DEF Events!Delivered, Numbered, e
  <2> QED BY <2>1, <2>2, <2>4, <2>5, <2>6, <2>7
<1>2. ASSUME NEW s \in Senders, Events!Audit(s) PROVE EventInv'
  <2>1. /\ sending[s].at = "audit"
        /\ sending' = [sending EXCEPT ![s].at = "live"]
        /\ UNCHANGED <<turnPhase, seq, sent, live, span>>
        /\ audit' \in {audit, audit \cup
                          {[n |-> sending[s].n, seq |-> sending[s].seq]}}
    BY <1>2 DEF Events!Audit, Events!AfterFailure
  <2>2. Numbered'
    BY <2>1 DEF Numbered
  <2>3. EndIsOwn' /\ Events!Delivered'
    BY <2>1 DEF EndIsOwn, Events!Delivered
  <2>4. sending[s] \in Emissions
    OBVIOUS
  <2>5. sending' \in [Senders -> Emissions]
    BY <2>1, <2>4
  <2>6. [n |-> sending[s].n, seq |-> sending[s].seq] \in [n : Nat, seq : Nat]
    BY <2>4
  <2>7. audit' \subseteq [n : Nat, seq : Nat]
    BY <2>1, <2>6
  <2> QED BY <2>1, <2>2, <2>3, <2>5, <2>7
<1>3. CASE Events!Cancel
  <2>1. /\ sending' = [sending EXCEPT ![Turn] = Events!Nothing]
        /\ live' = [live EXCEPT ![sending[Turn].n] = "cancelled"]
        /\ sending[Turn].at = "audit" /\ sending[Turn].kind = "tool.call"
        /\ UNCHANGED <<turnPhase, seq, sent, audit, span>>
    BY <1>3 DEF Events!Cancel
  <2>2. Numbered' /\ EndIsOwn'
    BY <2>1 DEF Numbered, EndIsOwn
  <2>3. Events!Delivered'
    BY <2>1 DEF Events!Delivered, Numbered
  <2> QED BY <2>1, <2>2, <2>3
<1>4. ASSUME NEW s \in Senders, Events!Publish(s) PROVE EventInv'
  <2>1. /\ sending[s].at = "live"
        /\ \E x \in {"dropped", "published"} :
              live' = [live EXCEPT ![sending[s].n] = x]
        /\ span' = Events!SpanAfter(sending[s].kind)
        /\ sending' = [sending EXCEPT ![s] = Events!Nothing]
        /\ UNCHANGED <<turnPhase, seq, sent, audit>>
    BY <1>4 DEF Events!Publish
  <2>2. Numbered'
    BY <2>1 DEF Numbered
  <2>3. EndIsOwn'
    BY <2>1 DEF EndIsOwn, Events!SpanAfter
  <2>4. Events!Delivered'
    BY <2>1 DEF Events!Delivered, Numbered
  <2> QED BY <2>1, <2>2, <2>3, <2>4
<1>5. ASSUME UNCHANGED <<turnPhase, seq, sending, sent, audit, live, span>>
      PROVE  EventInv'
  BY <1>5 DEF Numbered, EndIsOwn, Events!Delivered
<1> QED BY <1>1, <1>2, <1>3, <1>4, <1>5
        DEF Events!Next, Events!Subscribe, Events!TakeEvent, Events!Leave,
            Events!vars

\* ... so it holds throughout the turn.
LEMMA EventInvariance == Spec => []EventInv
<1>1. Init => EventInv
  BY TelemetryParameters DEF TelemetryParameters, Init, Events!Init, EventInv,
     EventTypes, Emissions, Events!Nothing, Events!Kinds, Numbered, EndIsOwn,
     Events!Delivered
<1>2. [Next]_vars => [Events!Next]_(Events!vars)
  BY DEF Next, vars, events, Events!vars
<1> QED BY <1>1, <1>2, EventStep, PTL DEF Spec

\* However the turn's and the bridge's emissions interleave, fail or are
\* cancelled, no event is lost to a sink after the audit log.
THEOREM FanOutCompletes == Spec => []FanOutComplete
<1>1. EventInv => FanOutComplete
  BY DEF EventInv, EventTypes, Numbered, EndIsOwn, FanOutComplete,
     Events!FanOutComplete, Events!UniqueSeq, Events!SpanCloses
<1> QED BY <1>1, EventInvariance, PTL

-------------------------------------------------------------------------------
(* The long-term memory and the session memory.                            *)

\* A memory lies in a tier that its writer could write to.
Writable(m) ==
    /\ m.by \in Members /\ m.id \in Nat \ {0}
    /\ m.ns[1] = "channel" => m.by \in Librarians

\* The context of a turn: its own namespace is of the agents' tier.
OwnTier == \A w \in Workers : context[w] # None =>
              context[w].by \in Members /\ context[w].ns[1] = "agent"

MemoryInv ==
    /\ IsFiniteSet(store)
    /\ \A m \in store : Writable(m)
    /\ OwnTier
    /\ found # None => found.items \subseteq store
    /\ Memory!SearchHolds

\* The instance counts as the library does.
LEMMA MemoryCardinality ==
    ASSUME NEW S PROVE Memory!Cardinality(S) = Cardinality(S)
  BY DEF Memory!Cardinality, Cardinality

\* Names may be merged, but tiers are not: what reads as a turn's own or as
\* its channel's was written as somebody's own, or by a librarian.
LEMMA ReadersMayRead ==
    ASSUME NEW m, Writable(m), NEW w \in Workers, context[w] # None, OwnTier,
           Memory!InScope(context[w], m)
    PROVE  \/ /\ m.ns[1] = "agent"
              /\ Memory!WireNs(m.ns) = Memory!WireNs(context[w].ns)
           \/ /\ m.ns[1] = "channel" /\ m.by \in Librarians
              /\ Slug[m.ns[2]] = Slug[ChannelOf[context[w].topic]]
<1> DEFINE c == ChannelOf[context[w].topic]
<1>1. CASE Memory!WireNs(m.ns) = Memory!WireNs(context[w].ns)
  <2>1. m.ns[1] = context[w].ns[1]
    BY <1>1 DEF Memory!WireNs
  <2> QED BY <1>1, <2>1 DEF OwnTier
<1>2. CASE Memory!WireNs(m.ns) = Memory!WireNs(Memory!ChannelNs(c))
  <2>1. m.ns[1] = "channel" /\ Slug[m.ns[2]] = Slug[c]
    BY <1>2 DEF Memory!WireNs, Memory!ChannelNs
  <2> QED BY <2>1 DEF Writable
<1> QED BY <1>1, <1>2 DEF Memory!InScope, Memory!ReadSet

\* Sessions come and go, and turns begin: no answer is new.
LEMMA MemoryIdles ==
    ASSUME MemoryInv, UNCHANGED store, found' = None, OwnTier'
    PROVE  MemoryInv'
  BY DEF MemoryInv, Writable, Memory!SearchHolds, Memory!SearchStaysInScope,
         Memory!SearchFinds

\* A turn's own namespace is of the agents' tier, whichever session it is of.
LEMMA TurnsOwnTheirTier ==
    ASSUME OwnTier, NEW w \in Workers, NEW a \in Members, NEW t \in Topics,
           Memory!BeginTurn(w, a, t)
    PROVE  OwnTier'
  BY DEF OwnTier, Memory!BeginTurn, Memory!AgentNs

\* A memory is written through the gate.
LEMMA WritesPassTheGate ==
    ASSUME MemoryInv, NEW w \in Workers, NEW scope \in Memory!Scopes,
           Memory!Remember(w, scope)
    PROVE  MemoryInv'
<1> DEFINE a == context[w].by
           ns == Memory!ResolveScope(context[w], scope)
           m == Memory!NewMemory(a, ns)
<1>1. /\ context[w] # None /\ Memory!GateWrite(a, scope)
      /\ store' = store \cup {m} /\ found' = None /\ UNCHANGED context
  BY DEF Memory!Remember
<1>2. a \in Members /\ context[w].ns[1] = "agent"
  BY <1>1 DEF MemoryInv, OwnTier
<1>3. m.by = a /\ m.ns = ns /\ m.id \in Nat \ {0}
  <2> DEFINE alike == {x \in store : x.by = a /\ x.ns = ns}
  <2>1. Cardinality(alike) \in Nat
    BY FS_Subset, FS_CardinalityType DEF MemoryInv
  <2>2. m = [id |-> Cardinality(alike) + 1, by |-> a, ns |-> ns]
    BY MemoryCardinality DEF Memory!NewMemory
  <2> QED BY <2>1, <2>2
<1>4. ns[1] = "channel" => scope = "channel"
  BY <1>2 DEF Memory!Scopes, Memory!ResolveScope, Memory!TopicNs,
              Memory!ChannelNs, Memory!WorkspaceNs
<1>5. Writable(m)
  BY <1>1, <1>2, <1>3, <1>4 DEF Writable, Memory!GateWrite
<1>6. IsFiniteSet(store')
  BY <1>1, FS_AddElement DEF MemoryInv
<1>7. \A x \in store' : Writable(x)
  BY <1>1, <1>5 DEF MemoryInv
<1> QED BY <1>1, <1>6, <1>7
        DEF MemoryInv, OwnTier, Writable, Memory!SearchHolds,
            Memory!SearchStaysInScope, Memory!SearchFinds

\* A search filters what it fetched.
LEMMA SearchKeeps ==
    ASSUME MemoryInv, NEW w \in Workers, Memory!Search(w)
    PROVE  MemoryInv'
<1> DEFINE ctx == context[w]
           pool == IF cloudStore THEN store
                   ELSE {m \in store : Memory!InScope(ctx, m)}
           Scoped(raw) == {m \in raw : Memory!InScope(ctx, m)}
<1>1. PICK raw \in Memory!Raw(ctx) : \E items \in SUBSET Scoped(raw) :
        /\ Cardinality(items) = IF Cardinality(Scoped(raw)) < Limit
                                THEN Cardinality(Scoped(raw)) ELSE Limit
        /\ found' = [ctx |-> ctx, items |-> items]
  BY MemoryCardinality DEF Memory!Search
<1>2. PICK items \in SUBSET Scoped(raw) :
        /\ Cardinality(items) = IF Cardinality(Scoped(raw)) < Limit
                                THEN Cardinality(Scoped(raw)) ELSE Limit
        /\ found' = [ctx |-> ctx, items |-> items]
  BY <1>1
<1>3. /\ raw \in SUBSET pool
      /\ Cardinality(raw) = IF Cardinality(pool) < Fetch
                            THEN Cardinality(pool) ELSE Fetch
  BY <1>1, MemoryCardinality DEF Memory!Raw, Memory!Fetched
<1>4. ctx # None /\ UNCHANGED <<store, context>>
  BY DEF Memory!Search
<1>5. pool \subseteq store /\ items \subseteq store
  BY <1>2, <1>3
<1>6. IsFiniteSet(store) /\ Cardinality(store) \in Nat
  BY FS_CardinalityType DEF MemoryInv
<1>7. /\ IsFiniteSet(pool) /\ IsFiniteSet(Scoped(raw))
      /\ Cardinality(pool) \in Nat /\ Cardinality(Scoped(raw)) \in Nat
      /\ Cardinality(pool) <= Cardinality(store)
  <2>1. Scoped(raw) \subseteq store
    BY <1>3
  <2> QED BY <1>5, <1>6, <2>1, FS_Subset, FS_CardinalityType
<1>8. ASSUME Cardinality(store) <= Fetch
      PROVE  Scoped(raw) = {m \in store : Memory!InScope(ctx, m)}
  <2>1. Cardinality(raw) = Cardinality(pool)
    BY <1>3, <1>6, <1>7, <1>8, AgentMemoryParameters
       DEF AgentMemoryParameters
  <2>2. raw = pool
    BY <1>3, <1>7, <2>1, FS_Subset
  <2> QED BY <2>2
<1>9. Cardinality(items) = Limit \/ items = Scoped(raw)
  BY <1>2, <1>7, FS_Subset
<1>10. Memory!SearchStaysInScope'
  <2>1. ASSUME NEW m \in items
        PROVE  \/ /\ m.ns[1] = "agent"
                  /\ Memory!WireNs(m.ns) = Memory!WireNs(ctx.ns)
               \/ /\ m.ns[1] = "channel" /\ m.by \in Librarians
                  /\ Slug[m.ns[2]] = Slug[ChannelOf[ctx.topic]]
    <3>1. Memory!InScope(ctx, m) /\ Writable(m) /\ OwnTier
      BY <1>2, <1>5, <2>1 DEF MemoryInv
    <3> QED BY <1>4, <3>1, ReadersMayRead
  <2> QED BY <1>2, <2>1 DEF Memory!SearchStaysInScope, Memory!WireNs
<1>11. Memory!SearchFinds'
  <2>1. Memory!Cardinality(items)' = Cardinality(items)
    BY <1>2 DEF Memory!Cardinality, Cardinality
  <2>2. CASE Cardinality(store) <= Fetch
    <3>1. \/ Cardinality(items) = Limit
          \/ items = {m \in store : Memory!InScope(ctx, m)}
      BY <1>8, <1>9, <2>2
    <3> QED BY <1>2, <1>4, <3>1, MemoryCardinality
            DEF Memory!SearchFinds, Memory!InScope, Memory!ReadSet,
                Memory!WireNs, Memory!ChannelNs, Memory!Cardinality,
                Cardinality
  <2>3. CASE ~(Cardinality(store) <= Fetch)
    BY <1>4, <2>3, MemoryCardinality DEF Memory!SearchFinds
  <2> QED BY <2>2, <2>3
<1> QED BY <1>2, <1>4, <1>5, <1>10, <1>11
        DEF MemoryInv, OwnTier, Writable, Memory!SearchHolds

\* One step per operation of a session and of a turn.
LEMMA MemoryStep == MemoryInv /\ [Memory!Next]_(Memory!vars) => MemoryInv'
<1> SUFFICES ASSUME MemoryInv, [Memory!Next]_(Memory!vars) PROVE MemoryInv'
  OBVIOUS
<1>1. ASSUME NEW t \in Topics,
             Memory!OpenSession(t) \/ Memory!CloseSession(t)
      PROVE  MemoryInv'
  BY <1>1, MemoryIdles
     DEF MemoryInv, OwnTier, Memory!OpenSession, Memory!CloseSession
<1>2. ASSUME NEW w \in Workers, NEW a \in Members, NEW t \in Topics,
             Memory!BeginTurn(w, a, t)
      PROVE  MemoryInv'
  BY <1>2, MemoryIdles, TurnsOwnTheirTier DEF MemoryInv, Memory!BeginTurn
<1>3. ASSUME NEW w \in Workers, NEW scope \in Memory!Scopes,
             Memory!Remember(w, scope)
      PROVE  MemoryInv'
  BY <1>3, WritesPassTheGate
<1>4. ASSUME NEW w \in Workers, Memory!Search(w) PROVE MemoryInv'
  BY <1>4, SearchKeeps
<1>5. ASSUME UNCHANGED <<cloudStore, open, context, store, found>>
      PROVE  MemoryInv'
  BY <1>5 DEF MemoryInv, OwnTier, Writable, Memory!SearchHolds,
     Memory!SearchStaysInScope, Memory!SearchFinds, Memory!InScope,
     Memory!ReadSet, Memory!WireNs, Memory!ChannelNs, Memory!Cardinality
<1> QED BY <1>1, <1>2, <1>3, <1>4, <1>5 DEF Memory!Next, Memory!vars

\* The events of the appenders, by their numbers.
Saved == Appenders \X Nat
Copies == [on : BOOLEAN, list : SUBSET Saved, event : Saved \cup {<<>>}]

SessionTypes ==
    /\ sessionList \in [Session!Keys -> SUBSET Saved]
    /\ copy \in [Appenders -> Copies]
    /\ acked \in [Appenders -> Nat]

\* The copy that is about to be written holds the saved events of its key,
\* but for those that were put after it was read.
CopyIsKnown(a) ==
    copy[a].on =>
        /\ ~cloud
        /\ copy[a].event = <<a, acked[a] + 1>>
        /\ \A b \in Appenders : KeyOf[b] = KeyOf[a] =>
              \A n \in 1..acked[b] : <<b, n>> \in copy[a].list \cup clashed

SessionInv == /\ SessionTypes
              /\ \A a \in Appenders : CopyIsKnown(a)
              /\ Session!EventsKept

\* An append is one request, or a read and a write of the list.
LEMMA SessionStep == SessionInv /\ [Session!Next]_(Session!vars) => SessionInv'
<1> SUFFICES ASSUME SessionInv, [Session!Next]_(Session!vars)
             PROVE  SessionInv'
  OBVIOUS
<1> USE DEF SessionInv, SessionTypes, Saved, Copies, CopyIsKnown,
            Session!EventsKept, Session!NextEvent
<1>1. ASSUME NEW a \in Appenders, Session!PostEvent(a) PROVE SessionInv'
  <2>1. /\ cloud /\ UNCHANGED <<cloud, copy, clashed>>
        /\ sessionList' = [sessionList EXCEPT ![KeyOf[a]] =
                             @ \cup {<<a, acked[a] + 1>>}]
        /\ acked' = [acked EXCEPT ![a] = @ + 1]
    BY <1>1 DEF Session!PostEvent
  <2>2. KeyOf[a] \in Session!Keys
    BY DEF Session!Keys
  <2>3. SessionTypes'
    BY <2>1, <2>2
  <2>4. ASSUME NEW b \in Appenders, NEW n \in 1..acked'[b]
        PROVE  <<b, n>> \in sessionList'[KeyOf[b]] \cup clashed'
    <3>1. (b = a /\ n = acked[a] + 1) \/ n \in 1..acked[b]
      BY <2>1
    <3>2. /\ sessionList[KeyOf[b]] \subseteq sessionList'[KeyOf[b]]
          /\ <<a, acked[a] + 1>> \in sessionList'[KeyOf[a]]
      BY <2>1, <2>2 DEF Session!Keys
    <3>3. n \in 1..acked[b] =>
            <<b, n>> \in sessionList[KeyOf[b]] \cup clashed
      OBVIOUS
    <3> QED BY <2>1, <3>1, <3>2, <3>3
  <2> QED BY <2>1, <2>3, <2>4
<1>2. ASSUME NEW a \in Appenders, Session!ReadSession(a) PROVE SessionInv'
  <2> DEFINE c == [on |-> TRUE, list |-> sessionList[KeyOf[a]],
                   event |-> <<a, acked[a] + 1>>]
  <2>1. /\ ~cloud /\ UNCHANGED <<cloud, sessionList, acked, clashed>>
        /\ copy' = [copy EXCEPT ![a] = c]
    BY <1>2 DEF Session!ReadSession
  <2>2. c \in Copies
    BY DEF Session!Keys
  <2>3. \A b \in Appenders : KeyOf[b] = KeyOf[a] =>
          \A n \in 1..acked[b] : <<b, n>> \in c.list \cup clashed
    OBVIOUS
  <2>4. c.on /\ c.event = <<a, acked[a] + 1>>
    OBVIOUS
  <2> HIDE DEF c
  <2>5. /\ copy'[a] = c /\ \A b \in Appenders \ {a} : copy'[b] = copy[b]
        /\ copy' \in [Appenders -> Copies]
    BY <2>1, <2>2
  <2>6. \A b \in Appenders : CopyIsKnown(b)'
    BY <2>1, <2>3, <2>4, <2>5
  <2> QED BY <2>1, <2>5, <2>6
<1>3. ASSUME NEW a \in Appenders, Session!PutSession(a) PROVE SessionInv'
  <2> DEFINE mine == copy[a].list \cup {<<a, acked[a] + 1>>}
  <2>1. /\ copy[a].on /\ UNCHANGED cloud
        /\ copy[a].event = <<a, acked[a] + 1>>
        /\ sessionList' = [sessionList EXCEPT ![KeyOf[a]] = mine]
        /\ acked' = [acked EXCEPT ![a] = @ + 1]
        /\ copy' = [copy EXCEPT ![a] = Session!NoCopy]
        /\ clashed \subseteq clashed'
        /\ (\E b \in Appenders \ {a} : copy[b].on /\ KeyOf[b] = KeyOf[a])
              => <<a, acked[a] + 1>> \in clashed'
    BY <1>3 DEF Session!PutSession, Session!Written
  <2>2. KeyOf[a] \in Session!Keys
    BY DEF Session!Keys
  <2>3. Session!NoCopy \in Copies /\ ~Session!NoCopy.on
    BY DEF Session!NoCopy
  <2>4. mine \subseteq Saved
    OBVIOUS
  <2>5. SessionTypes'
    BY <2>1, <2>2, <2>3, <2>4
  <2>6. ASSUME NEW b \in Appenders, NEW n \in 1..acked'[b]
        PROVE  (b = a /\ n = acked[a] + 1) \/ n \in 1..acked[b]
    BY <2>1
  <2>7. Session!EventsKept'
    <3>1. ASSUME NEW b \in Appenders, NEW n \in 1..acked'[b]
          PROVE  <<b, n>> \in sessionList'[KeyOf[b]] \cup clashed'
      <4>1. CASE KeyOf[b] = KeyOf[a]
        <5>1. sessionList'[KeyOf[b]] = mine
          BY <2>1, <2>2, <4>1
        <5>2. <<b, n>> \in mine \cup clashed
          BY <2>1, <2>6, <3>1, <4>1
        <5> QED BY <2>1, <5>1, <5>2
      <4>2. CASE KeyOf[b] # KeyOf[a]
        <5>1. sessionList'[KeyOf[b]] = sessionList[KeyOf[b]]
          BY <2>1, <4>2 DEF Session!Keys
        <5> QED BY <2>1, <2>6, <3>1, <4>2, <5>1
      <4> QED BY <4>1, <4>2
    <3> QED BY <3>1
  <2>8. ASSUME NEW b \in Appenders PROVE CopyIsKnown(b)'
    <3>1. CASE b = a
      BY <2>1, <2>3, <3>1
    <3>2. CASE b # a /\ copy[b].on
      <4>1. copy'[b] = copy[b] /\ acked'[b] = acked[b]
        BY <2>1, <3>2
      <4>2. ASSUME NEW d \in Appenders, KeyOf[d] = KeyOf[b],
                   NEW n \in 1..acked'[d]
            PROVE  <<d, n>> \in copy[b].list \cup clashed'
        BY <2>1, <2>6, <3>2, <4>2
      <4> QED BY <2>1, <3>2, <4>1, <4>2
    <3>3. CASE b # a /\ ~copy[b].on
      BY <2>1, <3>3
    <3> QED BY <3>1, <3>2, <3>3
  <2> QED BY <2>5, <2>7, <2>8
<1>4. ASSUME NEW a \in Appenders, Session!AppendFails(a) PROVE SessionInv'
  <2> DEFINE mine == copy[a].list \cup {<<a, acked[a] + 1>>}
  <2>1. /\ copy[a].on /\ UNCHANGED <<cloud, acked, clashed>>
        /\ copy[a].event = <<a, acked[a] + 1>>
        /\ sessionList' \in {sessionList,
                             [sessionList EXCEPT ![KeyOf[a]] = mine]}
        /\ copy' = [copy EXCEPT ![a] = Session!NoCopy]
    BY <1>4 DEF Session!AppendFails, Session!Written
  <2>2. KeyOf[a] \in Session!Keys
    BY DEF Session!Keys
  <2>3. Session!NoCopy \in Copies /\ ~Session!NoCopy.on
    BY DEF Session!NoCopy
  <2>4. mine \subseteq Saved
    OBVIOUS
  <2>5. SessionTypes'
    BY <2>1, <2>2, <2>3, <2>4
  <2>6. ASSUME NEW b \in Appenders PROVE CopyIsKnown(b)'
    BY <2>1, <2>3
  <2>7. Session!EventsKept'
    <3>1. ASSUME NEW b \in Appenders, NEW n \in 1..acked[b]
          PROVE  <<b, n>> \in sessionList'[KeyOf[b]] \cup clashed
      <4>1. KeyOf[b] \in Session!Keys
        BY DEF Session!Keys
      <4>2. CASE KeyOf[b] = KeyOf[a]
        BY <2>1, <2>2, <3>1, <4>2
      <4>3. CASE KeyOf[b] # KeyOf[a]
        BY <2>1, <3>1, <4>1, <4>3
      <4> QED BY <4>2, <4>3
    <3> QED BY <2>1, <3>1
  <2> QED BY <2>5, <2>6, <2>7
<1>5. ASSUME UNCHANGED <<cloud, sessionList, copy, acked, clashed>>
      PROVE  SessionInv'
  BY <1>5
<1> QED BY <1>1, <1>2, <1>3, <1>4, <1>5 DEF Session!Next, Session!vars

\* ... so the invariants of the two memories hold.
LEMMA MemoryInvariance == Spec => []MemoryInv
<1>1. Init => MemoryInv
  <2> SUFFICES ASSUME Init PROVE MemoryInv
    OBVIOUS
  <2>1. /\ store = {} /\ found = None
        /\ \A w \in Workers : context[w] = None
    BY DEF Init, Memory!Init
  <2> QED BY <2>1, FS_EmptySet
          DEF MemoryInv, OwnTier, Memory!SearchHolds,
              Memory!SearchStaysInScope, Memory!SearchFinds
<1>2. [Next]_vars => [Memory!Next]_(Memory!vars)
  BY DEF Next, vars, memory, Memory!vars
<1> QED BY <1>1, <1>2, MemoryStep, PTL DEF Spec

LEMMA SessionInvariance == Spec => []SessionInv
<1>1. Init => SessionInv
  BY DEF Init, Session!Init, SessionInv, SessionTypes, Saved, Copies,
     CopyIsKnown, Session!EventsKept, Session!NoCopy
<1>2. [Next]_vars => [Session!Next]_(Session!vars)
  BY DEF Next, vars, session, Session!vars
<1> QED BY <1>1, <1>2, SessionStep, PTL DEF Spec

\* A search shows a turn only what was written as somebody's own under a name
\* that reads as its own, and what a librarian wrote for a channel that reads
\* as its channel, and all of it while the fetch suffices; and a saved event
\* stays in its key's memory unless another append was under way at the time.
THEOREM MemoriesHold == Spec => []MemoryHolds
<1>1. MemoryInv /\ SessionInv => MemoryHolds
  BY DEF MemoryInv, SessionInv, MemoryHolds
<1> QED BY <1>1, MemoryInvariance, SessionInvariance, PTL

-------------------------------------------------------------------------------
(* The Google token and the images.                                        *)

CallTypes == [at : Google!Steps, token : Nat, refused : 0..1, age : Nat]

GoogleTypes ==
    /\ lock \in BOOLEAN
    /\ gcall \in [Reqs -> CallTypes]
    /\ \E n \in Nat : expires \in [1..n -> Nat]
    /\ revoked \subseteq DOMAIN expires
    /\ applied \in [Reqs -> Nat]
    /\ now \in Nat \ {0}

\* The cached token is let go early enough for a call that sets out with it.
CachedLasts ==
    /\ cached \in [id : Nat, until : Int]
    /\ \/ cached.id = 0 /\ cached.until = 0
       \/ /\ cached.id \in DOMAIN expires
          /\ cached.until <= expires[cached.id] + Delay - Skew

\* The token of a call that sets out or is to set out lasts until it arrives.
TokenLasts(c, ex, t) ==
    /\ c.at = "minted" =>
          /\ c.token \in DOMAIN ex /\ c.age <= Delay
          /\ t + Life <= ex[c.token] + c.age
    /\ c.at = "send" =>
          /\ c.token \in DOMAIN ex /\ c.age <= Transit
          /\ t + Transit < ex[c.token] + c.age

\* A request refused once saw a token revoked, which is not the one it has
\* since; one that was rejected saw two.
RefusedForCause(c, rev) ==
    /\ c.refused = 1 /\ c.at \in {"token", "refresh"} => rev # {}
    /\ c.refused = 1 /\ c.at \in {"minted", "send"} =>
          \E x \in rev : x # c.token
    /\ c.at = "rejected" => \E x \in rev, y \in rev : x # y

\* Nothing was carried out for a request before its answer.
CarriedOut(c, n) ==
    /\ n <= 1
    /\ c.at \in {"ok", "answer"} => n = 1
    /\ c.at \notin {"ok", "answer", "failed"} => n = 0

CallHolds(c, n, ex, rev, t) ==
    /\ c \in CallTypes
    /\ TokenLasts(c, ex, t) /\ RefusedForCause(c, rev) /\ CarriedOut(c, n)

GoogleInv ==
    /\ GoogleTypes
    /\ CachedLasts
    /\ \A r \in Reqs : CallHolds(gcall[r], applied[r], expires, revoked, now)

\* A call loses nothing when more tokens are minted or revoked.
LEMMA MoreTokens ==
    ASSUME NEW c, NEW k, NEW ex, NEW rev, NEW t, CallHolds(c, k, ex, rev, t),
           NEW more, NEW gone, DOMAIN ex \subseteq DOMAIN more,
           \A x \in DOMAIN ex : more[x] = ex[x], rev \subseteq gone
    PROVE  CallHolds(c, k, more, gone, t)
  BY DEF CallHolds, TokenLasts, RefusedForCause

\* A step of one request that touches nothing the others use.
LEMMA OneCallMoves ==
    ASSUME GoogleInv, NEW r \in Reqs, NEW c, NEW k \in Nat,
           gcall' = [gcall EXCEPT ![r] = c],
           applied' = [applied EXCEPT ![r] = k],
           CallHolds(c, k, expires, revoked, now),
           UNCHANGED <<expires, revoked, now>>,
           lock' \in BOOLEAN, CachedLasts'
    PROVE  GoogleInv'
<1>1. c \in CallTypes
  BY DEF CallHolds
<1>2. GoogleTypes'
  BY <1>1 DEF GoogleInv, GoogleTypes
<1>3. ASSUME NEW q \in Reqs
      PROVE  CallHolds(gcall'[q], applied'[q], expires, revoked, now)
  <2>1. CASE q = r
    BY <2>1 DEF GoogleInv, GoogleTypes
  <2>2. CASE q # r
    BY <2>2 DEF GoogleInv, GoogleTypes
  <2> QED BY <2>1, <2>2
<1> QED BY <1>2, <1>3 DEF GoogleInv, CallHolds, TokenLasts, RefusedForCause,
                          CarriedOut, CallTypes, Google!Steps

\* ... and carries nothing out.
LEMMA OneCallTurns ==
    ASSUME GoogleInv, NEW r \in Reqs, NEW c,
           gcall' = [gcall EXCEPT ![r] = c],
           CallHolds(c, applied[r], expires, revoked, now),
           UNCHANGED <<expires, revoked, applied, now>>,
           lock' \in BOOLEAN, CachedLasts'
    PROVE  GoogleInv'
<1>1. applied[r] \in Nat /\ applied' = [applied EXCEPT ![r] = applied[r]]
  BY DEF GoogleInv, GoogleTypes
<1>2. UNCHANGED <<expires, revoked, now>>
  OBVIOUS
<1> QED BY <1>1, <1>2, OneCallMoves

\* One step per operation of the client, of Google and of time.
LEMMA GoogleStep == GoogleInv /\ [Google!Next]_(Google!vars) => GoogleInv'
<1> SUFFICES ASSUME GoogleInv, [Google!Next]_(Google!vars) PROVE GoogleInv'
  OBVIOUS
<1>0. /\ Life \in Nat /\ Skew \in Nat /\ Delay \in Nat /\ Transit \in Nat
      /\ Delay + Transit <= Skew /\ Delay + Transit < Life
  BY GoogleParameters DEF GoogleParameters
<1>1. /\ GoogleTypes /\ CachedLasts
      /\ \A r \in Reqs : CallHolds(gcall[r], applied[r], expires, revoked, now)
      /\ \A r \in Reqs : gcall[r] \in CallTypes
  BY DEF GoogleInv, CallHolds
<1> DEFINE Quiet(step) == [at |-> step, token |-> 0, refused |-> 0, age |-> 0]
<1>2. ASSUME NEW r \in Reqs, Google!Begin(r) PROVE GoogleInv'
  <2>1. /\ gcall[r].at = "idle"
        /\ UNCHANGED <<cached, lock, expires, revoked, applied, now>>
        /\ \E step \in {"token", "failed"} :
              gcall' = [gcall EXCEPT ![r] = Quiet(step)]
    BY <1>2 DEF Google!Begin, Google!Goto, Google!At
  <2>2. PICK step \in {"token", "failed"} :
          gcall' = [gcall EXCEPT ![r] = Quiet(step)]
    BY <2>1
  <2>3. CallHolds(Quiet(step), applied[r], expires, revoked, now)
    BY <1>1, <2>1 DEF CallHolds, CallTypes, TokenLasts, RefusedForCause,
                      CarriedOut, Google!Steps
  <2>4. CachedLasts' /\ lock' \in BOOLEAN
    BY <1>1, <2>1 DEF CachedLasts, GoogleTypes
  <2> HIDE DEF Quiet
  <2> QED BY <2>1, <2>2, <2>3, <2>4, OneCallTurns
<1>3. ASSUME NEW r \in Reqs, Google!Token(r) PROVE GoogleInv'
  <2>1. /\ gcall[r].at = "token"
        /\ UNCHANGED <<cached, expires, revoked, applied, now>>
    BY <1>3 DEF Google!Token
  <2>2. CachedLasts'
    BY <1>1, <2>1 DEF CachedLasts
  <2>3. CASE Google!Stale(r)
    <3> DEFINE c == [gcall[r] EXCEPT !.at = "refresh", !.age = 0]
    <3>1. gcall' = [gcall EXCEPT ![r] = c] /\ lock' = TRUE
      BY <1>1, <1>3, <2>3 DEF Google!Token, GoogleTypes
    <3>2. CallHolds(c, applied[r], expires, revoked, now)
      BY <1>1, <2>1 DEF CallHolds, CallTypes, TokenLasts, RefusedForCause,
                        CarriedOut, Google!Steps
    <3> HIDE DEF c
    <3> QED BY <2>1, <2>2, <3>1, <3>2, OneCallTurns
  <2>4. CASE ~Google!Stale(r)
    <3> DEFINE c == [gcall[r] EXCEPT !.at = "send", !.age = 0,
                                     !.token = cached.id]
    <3>1. gcall' = [gcall EXCEPT ![r] = c] /\ lock' = lock
      BY <1>1, <1>3, <2>4 DEF Google!Token, Google!SetOut, GoogleTypes
    <3>2. gcall[r].refused = 0 /\ now < cached.until
      BY <1>1, <2>4 DEF Google!Stale, GoogleTypes, CallTypes, CachedLasts
    <3>3. /\ cached.id \in DOMAIN expires
          /\ cached.until <= expires[cached.id] + Delay - Skew
      BY <1>1, <3>2 DEF CachedLasts, GoogleTypes
    <3>4. now + Transit < expires[cached.id]
      <4>1. now \in Nat /\ expires[cached.id] \in Nat /\ cached.until \in Int
        BY <1>1, <3>3 DEF GoogleTypes, CachedLasts
      <4> QED BY <1>0, <3>2, <3>3, <4>1
    <3>5. /\ c \in CallTypes /\ c.at = "send" /\ c.refused = 0
          /\ c.token = cached.id /\ c.age = 0
      BY <1>1, <3>2 DEF CallTypes, Google!Steps, CachedLasts
    <3> HIDE DEF c
    <3>6. TokenLasts(c, expires, now)
      <4>1. expires[cached.id] \in Nat
        BY <1>1, <3>3 DEF GoogleTypes
      <4> QED BY <1>0, <3>3, <3>4, <3>5, <4>1 DEF TokenLasts
    <3>7. RefusedForCause(c, revoked) /\ CarriedOut(c, applied[r])
      BY <1>1, <2>1, <3>5 DEF CallHolds, RefusedForCause, CarriedOut
    <3>8. CallHolds(c, applied[r], expires, revoked, now)
      BY <3>5, <3>6, <3>7 DEF CallHolds
    <3>9. lock' \in BOOLEAN
      BY <1>1, <3>1 DEF GoogleTypes
    <3> QED BY <2>1, <2>2, <3>1, <3>8, <3>9, OneCallTurns
  <2> QED BY <2>3, <2>4
<1>4. ASSUME NEW r \in Reqs, Google!Mint(r) PROVE GoogleInv'
  <2>1. PICK n \in Nat : expires \in [1..n -> Nat]
    BY <1>1 DEF GoogleTypes
  <2>2. Google!Minted = 1..n /\ Google!Cardinality(Google!Minted) = n
    <3>1. Google!Minted = 1..n
      BY <2>1 DEF Google!Minted
    <3>2. Google!Cardinality(1..n) = Cardinality(1..n)
      BY DEF Google!Cardinality, Cardinality
    <3>3. Cardinality(1..n) = n
      BY FS_Interval
    <3> QED BY <3>1, <3>2, <3>3
  <2> DEFINE more == [i \in 1..(n + 1) |->
                        IF i = n + 1 THEN now + Life ELSE expires[i]]
             c == [gcall[r] EXCEPT !.at = "minted", !.token = n + 1,
                                   !.age = 0]
  <2>3. /\ gcall[r].at = "refresh"
        /\ expires' = more
        /\ gcall' = [gcall EXCEPT ![r] = c]
        /\ UNCHANGED <<cached, lock, revoked, applied, now>>
    <3>1. 1..n \cup {n + 1} = 1..(n + 1)
      BY <2>1
    <3> QED BY <1>1, <1>4, <2>2, <3>1 DEF Google!Mint, GoogleTypes
  <2>4. /\ more \in [1..(n + 1) -> Nat] /\ more[n + 1] = now + Life
        /\ \A x \in 1..n : more[x] = expires[x]
        /\ DOMAIN expires = 1..n /\ DOMAIN more = 1..(n + 1)
    BY <1>0, <1>1, <2>1 DEF GoogleTypes
  <2> HIDE DEF more
  <2>5. CallHolds(c, applied[r], more, revoked, now)
    <3>1. n + 1 \notin revoked
      BY <1>1, <2>1, <2>4 DEF GoogleTypes
    <3>2. /\ c \in CallTypes /\ c.at = "minted" /\ c.token = n + 1
          /\ c.refused = gcall[r].refused /\ c.age = 0
      <4>1. n + 1 \in Nat /\ gcall[r] \in CallTypes
        BY <1>1, <2>1
      <4>2. ASSUME NEW k \in Nat, NEW d,
                   d = [gcall[r] EXCEPT !.at = "minted", !.token = k, !.age = 0]
            PROVE  /\ d \in CallTypes /\ d.at = "minted" /\ d.token = k
                   /\ d.refused = gcall[r].refused /\ d.age = 0
        BY <4>1, <4>2 DEF CallTypes, Google!Steps
      <4> QED BY <4>1, <4>2
    <3> HIDE DEF c
    <3>3. TokenLasts(c, more, now)
      <4>1. now \in Nat /\ n + 1 \in DOMAIN more
        BY <1>1, <2>1, <2>4 DEF GoogleTypes
      <4> QED BY <1>0, <2>4, <3>2, <4>1 DEF TokenLasts
    <3>4. RefusedForCause(c, revoked) /\ CarriedOut(c, applied[r])
      BY <1>1, <2>3, <3>1, <3>2 DEF CallHolds, RefusedForCause, CarriedOut
    <3> QED BY <3>2, <3>3, <3>4 DEF CallHolds
  <2>6. c \in CallTypes
    BY <2>5 DEF CallHolds
  <2> HIDE DEF c
  <2>7. ASSUME NEW q \in Reqs
        PROVE  CallHolds(gcall'[q], applied[q], more, revoked, now)
    <3>1. CASE q = r
      BY <1>1, <2>3, <2>5, <3>1 DEF GoogleTypes
    <3>2. CASE q # r
      <4>1. gcall'[q] = gcall[q]
        BY <1>1, <2>3, <3>2 DEF GoogleTypes
      <4>2. CallHolds(gcall[q], applied[q], expires, revoked, now)
        BY <1>1
      <4>3. DOMAIN expires \subseteq DOMAIN more
        BY <2>1, <2>4
      <4> QED BY <2>4, <4>1, <4>2, <4>3, MoreTokens
    <3> QED BY <3>1, <3>2
  <2>8. GoogleTypes'
    <3>1. n + 1 \in Nat /\ expires' \in [1..(n + 1) -> Nat]
      BY <2>1, <2>3, <2>4
    <3>2. revoked' \subseteq DOMAIN expires'
      BY <1>1, <2>1, <2>3, <2>4 DEF GoogleTypes
    <3> QED BY <1>1, <2>3, <2>6, <3>1, <3>2 DEF GoogleTypes
  <2>9. CachedLasts'
    BY <1>1, <2>1, <2>3, <2>4 DEF CachedLasts
  <2> QED BY <2>3, <2>7, <2>8, <2>9
          DEF GoogleInv, CallHolds, TokenLasts, RefusedForCause, CarriedOut,
              CallTypes, Google!Steps
<1>5. ASSUME NEW r \in Reqs, Google!Refreshed(r) PROVE GoogleInv'
  <2> DEFINE c == [gcall[r] EXCEPT !.at = "send", !.age = 0,
                                   !.token = gcall[r].token]
  <2>1. /\ gcall[r].at = "minted" /\ lock' = FALSE
        /\ cached' = [id |-> gcall[r].token, until |-> now + Life - Skew]
        /\ UNCHANGED <<expires, revoked, applied, now>>
        /\ gcall' = [gcall EXCEPT ![r] = c]
    BY <1>1, <1>5 DEF Google!Refreshed, Google!SetOut, GoogleTypes
  <2>2. /\ gcall[r].token \in DOMAIN expires /\ gcall[r].age <= Delay
        /\ now + Life <= expires[gcall[r].token] + gcall[r].age
        /\ gcall[r].token \in Nat /\ gcall[r].age \in Nat
        /\ now \in Nat /\ expires[gcall[r].token] \in Nat
    BY <1>1, <2>1 DEF CallHolds, TokenLasts, CallTypes, GoogleTypes
  <2>3. CachedLasts'
    BY <1>0, <2>1, <2>2 DEF CachedLasts
  <2>4. /\ c \in CallTypes /\ c.at = "send" /\ c.age = 0
        /\ c.token = gcall[r].token /\ c.refused = gcall[r].refused
    BY <1>1 DEF CallTypes, Google!Steps
  <2> HIDE DEF c
  <2>5. TokenLasts(c, expires, now)
    BY <1>0, <2>2, <2>4 DEF TokenLasts
  <2>6. RefusedForCause(c, revoked) /\ CarriedOut(c, applied[r])
    BY <1>1, <2>1, <2>4 DEF CallHolds, RefusedForCause, CarriedOut
  <2>7. CallHolds(c, applied[r], expires, revoked, now)
    BY <2>4, <2>5, <2>6 DEF CallHolds
  <2> QED BY <2>1, <2>3, <2>7, OneCallTurns
<1>6. ASSUME NEW r \in Reqs, Google!Accept(r) PROVE GoogleInv'
  <2>1. /\ gcall[r].at = "send"
        /\ applied' = [applied EXCEPT ![r] = 1]
        /\ gcall' = [gcall EXCEPT ![r] = Quiet("answer")]
        /\ UNCHANGED <<cached, lock, expires, revoked, now>>
    <3>1. gcall[r].at = "send" => applied[r] = 0
      BY <1>1 DEF CallHolds, CarriedOut
    <3> QED BY <1>1, <1>6, <3>1
            DEF Google!Accept, Google!Goto, Google!At, GoogleTypes
  <2>2. CallHolds(Quiet("answer"), 1, expires, revoked, now)
    BY DEF CallHolds, CallTypes, TokenLasts, RefusedForCause, CarriedOut,
           Google!Steps
  <2>3. CachedLasts' /\ lock' \in BOOLEAN
    BY <1>1, <2>1 DEF CachedLasts, GoogleTypes
  <2> HIDE DEF Quiet
  <2> QED BY <2>1, <2>2, <2>3, OneCallMoves
<1>7. ASSUME NEW r \in Reqs, Google!Answer(r) PROVE GoogleInv'
  <2>1. /\ gcall[r].at = "answer"
        /\ gcall' = [gcall EXCEPT ![r] = Quiet("ok")]
        /\ UNCHANGED <<cached, lock, expires, revoked, applied, now>>
    BY <1>7 DEF Google!Answer, Google!Goto, Google!At
  <2>2. CallHolds(Quiet("ok"), applied[r], expires, revoked, now)
    BY <1>1, <2>1 DEF CallHolds, CallTypes, TokenLasts, RefusedForCause,
                      CarriedOut, Google!Steps
  <2>3. CachedLasts' /\ lock' \in BOOLEAN
    BY <1>1, <2>1 DEF CachedLasts, GoogleTypes
  <2> HIDE DEF Quiet
  <2> QED BY <2>1, <2>2, <2>3, OneCallTurns
<1>8. ASSUME NEW r \in Reqs, Google!Refuse(r) PROVE GoogleInv'
  <2> DEFINE again == [at |-> "token", token |-> 0, refused |-> 1, age |-> 0]
             c == IF gcall[r].refused = 0 THEN again ELSE Quiet("rejected")
  <2>1. /\ gcall[r].at = "send" /\ ~Google!Honoured(gcall[r].token)
        /\ UNCHANGED <<cached, lock, expires, revoked, applied, now>>
        /\ gcall' = [gcall EXCEPT ![r] = c]
    <3>1. [Quiet("token") EXCEPT !.refused = 1] = again
      OBVIOUS
    <3> QED BY <1>8, <3>1 DEF Google!Refuse, Google!At
  <2>2. gcall[r].token \in revoked
    BY <1>0, <1>1, <2>1
       DEF Google!Honoured, CallHolds, TokenLasts, CallTypes, GoogleTypes
  <2>3. CallHolds(again, applied[r], expires, revoked, now)
    BY <1>1, <2>1, <2>2 DEF CallHolds, CallTypes, TokenLasts,
       RefusedForCause, CarriedOut, Google!Steps
  <2>4. ASSUME gcall[r].refused # 0
        PROVE  CallHolds(Quiet("rejected"), applied[r], expires, revoked, now)
    <3>1. \E x \in revoked : x # gcall[r].token
      BY <1>1, <2>1, <2>4 DEF CallHolds, RefusedForCause, CallTypes
    <3> QED BY <1>1, <2>1, <2>2, <3>1
            DEF CallHolds, CallTypes, TokenLasts, RefusedForCause, CarriedOut,
                Google!Steps
  <2> HIDE DEF again, Quiet
  <2>5. CallHolds(c, applied[r], expires, revoked, now)
    BY <2>3, <2>4
  <2>6. CachedLasts' /\ lock' \in BOOLEAN
    BY <1>1, <2>1 DEF CachedLasts, GoogleTypes
  <2> HIDE DEF c
  <2> QED BY <2>1, <2>5, <2>6, OneCallTurns
<1>9. ASSUME NEW r \in Reqs, Google!Fails(r) PROVE GoogleInv'
  <2>1. /\ UNCHANGED <<cached, expires, revoked, applied, now>>
        /\ gcall' = [gcall EXCEPT ![r] = Quiet("failed")]
        /\ lock' \in BOOLEAN
    BY <1>1, <1>9 DEF Google!Fails, Google!Goto, Google!At, GoogleTypes
  <2>2. CallHolds(Quiet("failed"), applied[r], expires, revoked, now)
    BY <1>1 DEF CallHolds, CallTypes, TokenLasts, RefusedForCause, CarriedOut,
                Google!Steps
  <2>3. CachedLasts'
    BY <1>1, <2>1 DEF CachedLasts, GoogleTypes
  <2> HIDE DEF Quiet
  <2> QED BY <2>1, <2>2, <2>3, OneCallTurns
<1>10. CASE Google!Revoke
  <2>1. PICK x \in Google!Minted : revoked' = revoked \cup {x}
    BY <1>10 DEF Google!Revoke
  <2>2. UNCHANGED <<cached, lock, gcall, expires, applied, now>>
    BY <1>10 DEF Google!Revoke
  <2>3. ASSUME NEW q \in Reqs
        PROVE  CallHolds(gcall[q], applied[q], expires, revoked', now)
    BY <1>1, <2>1, MoreTokens
  <2>4. GoogleTypes' /\ CachedLasts'
    BY <1>1, <2>1, <2>2 DEF GoogleTypes, CachedLasts, Google!Minted
  <2> QED BY <2>2, <2>3, <2>4
          DEF GoogleInv, CallHolds, TokenLasts, RefusedForCause, CarriedOut,
              CallTypes, Google!Steps
<1>11. CASE Google!Tick
  <2>1. /\ now' = now + 1
        /\ \A r \in Reqs : /\ gcall[r].at = "send" => gcall[r].age < Transit
                           /\ gcall[r].at = "minted" => gcall[r].age < Delay
        /\ gcall' = [r \in Reqs |-> IF gcall[r].at \in {"send", "minted"}
                                    THEN [gcall[r] EXCEPT !.age = @ + 1]
                                    ELSE gcall[r]]
        /\ UNCHANGED <<cached, lock, expires, revoked, applied>>
    BY <1>11 DEF Google!Tick
  <2>2. ASSUME NEW q \in Reqs
        PROVE  CallHolds(gcall'[q], applied[q], expires, revoked, now + 1)
    <3>1. /\ CallHolds(gcall[q], applied[q], expires, revoked, now)
          /\ gcall[q] \in CallTypes /\ now \in Nat
          /\ \A x \in DOMAIN expires : expires[x] \in Nat
      BY <1>1 DEF GoogleTypes
    <3>2. CASE gcall[q].at \in {"send", "minted"}
      <4> DEFINE c == [gcall[q] EXCEPT !.age = @ + 1]
      <4>1. gcall'[q] = c
        BY <2>1, <3>2
      <4>2. /\ c \in CallTypes /\ c.at = gcall[q].at
            /\ c.token = gcall[q].token /\ c.refused = gcall[q].refused
            /\ c.age = gcall[q].age + 1
        BY <3>1 DEF CallTypes
      <4> HIDE DEF c
      <4>3. TokenLasts(c, expires, now + 1)
        BY <1>0, <2>1, <3>1, <4>2 DEF CallHolds, TokenLasts, CallTypes
      <4>4. RefusedForCause(c, revoked) /\ CarriedOut(c, applied[q])
        BY <3>1, <4>2 DEF CallHolds, RefusedForCause, CarriedOut
      <4> QED BY <4>1, <4>2, <4>3, <4>4 DEF CallHolds
    <3>3. CASE gcall[q].at \notin {"send", "minted"}
      <4>1. gcall'[q] = gcall[q]
        BY <2>1, <3>3
      <4> QED BY <3>1, <3>3, <4>1 DEF CallHolds, TokenLasts
    <3> QED BY <3>2, <3>3
  <2>3. gcall' \in [Reqs -> CallTypes]
    BY <2>1, <2>2 DEF CallHolds
  <2>4. GoogleTypes' /\ CachedLasts'
    BY <1>1, <2>1, <2>3 DEF GoogleTypes, CachedLasts
  <2> QED BY <2>1, <2>2, <2>4
          DEF GoogleInv, CallHolds, TokenLasts, RefusedForCause, CarriedOut,
              CallTypes, Google!Steps
<1>12. ASSUME UNCHANGED <<cached, lock, gcall, expires, revoked, applied, now>>
       PROVE  GoogleInv'
  BY <1>12 DEF GoogleInv, GoogleTypes, CachedLasts, CallHolds, TokenLasts,
     RefusedForCause, CarriedOut, CallTypes, Google!Steps
<1> QED BY <1>2, <1>3, <1>4, <1>5, <1>6, <1>7, <1>8, <1>9, <1>10, <1>11, <1>12
        DEF Google!Next, Google!vars

\* What the invariant says of the properties.
LEMMA GoogleKeepsTokens == GoogleInv => Google!TokensHold
<1> SUFFICES ASSUME GoogleInv PROVE Google!TokensHold
  OBVIOUS
<1>1. \A r \in Reqs : CallHolds(gcall[r], applied[r], expires, revoked, now)
  BY DEF GoogleInv
<1>2. Google!NeverExpired
  <2> SUFFICES ASSUME NEW r \in Reqs, gcall[r].at = "send"
               PROVE  now < expires[gcall[r].token]
    BY DEF Google!NeverExpired
  <2>1. /\ now + Transit < expires[gcall[r].token] + gcall[r].age
        /\ gcall[r].age <= Transit /\ gcall[r].age \in Nat
        /\ gcall[r].token \in DOMAIN expires
    BY <1>1 DEF CallHolds, TokenLasts, CallTypes
  <2>2. now \in Nat /\ expires[gcall[r].token] \in Nat /\ Transit \in Nat
    BY <2>1, GoogleParameters DEF GoogleInv, GoogleTypes, GoogleParameters
  <2> QED BY <2>1, <2>2
<1>3. Google!OneRevocationHeals
  <2> SUFFICES ASSUME NEW r \in Reqs, gcall[r].at = "rejected"
               PROVE  Google!Cardinality(revoked) > 1
    BY DEF Google!OneRevocationHeals
  <2>1. PICK x \in revoked : \E y \in revoked : x # y
    BY <1>1 DEF CallHolds, RefusedForCause
  <2>2. PICK y \in revoked : x # y
    BY <2>1
  <2>3. IsFiniteSet(revoked)
    <3>1. PICK n \in Nat : expires \in [1..n -> Nat]
      BY DEF GoogleInv, GoogleTypes
    <3>2. revoked \subseteq 1..n
      BY <3>1 DEF GoogleInv, GoogleTypes
    <3>3. IsFiniteSet(1..n)
      BY FS_Interval
    <3> QED BY <3>2, <3>3, FS_Subset
  <2>4. IsFiniteSet({x}) /\ Cardinality({x}) = 1
    BY FS_Singleton
  <2>5. Cardinality({x} \cup {y}) = 2
    <3>1. y \notin {x}
      BY <2>2
    <3>2. Cardinality({x} \cup {y}) = Cardinality({x}) + 1
      BY <2>4, <3>1, FS_AddElement
    <3> QED BY <2>4, <3>2
  <2>6. {x} \cup {y} \subseteq revoked
    OBVIOUS
  <2>7. Cardinality({x} \cup {y}) <= Cardinality(revoked)
    BY <2>3, <2>6, FS_Subset
  <2>8. Google!Cardinality(revoked) = Cardinality(revoked)
    BY DEF Google!Cardinality, Cardinality
  <2>9. Cardinality(revoked) \in Nat
    BY <2>3, FS_CardinalityType
  <2> QED BY <2>5, <2>7, <2>8, <2>9
<1>4. Google!AppliedOnce
  <2> SUFFICES ASSUME NEW r \in Reqs
               PROVE  /\ applied[r] <= 1
                      /\ gcall[r].at = "ok" => applied[r] = 1
                      /\ gcall[r].at = "rejected" => applied[r] = 0
    BY DEF Google!AppliedOnce
  <2> QED BY <1>1 DEF CallHolds, CarriedOut
<1> QED BY <1>2, <1>3, <1>4 DEF Google!TokensHold

\* At the start no token is minted and no request under way; so the invariant
\* holds.
LEMMA GoogleInvariance == Spec => []GoogleInv
<1>1. Init => GoogleInv
  <2> SUFFICES ASSUME Init PROVE GoogleInv
    OBVIOUS
  <2>1. /\ cached = [id |-> 0, until |-> 0] /\ lock = FALSE /\ now = 1
        /\ gcall = [r \in Reqs |-> [at |-> "idle", token |-> 0, refused |-> 0,
                                    age |-> 0]]
        /\ expires = <<>> /\ revoked = {}
        /\ applied = [r \in Reqs |-> 0]
    BY DEF Init, Google!Init, Google!NoToken, Google!At
  <2>2. expires \in [1..0 -> Nat]
    BY <2>1
  <2>3. GoogleTypes
    <3>1. 0 \in Nat
      OBVIOUS
    <3>2. \E n \in Nat : expires \in [1..n -> Nat]
      BY <2>2, <3>1
    <3>3. gcall \in [Reqs -> CallTypes] /\ applied \in [Reqs -> Nat]
      BY <2>1 DEF CallTypes, Google!Steps
    <3>4. lock \in BOOLEAN
      BY <2>1
    <3>5. revoked \subseteq DOMAIN expires
      BY <2>1
    <3>6. now \in Nat \ {0}
      BY <2>1
    <3> QED BY <3>2, <3>3, <3>4, <3>5, <3>6 DEF GoogleTypes
  <2>4. \A r \in Reqs : CallHolds(gcall[r], applied[r], expires, revoked, now)
    BY <2>1 DEF CallHolds, CallTypes, TokenLasts, RefusedForCause, CarriedOut,
                Google!Steps
  <2>5. CachedLasts
    BY <2>1 DEF CachedLasts
  <2> QED BY <2>3, <2>4, <2>5 DEF GoogleInv
<1>2. [Next]_vars => [Google!Next]_(Google!vars)
  BY DEF Next, vars, google, Google!vars
<1> QED BY <1>1, <1>2, GoogleStep, PTL DEF Spec

\* However the requests share, refresh and lose the token, no call arrives
\* with an expired one, is carried out twice, or is given up for fewer than
\* two revocations; and what is reported of an image is what was done.
THEOREM OutsideIsReported == Spec => []OutsideHolds
<1>1. GoogleInv /\ MediaInv => OutsideHolds
  BY GoogleKeepsTokens DEF MediaInv, OutsideHolds
<1> QED BY <1>1, GoogleInvariance, MediaInvariance, PTL

-------------------------------------------------------------------------------
(* The types.                                                              *)

\* A call is made only of a batch that has one, within the budget.
ToolTypes == Tool!TypeOK /\ (phase # "over" => made <= MaxToolCalls)

\* One step per operation of the three runners.
LEMMA ToolTypesStep == ToolTypes /\ [Tool!Next]_(Tool!vars) => ToolTypes'
<1> SUFFICES ASSUME ToolTypes, [Tool!Next]_(Tool!vars) PROVE ToolTypes'
  OBVIOUS
<1> USE BoundsParameters DEF BoundsParameters, ToolTypes, Tool!TypeOK
<1>1. CASE Tool!Ask
  <2>1. CASE phase' = "over" /\ outcome' \in {"replied", "failed"}
             /\ UNCHANGED pending
    BY <1>1, <2>1 DEF Tool!Ask
  <2>2. ASSUME NEW batch \in Tool!Batches, phase' = "calling", pending' = batch,
               UNCHANGED outcome
        PROVE  ToolTypes'
    <3>1. PICK n \in 1..MaxBatch : batch \in [1..n -> Tool!Names]
      BY <2>2 DEF Tool!Batches
    <3>2. batch \in Seq(Tool!Names) /\ Len(batch) = n /\ batch # <<>>
      BY <3>1
    <3> QED BY <1>1, <2>2, <3>1, <3>2 DEF Tool!Ask
  <2> QED BY <1>1, <2>1, <2>2 DEF Tool!Ask
<1>2. CASE Tool!Call
  <2>1. CASE Tool!OverBudget(made')
    BY <1>2, <2>1 DEF Tool!Call, Tool!OverBudget
  <2>2. CASE ~Tool!OverBudget(made')
    <3>1. /\ pending \in Seq(Tool!Names) /\ pending # <<>>
          /\ pending' = Tail(pending) /\ Tool!Execute(Head(pending))
          /\ phase' = IF Len(pending) = 1 THEN "asking" ELSE "calling"
          /\ UNCHANGED <<agent, outcome>>
          /\ made' = made + 1 /\ made' <= MaxToolCalls
      BY <1>2, <2>2 DEF Tool!Call, Tool!OverBudget
    <3>2. pending' \in Seq(Tool!Names) /\ Len(pending') = Len(pending) - 1
      BY <3>1, HeadTailProperties
    <3>4. phase' = "calling" => pending' # <<>>
      <4>1. phase' = "calling" => Len(pending') # 0
        BY <3>1, <3>2
      <4> QED BY <4>1
    <3>3. ran' \subseteq Tools /\ refused' \subseteq Tools
      BY <3>1 DEF Tool!Execute
    <3>5. /\ agent' \in Tool!Agents /\ made \in Nat /\ MaxToolCalls \in Nat
          /\ outcome' \in {"none", "replied", "failed", "budget"}
          /\ Len(pending) \in Nat /\ Len(pending) <= MaxBatch
          /\ phase' \in {"asking", "calling"}
      BY <3>1
    <3>6. made' \in 0..MaxToolCalls + 1 /\ Len(pending') <= MaxBatch
      BY <3>1, <3>2, <3>5
    <3> QED BY <3>1, <3>2, <3>3, <3>4, <3>5, <3>6
  <2> QED BY <2>1, <2>2
<1>3. CASE Tool!BridgedCall
  BY <1>3 DEF Tool!BridgedCall, Tool!Execute
<1>4. CASE Tool!BridgedEnd
  BY <1>4 DEF Tool!BridgedEnd
<1>5. CASE UNCHANGED Tool!vars
  BY <1>5 DEF Tool!vars
<1> QED BY <1>1, <1>2, <1>3, <1>4, <1>5 DEF Tool!Next

\* One step per operation of a command.
LEMMA HostTypesStep == Host!TypeOK /\ [Host!Next]_(Host!vars) => Host!TypeOK'
BY DEF Host!TypeOK, Host!Next, Host!vars, Host!Call, Host!Fork,
       Host!BashExits, Host!ChildExits, Host!Timeout, Host!Killed,
       Host!Finish, Host!Abandon, Host!Processes

\* The store grows to its bound, and the contexts are those of turns.
MemoryTypes == /\ cloudStore \in BOOLEAN
               /\ Cardinality(store) <= MaxMemories
               /\ \A m \in store : m.id <= MaxMemories
               /\ open \in [Topics -> Homes \cup {None}]
               /\ context \in [Workers -> Memory!Contexts \cup {None}]

LEMMA MemoryTypesStep ==
    MemoryInv /\ MemoryTypes /\ [Memory!Next]_(Memory!vars) => MemoryTypes'
<1> SUFFICES ASSUME MemoryInv, MemoryTypes, [Memory!Next]_(Memory!vars)
             PROVE  MemoryTypes'
  OBVIOUS
<1> USE DEF MemoryTypes
<1>1. ASSUME NEW w \in Workers, NEW scope \in Memory!Scopes,
             Memory!Remember(w, scope)
      PROVE  MemoryTypes'
  <2> DEFINE a == context[w].by
             ns == Memory!ResolveScope(context[w], scope)
             alike == {x \in store : x.by = a /\ x.ns = ns}
             m == [id |-> Cardinality(alike) + 1, by |-> a, ns |-> ns]
  <2>1. /\ store' = store \cup {m} /\ Cardinality(store) < MaxMemories
        /\ UNCHANGED <<cloudStore, open, context>>
    BY <1>1, MemoryCardinality DEF Memory!Remember, Memory!NewMemory
  <2>2. /\ IsFiniteSet(store) /\ Cardinality(store) \in Nat
        /\ Cardinality(alike) \in Nat
        /\ Cardinality(alike) <= Cardinality(store)
    BY FS_Subset, FS_CardinalityType DEF MemoryInv
  <2>3. MaxMemories \in Nat
    BY BoundsParameters DEF BoundsParameters
  <2>4. Cardinality(store') <= MaxMemories
    <3>1. CASE m \in store
      BY <2>1, <3>1
    <3>2. CASE m \notin store
      <4>1. Cardinality(store \cup {m}) = Cardinality(store) + 1
        BY <2>2, <3>2, FS_AddElement
      <4> QED BY <2>1, <2>2, <2>3, <4>1
    <3> QED BY <3>1, <3>2
  <2>5. m.id <= MaxMemories
    BY <2>1, <2>2, <2>3
  <2> QED BY <2>1, <2>4, <2>5
<1>2. ASSUME NEW w \in Workers, Memory!Search(w) PROVE MemoryTypes'
  BY <1>2 DEF Memory!Search
<1>3. ASSUME NEW t \in Topics,
             Memory!OpenSession(t) \/ Memory!CloseSession(t)
      PROVE  MemoryTypes'
  BY <1>3 DEF Memory!OpenSession, Memory!CloseSession
<1>4. ASSUME NEW w \in Workers, NEW a \in Members, NEW t \in Topics,
             Memory!BeginTurn(w, a, t)
      PROVE  MemoryTypes'
  <2>1. [by |-> a, topic |-> t,
         ns |-> Memory!AgentNs(IF open[t] = None THEN a ELSE open[t])]
          \in Memory!Contexts
    BY DEF Memory!Contexts
  <2> QED BY <1>4, <2>1 DEF Memory!BeginTurn
<1>5. CASE UNCHANGED Memory!vars
  BY <1>5 DEF Memory!vars
<1> QED BY <1>1, <1>2, <1>3, <1>4, <1>5 DEF Memory!Next

\* A copy is of events within the bound, and is read for one more.
SessionBounded ==
    /\ Session!TypeOK
    /\ \A a \in Appenders : copy[a].on => acked[a] < MaxEvents

LEMMA SessionBoundedStep ==
    SessionInv /\ SessionBounded /\ [Session!Next]_(Session!vars)
    => SessionBounded'
<1> SUFFICES ASSUME SessionInv, SessionBounded, [Session!Next]_(Session!vars)
             PROVE  SessionBounded'
  OBVIOUS
<1> USE BoundsParameters
        DEF BoundsParameters, SessionBounded, Session!TypeOK, Session!Events,
            Session!NextEvent, Session!NoCopy, Session!Keys
<1>1. /\ copy \in [Appenders -> Copies]
      /\ \A a \in Appenders : copy[a].on =>
            ~cloud /\ copy[a].event = <<a, acked[a] + 1>>
  BY DEF SessionInv, SessionTypes, CopyIsKnown
<1>2. ASSUME NEW a \in Appenders, Session!PostEvent(a) PROVE SessionBounded'
  BY <1>1, <1>2 DEF Session!PostEvent
<1>3. ASSUME NEW a \in Appenders, Session!ReadSession(a) PROVE SessionBounded'
  BY <1>1, <1>3 DEF Session!ReadSession
<1>4. ASSUME NEW a \in Appenders, Session!PutSession(a) PROVE SessionBounded'
  <2>1. /\ KeyOf[a] \in Session!Keys
        /\ <<a, acked[a] + 1>> \in Session!Events
    BY <1>4 DEF Session!PutSession
  <2>2. Session!Written(a) \in SUBSET Session!Events
    BY <1>1, <1>4, <2>1 DEF Session!PutSession, Session!Written
  <2>3. sessionList' \in [Session!Keys -> SUBSET Session!Events]
    BY <1>4, <2>1, <2>2 DEF Session!PutSession
  <2>4. clashed' \subseteq Session!Events
    BY <1>1, <1>4, <2>1 DEF Session!PutSession
  <2>5. acked' \in [Appenders -> 0..MaxEvents]
    BY <1>4 DEF Session!PutSession
  <2>6. \A b \in Appenders : /\ copy'[b].list \subseteq Session!Events
                             /\ copy'[b].on => acked'[b] < MaxEvents
    BY <1>1, <1>4 DEF Session!PutSession
  <2>7. cloud' \in BOOLEAN
    BY <1>4 DEF Session!PutSession
  <2>8. \A b \in Appenders : copy'[b].list \subseteq Session!Events
    BY ONLY <2>6
  <2>9. \A b \in Appenders : copy'[b].on => acked'[b] < MaxEvents
    BY ONLY <2>6
  <2>10. Session!TypeOK'
    BY ONLY <2>3, <2>4, <2>5, <2>7, <2>8
       DEF Session!TypeOK, Session!Events, Session!Keys
  <2> QED BY ONLY <2>9, <2>10 DEF SessionBounded
<1>5. ASSUME NEW a \in Appenders, Session!AppendFails(a) PROVE SessionBounded'
  <2>1. /\ KeyOf[a] \in Session!Keys
        /\ <<a, acked[a] + 1>> \in Session!Events
    BY <1>5 DEF Session!AppendFails
  <2>2. Session!Written(a) \in SUBSET Session!Events
    BY <1>1, <1>5, <2>1 DEF Session!AppendFails, Session!Written
  <2>3. sessionList' \in [Session!Keys -> SUBSET Session!Events]
    BY <1>5, <2>1, <2>2 DEF Session!AppendFails
  <2>4. \A b \in Appenders : /\ copy'[b].list \subseteq Session!Events
                             /\ copy'[b].on => acked'[b] < MaxEvents
    BY <1>1, <1>5 DEF Session!AppendFails
  <2> QED BY <1>5, <2>3, <2>4 DEF Session!AppendFails
<1>6. CASE UNCHANGED Session!vars
  BY <1>6 DEF Session!vars
<1> QED BY <1>2, <1>3, <1>4, <1>5, <1>6 DEF Session!Next

\* A subscriber's queue holds numbers of events, and no more than its size.
LEMMA EventTypesStep ==
    EventInv /\ Events!TypeOK /\ [Events!Next]_(Events!vars) => Events!TypeOK'
<1> SUFFICES ASSUME EventInv, Events!TypeOK, [Events!Next]_(Events!vars)
             PROVE  Events!TypeOK'
  OBVIOUS
<1> USE BoundsParameters, TelemetryParameters
        DEF BoundsParameters, TelemetryParameters, Events!TypeOK, Events!Ids,
            Events!Nothing
<1>1. /\ seq = sent /\ sending \in [Senders -> Emissions]
      /\ \A s \in Senders : sending[s].at # "idle" =>
            sending[s].n \in 1..sent /\ sending[s].n = sending[s].seq + 1
  BY DEF EventInv, EventTypes, Numbered
<1>2. ASSUME NEW s \in Senders, NEW kind \in Events!Kinds,
             Events!Send(s, kind)
      PROVE  Events!TypeOK'
  <2>1. /\ seq' \in 0..MaxSent /\ sent' \in 0..MaxSent
        /\ turnPhase' \in {"ready", "running", "ended"}
    BY <1>1, <1>2 DEF Events!Send, Events!Stamp
  <2>2. \A r \in Senders : sending'[r].at \in {"idle", "audit", "live"}
    BY <1>1, <1>2 DEF Events!Send
  <2> QED BY <1>2, <2>1, <2>2 DEF Events!Send
<1>3. ASSUME NEW s \in Senders, Events!Audit(s) PROVE Events!TypeOK'
  <2>1. sending[s].n \in Events!Ids /\ sending[s].seq \in 0..MaxSent
    BY <1>1, <1>3 DEF Events!Audit, Emissions
  <2>2. \A r \in Senders : sending'[r].at \in {"idle", "audit", "live"}
    BY <1>1, <1>3 DEF Events!Audit, Events!AfterFailure, Emissions
  <2>3. audit' \subseteq
          audit \cup {[n |-> sending[s].n, seq |-> sending[s].seq]}
    BY <1>3 DEF Events!Audit
  <2>4. \A e \in audit' : e.n \in Events!Ids /\ e.seq \in 0..MaxSent
    BY <2>1, <2>3
  <2> QED BY <1>3, <2>2, <2>4 DEF Events!Audit
<1>4. ASSUME NEW s \in Senders, Events!Publish(s) PROVE Events!TypeOK'
  <2>1. sending[s].n \in Events!Ids
    BY <1>1, <1>4 DEF Events!Publish
  <2>2. queue' \in Seq(Events!Ids) /\ Len(queue') <= QueueSize
    <3>1. CASE listening /\ ~(Len(queue) >= QueueSize)
      <4>1. queue' = Append(queue, sending[s].n)
        BY <1>4, <3>1 DEF Events!Publish
      <4> QED BY <2>1, <3>1, <4>1
    <3>2. CASE ~(listening /\ ~(Len(queue) >= QueueSize))
      BY <1>4, <3>2 DEF Events!Publish
    <3> QED BY <3>1, <3>2
  <2>3. live' \in [Events!Ids ->
                    {"none", "published", "dropped", "cancelled"}]
    BY <1>4, <2>1 DEF Events!Publish
  <2>4. span' \in {"none", "open", "closed"}
    BY <1>4 DEF Events!Publish, Events!SpanAfter
  <2>5. \A r \in Senders : sending'[r].at \in {"idle", "audit", "live"}
    BY <1>1, <1>4 DEF Events!Publish
  <2> QED BY <1>4, <2>2, <2>3, <2>4, <2>5 DEF Events!Publish
<1>5. CASE Events!Cancel
  <2>1. sending[Turn].n \in Events!Ids
    BY <1>1, <1>5 DEF Events!Cancel
  <2>2. \A r \in Senders : sending'[r].at \in {"idle", "audit", "live"}
    BY <1>1, <1>5 DEF Events!Cancel
  <2>3. live' \in [Events!Ids ->
                    {"none", "published", "dropped", "cancelled"}]
    BY <1>5, <2>1 DEF Events!Cancel
  <2> QED BY <1>5, <2>2, <2>3 DEF Events!Cancel
<1>6. CASE Events!Subscribe \/ Events!Leave
  <2>1. queue' = <<>> /\ listening' \in BOOLEAN
    BY <1>6 DEF Events!Subscribe, Events!Leave
  <2>2. queue' \in Seq(Events!Ids) /\ Len(queue') <= QueueSize
    BY <2>1
  <2> QED BY <1>6, <2>1, <2>2 DEF Events!Subscribe, Events!Leave
<1>7. CASE Events!TakeEvent
  BY <1>7 DEF Events!TakeEvent
<1>8. CASE UNCHANGED Events!vars
  BY <1>8 DEF Events!vars
<1> QED BY <1>2, <1>3, <1>4, <1>5, <1>6, <1>7, <1>8 DEF Events!Next
\* The tokens are numbered up to their bound, and those in use were minted.
GoogleBounded ==
    /\ Google!Minted \subseteq Google!Tokens
    /\ \A r \in Reqs : gcall[r].token \in {0} \cup Google!Minted
    /\ now \in 1..MaxTime

\* One step per operation.
LEMMA GoogleBoundedStep ==
    GoogleInv /\ GoogleBounded /\ [Google!Next]_(Google!vars) => GoogleBounded'
<1> SUFFICES ASSUME GoogleInv, GoogleBounded, [Google!Next]_(Google!vars)
             PROVE  GoogleBounded'
  OBVIOUS
<1> USE BoundsParameters DEF BoundsParameters, GoogleBounded, Google!Minted
<1>1. /\ gcall \in [Reqs -> CallTypes]
      /\ cached.id \in {0} \cup DOMAIN expires
  BY DEF GoogleInv, GoogleTypes, CachedLasts
<1>2. ASSUME NEW r \in Reqs, NEW c, gcall' = [gcall EXCEPT ![r] = c],
             c.token \in {0, gcall[r].token, cached.id},
             UNCHANGED <<expires, now>>
      PROVE  GoogleBounded'
  BY <1>1, <1>2
<1>3. ASSUME NEW r \in Reqs, Google!Begin(r) \/ Google!Answer(r)
                             \/ Google!Fails(r) \/ Google!Accept(r)
      PROVE  GoogleBounded'
  BY <1>1, <1>2, <1>3 DEF Google!Begin, Google!Answer, Google!Fails,
     Google!Accept, Google!Goto, Google!At
<1>4. ASSUME NEW r \in Reqs, Google!Token(r) \/ Google!Refreshed(r)
      PROVE  GoogleBounded'
  BY <1>1, <1>2, <1>4 DEF Google!Token, Google!Refreshed, Google!SetOut,
     CallTypes
<1>5. ASSUME NEW r \in Reqs, Google!Refuse(r) PROVE GoogleBounded'
  BY <1>1, <1>2, <1>5 DEF Google!Refuse, Google!At
<1>6. ASSUME NEW r \in Reqs, Google!Mint(r) PROVE GoogleBounded'
  <2> DEFINE t == Cardinality(DOMAIN expires) + 1
  <2>1. PICK n \in Nat : expires \in [1..n -> Nat]
    BY DEF GoogleInv, GoogleTypes
  <2>2. Google!Cardinality(DOMAIN expires) = n
    <3>1. Cardinality(1..n) = n
      BY <2>1, FS_Interval
    <3>2. Google!Cardinality(DOMAIN expires) = Cardinality(DOMAIN expires)
      BY DEF Google!Cardinality, Cardinality
    <3> QED BY <2>1, <3>1, <3>2
  <2>3. /\ n < MaxTokens /\ DOMAIN expires' = DOMAIN expires \cup {n + 1}
        /\ gcall' = [gcall EXCEPT ![r].at = "minted", ![r].token = n + 1,
                                  ![r].age = 0]
        /\ UNCHANGED now
    BY <1>6, <2>2 DEF Google!Mint
  <2>4. DOMAIN expires' \subseteq Google!Tokens
    BY <2>1, <2>3 DEF Google!Tokens
  <2>5. \A q \in Reqs : gcall'[q].token \in {0} \cup DOMAIN expires'
    BY <1>1, <2>3 DEF CallTypes
  <2> QED BY <2>3, <2>4, <2>5
<1>7. CASE Google!Revoke
  BY <1>7 DEF Google!Revoke
<1>8. CASE Google!Tick
  <2>1. \A r \in Reqs : gcall'[r].token = gcall[r].token
    BY <1>1, <1>8 DEF Google!Tick, CallTypes
  <2> QED BY <1>8, <2>1 DEF Google!Tick
<1>9. CASE UNCHANGED Google!vars
  BY <1>9 DEF Google!vars
<1> QED BY <1>3, <1>4, <1>5, <1>6, <1>7, <1>8, <1>9 DEF Google!Next

\* ... which gives the type invariant.
LEMMA GoogleIsTyped == GoogleInv /\ GoogleBounded => Google!TypeOK
BY DEF GoogleInv, GoogleTypes, GoogleBounded, CachedLasts, CallHolds,
       CallTypes, CarriedOut, Google!TypeOK, Google!Minted

\* Zulip has files of images only.
UploadsExist == uploads \subseteq Calls

LEMMA UploadsStep ==
    UploadsExist /\ [Media!Next]_(Media!vars) => UploadsExist'
BY DEF UploadsExist, Media!Next, Media!vars, Media!zulip, Media!Check,
       Media!Generate, Media!Store, Media!Created, Media!Upload, Media!Post,
       Media!Mark, Media!Posted, Media!Fails

\* The variables of the eight components keep their types and their bounds.
THEOREM RuntimesAreTyped == Spec => []TypeOK
<1>1. Spec => []ToolTypes
  <2>1. Init => ToolTypes
    BY BoundsParameters DEF BoundsParameters, Init, Tool!Init, ToolTypes,
       Tool!TypeOK
  <2>2. [Next]_vars => [Tool!Next]_(Tool!vars)
    BY DEF Next, vars, access, Tool!vars
  <2> QED BY <2>1, <2>2, ToolTypesStep, PTL DEF Spec
<1>2. Spec => []Codex!TypeOK
  <2>1. CodexT!Spec => []CodexT!IInv
    BY CodexT!Invariance, CodexParameters
  <2>2. CodexT!IInv => Codex!TypeOK
    BY DEF CodexT!IInv, CodexT!TypeOK, Codex!TypeOK
  <2> QED BY <2>1, <2>2, RunsCodex, PTL
<1>3. Spec => []Host!TypeOK
  <2>1. Init => Host!TypeOK
    BY DEF Init, Host!Init, Host!TypeOK, Host!Processes
  <2>2. [Next]_vars => [Host!Next]_(Host!vars)
    BY DEF Next, vars, host, Host!vars
  <2> QED BY <2>1, <2>2, HostTypesStep, PTL DEF Spec
<1>4. Spec => []MemoryTypes
  <2>1. Init => MemoryTypes
    BY AgentMemoryParameters, BoundsParameters, FS_EmptySet
       DEF AgentMemoryParameters, BoundsParameters, Init, Memory!Init,
           MemoryTypes
  <2>2. [Next]_vars => [Memory!Next]_(Memory!vars)
    BY DEF Next, vars, memory, Memory!vars
  <2> QED BY <2>1, <2>2, MemoryTypesStep, MemoryInvariance, PTL DEF Spec
<1>5. Spec => []SessionBounded
  <2>1. Init => SessionBounded
    BY BoundsParameters DEF BoundsParameters, Init, Session!Init,
       SessionBounded, Session!TypeOK, Session!NoCopy
  <2>2. [Next]_vars => [Session!Next]_(Session!vars)
    BY DEF Next, vars, session, Session!vars
  <2> QED BY <2>1, <2>2, SessionBoundedStep, SessionInvariance, PTL DEF Spec
<1>6. Spec => []Events!TypeOK
  <2>1. Init => Events!TypeOK
    <3> SUFFICES ASSUME Init PROVE Events!TypeOK
      OBVIOUS
    <3>1. QueueSize \in Nat /\ MaxSent \in Nat
      BY BoundsParameters, TelemetryParameters
         DEF BoundsParameters, TelemetryParameters
    <3>2. queue \in Seq(Events!Ids) /\ Len(queue) <= QueueSize
      BY <3>1 DEF Init, Events!Init
    <3>3. /\ seq = 0 /\ sent = 0 /\ turnPhase = "ready" /\ audit = {}
          /\ sending = [s \in Senders |-> Events!Nothing]
          /\ live = [n \in Events!Ids |-> "none"]
          /\ listening = FALSE /\ span = "none"
      BY DEF Init, Events!Init
    <3>4. live \in [Events!Ids ->
                      {"none", "published", "dropped", "cancelled"}]
      BY <3>3
    <3>5. \A s \in Senders : sending[s].at \in {"idle", "audit", "live"}
      BY <3>3 DEF Events!Nothing
    <3>6. /\ seq \in 0..MaxSent /\ sent \in 0..MaxSent
          /\ \A e \in audit : e.n \in Events!Ids /\ e.seq \in 0..MaxSent
          /\ turnPhase \in {"ready", "running", "ended"}
      BY <3>1, <3>3
    <3>7. listening \in BOOLEAN /\ span \in {"none", "open", "closed"}
      BY <3>3
    <3> QED BY ONLY <3>2, <3>4, <3>5, <3>6, <3>7 DEF Events!TypeOK
  <2>2. [Next]_vars => [Events!Next]_(Events!vars)
    BY DEF Next, vars, events, Events!vars
  <2> QED BY <2>1, <2>2, EventTypesStep, EventInvariance, PTL DEF Spec
<1>7. Spec => []Google!TypeOK
  <2>1. Init => GoogleBounded
    BY BoundsParameters DEF BoundsParameters, Init, Google!Init,
       Google!At, GoogleBounded, Google!Minted
  <2>2. [Next]_vars => [Google!Next]_(Google!vars)
    BY DEF Next, vars, google, Google!vars
  <2> QED BY <2>1, <2>2, GoogleBoundedStep, GoogleIsTyped, GoogleInvariance,
             PTL DEF Spec
<1>8. Spec => []Media!TypeOK
  <2>1. Init => UploadsExist
    BY DEF Init, Media!Init, UploadsExist
  <2>2. [Next]_vars => [Media!Next]_(Media!vars)
    BY DEF Next, vars, media, Media!vars
  <2>3. MediaInv /\ UploadsExist => Media!TypeOK
    BY DEF MediaInv, UploadsExist, Media!TypeOK
  <2> QED BY <2>1, <2>2, <2>3, UploadsStep, MediaInvariance, PTL DEF Spec
<1>9. ToolTypes /\ Codex!TypeOK /\ Host!TypeOK /\ MemoryTypes /\ MemoryInv
      /\ SessionBounded /\ Events!TypeOK /\ Google!TypeOK /\ Media!TypeOK
      => TypeOK
  <2> SUFFICES ASSUME MemoryTypes, MemoryInv PROVE Memory!TypeOK
    BY DEF TypeOK, ToolTypes, SessionBounded
  <2> QED BY BoundsParameters
          DEF BoundsParameters, MemoryTypes, MemoryInv, Writable,
              Memory!TypeOK
<1> QED BY <1>1, <1>2, <1>3, <1>4, <1>5, <1>6, <1>7, <1>8, <1>9,
           MemoryInvariance, PTL
===============================================================================
