----------------------------- MODULE AgentMemory ------------------------------
(***************************************************************************)
(* The agents' long-term memory over the Redis service: memories in        *)
(* namespaces, written through a gate and searched through an over-fetch   *)
(* that is filtered here, since the managed service ignores the filter.    *)
(*                                                                         *)
(* A turn's own namespace is resolved once, when it begins: the one of the *)
(* topic's open session, whoever has the turn, or the agent's.             *)
(***************************************************************************)
EXTENDS Naturals, FiniteSets

CONSTANTS Agents,
          Workers,       \* each runs a turn at a time
          Topics,
          ChannelOf,     \* a topic's channel
          Homes,         \* what sessions' namespaces are named after: an
                         \* archetype, or the session (session_store.py:24-26)
          Slug,          \* a name in the store's charset; names may share one
          Librarians,    \* the agents with is_librarian
          Limit,         \* the memories a search asks for
          Fetch,         \* the memories it fetches to filter: max(5*Limit, 25)
          MaxMemories,   \* bound: memories written
          None

VARIABLES cloud,     \* whether the managed service is used (store_id)
          open,      \* per topic, the home of its open session, or None
          turn,      \* per worker, its turn's tool context, or None
          store,     \* the memories, with who wrote them into what
          found      \* the answer a search has just given, or None

vars == <<cloud, open, turn, store, found>>

\* A namespace is a tier and a name in it.
AgentNs(name) == <<"agent", name>>
ChannelNs(c) == <<"channel", c>>
TopicNs(t) == <<"topic", t>>
WorkspaceNs == <<"workspace", "all">>
Scopes == {"self", "topic", "channel", "workspace"}

\* wire_ns: the tier survives it, and names that differ may come out alike.
WireNs(ns) == <<ns[1], Slug[ns[2]]>>

Init == /\ cloud \in BOOLEAN
        /\ open = [t \in Topics |-> None]
        /\ turn = [w \in Workers |-> None]
        /\ store = {}
        /\ found = None

-------------------------------------------------------------------------------
\* A session of the topic is spun up, or the open one is closed.
OpenSession(t) == /\ open[t] = None
                  /\ \E h \in Homes : open' = [open EXCEPT ![t] = h]
                  /\ found' = None
                  /\ UNCHANGED <<cloud, turn, store>>

CloseSession(t) == /\ open[t] # None
                   /\ open' = [open EXCEPT ![t] = None]
                   /\ found' = None
                   /\ UNCHANGED <<cloud, turn, store>>

\* process_job resolves memory_ns; what becomes of the session after that the
\* turn does not see.
BeginTurn(w, a, t) ==
  /\ turn' = [turn EXCEPT ![w] =
       [by |-> a, topic |-> t,
        ns |-> AgentNs(IF open[t] = None THEN a ELSE open[t])]]
  /\ found' = None
  /\ UNCHANGED <<cloud, open, store>>

\* resolve_scope.
ResolveScope(ctx, scope) ==
  CASE scope = "self" -> ctx.ns
    [] scope = "topic" -> TopicNs(ctx.topic)
    [] scope = "channel" -> ChannelNs(ChannelOf[ctx.topic])
    [] OTHER -> WorkspaceNs

\* _gate_write: whether the write is let through.
GateWrite(a, scope) == scope \in {"channel", "workspace"} => a \in Librarians

\* A memory's uuid only tells it from others like it.
NewMemory(a, ns) ==
  LET alike == {m \in store : m.by = a /\ m.ns = ns}
  IN [id |-> Cardinality(alike) + 1, by |-> a, ns |-> ns]

\* remember and record_episode.
Remember(w, scope) ==
  /\ turn[w] # None /\ Cardinality(store) < MaxMemories
  /\ GateWrite(turn[w].by, scope)
  /\ store' = store \cup {NewMemory(turn[w].by, ResolveScope(turn[w], scope))}
  /\ found' = None
  /\ UNCHANGED <<cloud, open, turn>>

\* What a turn may read: its own tier's namespace and its channel's.
ReadSet(ctx) == {WireNs(ctx.ns), WireNs(ChannelNs(ChannelOf[ctx.topic]))}

\* The filter applied to what the service returned.
InScope(ctx, m) == WireNs(m.ns) \in ReadSet(ctx)

\* (fault) As many memories are fetched as were asked for.
FetchedLimit == Limit

\* How many memories the service is asked for, before the filter.
Fetched == Fetch

\* What the service returns: the most relevant memories, whichever they are.
\* The managed one ignores the namespaces it is given; the local one does not.
Raw(ctx) == LET pool == IF cloud THEN store
                        ELSE {m \in store : InScope(ctx, m)}
                n == IF Cardinality(pool) < Fetched THEN Cardinality(pool)
                                                    ELSE Fetched
            IN {r \in SUBSET pool : Cardinality(r) = n}

\* search_long_term_memory: the first Limit of the fetched ones in scope.
Search(w) ==
  /\ turn[w] # None
  /\ \E raw \in Raw(turn[w]) :
       LET scoped == {m \in raw : InScope(turn[w], m)}
       IN \E items \in SUBSET scoped :
            /\ Cardinality(items) = IF Cardinality(scoped) < Limit
                                    THEN Cardinality(scoped) ELSE Limit
            /\ found' = [ctx |-> turn[w], items |-> items]
  /\ UNCHANGED <<cloud, open, turn, store>>

Next == \/ \E t \in Topics : OpenSession(t) \/ CloseSession(t)
        \/ \E w \in Workers :
             \/ \E a \in Agents, t \in Topics : BeginTurn(w, a, t)
             \/ \E scope \in Scopes : Remember(w, scope)
             \/ Search(w)
Spec == Init /\ [][Next]_vars

-------------------------------------------------------------------------------
Contexts == [by : Agents, topic : Topics,
             ns : {AgentNs(n) : n \in Agents \cup Homes}]

\* The type invariant.
TypeOK == /\ cloud \in BOOLEAN
          /\ open \in [Topics -> Homes \cup {None}]
          /\ turn \in [Workers -> Contexts \cup {None}]
          /\ \A m \in store : m.id \in 1..MaxMemories /\ m.by \in Agents
          /\ found # None => found.items \subseteq store

\* Whatever the service returns, and whichever session the topic had when the
\* turn began, a search shows a turn only memories written as some agent's or
\* session's own whose name reads as its own does in the store, and memories
\* that a librarian wrote for a channel whose name reads as its channel's
\* (agent_memory.py:5-8, 49-56, 259-266): a memory of another tier, or one put
\* in a channel's by anyone else, never.
SearchStaysInScope ==
  found # None =>
    \A m \in found.items :
      \/ m.ns[1] = "agent" /\ WireNs(m.ns) = WireNs(found.ctx.ns)
      \/ /\ m.ns[1] = "channel" /\ m.by \in Librarians
         /\ Slug[m.ns[2]] = Slug[ChannelOf[found.ctx.topic]]

\* While the store holds no more memories than a search fetches, the filter
\* costs nothing: a search returns Limit memories in scope, or all of them.
SearchFinds ==
  found # None /\ Cardinality(store) <= Fetch =>
    \/ Cardinality(found.items) = Limit
    \/ found.items = {m \in store : InScope(found.ctx, m)}

\* A search shows a turn what is its to see, and all of it while the
\* over-fetch suffices.
SearchHolds == SearchStaysInScope /\ SearchFinds
===============================================================================
