------------------------------ MODULE ToolAccess ------------------------------
(***************************************************************************)
(* The tools of one turn: what the registry offers an agent, what the      *)
(* runtime lets it execute, and the three runners that put a model in      *)
(* between (the OpenAI tool loop, DeepAgents with its subagents, and the   *)
(* Codex bridge).  The model is not trusted: it may call any name with any *)
(* arguments.                                                              *)
(***************************************************************************)
EXTENDS Naturals, Sequences, FiniteSets

CONSTANTS Tools,         \* the names in the registry
          Ghosts,        \* names that are not: stale or invented
          Management,    \* tools registered with management=True
          Exec,          \* tools registered with requires_exec=True
          Profile,       \* the tools a subagent profile asks for
          MaxToolCalls,  \* deps.max_tool_calls
          MaxBatch       \* bound: calls in one completion

VARIABLES agent,     \* the agent's settings, as resolved when the turn began
          phase,     \* "asking" the model, "calling" tools, "over"
          pending,   \* the calls of the last completion not yet executed
          made,      \* calls_made
          ran,       \* the tools whose adapter ran
          refused,   \* the tools the runtime refused
          outcome    \* how the turn ended

vars == <<agent, phase, pending, made, ran, refused, outcome>>

Names == Tools \cup Ghosts
Runners == {"openai_tool_loop", "deepagents", "codex"}
Agents == [allowed : SUBSET Names, is_bastion : BOOLEAN, can_exec : BOOLEAN,
           runtime_kind : Runners]
Batches == UNION {[1..n -> Names] : n \in 1..MaxBatch}

Init == /\ agent \in Agents
        /\ phase = "asking"
        /\ pending = <<>>
        /\ made = 0
        /\ ran = {} /\ refused = {}
        /\ outcome = "none"

-------------------------------------------------------------------------------
\* Whether the flags of an agent let it have a tool at all.
PermittedByFlags(n) == /\ n \in Management => agent.is_bastion
                       /\ n \in Exec => agent.can_exec

\* (fault) The list alone decides: a flag only adds tools.
ResolveUnfiltered == agent.allowed
                     \cup (IF agent.is_bastion THEN Management ELSE {})
                     \cup (IF agent.can_exec THEN Exec ELSE {})

\* The names an agent has: its list without what its flags forbid, and what
\* its flags grant.
ResolveNames == {n \in agent.allowed : n \in Tools => PermittedByFlags(n)}
                \cup (IF agent.is_bastion THEN Management ELSE {})
                \cup (IF agent.can_exec THEN Exec ELSE {})

\* What the prompt says the model has: the registered ones of those names.
Described == ResolveNames \cap Tools

\* What the model is bound to: the same; over the Codex bridge, the registered
\* ones of the agent's list, whatever its flags.
Offered == IF agent.runtime_kind = "codex" THEN agent.allowed \cap Tools
                                           ELSE Described

\* What a subagent gets: its profile's tools that were bridged for the agent.
SubagentTools == Profile \cap Offered

\* The names a call can reach the runtime with: anything the model writes, in
\* the loop and over the Codex bridge; a bridged tool, the agent's or a
\* subagent's, in DeepAgents.
Reachable == IF agent.runtime_kind = "deepagents"
             THEN Offered \cup SubagentTools ELSE Names

\* The checks of ToolRuntime._dispatch for a registered tool, after the
\* bridge's own for a codex turn.
Permitted(n) == /\ agent.runtime_kind = "codex" => n \in agent.allowed
                /\ PermittedByFlags(n)
                /\ \/ n \in agent.allowed
                   \/ n \in Management /\ agent.is_bastion
                   \/ n \in Exec /\ agent.can_exec

\* ToolRuntime.execute: an unknown or refused name and arguments that do not
\* validate come back as a result; so does an adapter that raises.
Execute(n) ==
  \/ /\ n \in Tools /\ Permitted(n)
     /\ ran' = ran \cup {n}
     /\ UNCHANGED refused
  \/ /\ n \in Tools /\ ~Permitted(n)
     /\ refused' = refused \cup {n}
     /\ UNCHANGED ran
  \/ UNCHANGED <<ran, refused>>

\* One completion of the loop: final text, no content, or a batch of calls.
Ask ==
  /\ agent.runtime_kind = "openai_tool_loop" /\ phase = "asking"
  /\ \/ /\ phase' = "over"
        /\ outcome' \in {"replied", "failed"}
        /\ UNCHANGED pending
     \/ \E batch \in Batches :
          /\ phase' = "calling" /\ pending' = batch
          /\ UNCHANGED outcome
  /\ UNCHANGED <<agent, made, ran, refused>>

\* "allow exactly max_tool_calls executions; the next raises".
OverBudget(n) == n > MaxToolCalls

\* The next call of the batch; each counts, whatever it returns.
Call ==
  /\ phase = "calling"
  /\ made' = made + 1
  /\ IF OverBudget(made')
     THEN /\ phase' = "over" /\ outcome' = "budget"
          /\ UNCHANGED <<pending, ran, refused>>
     ELSE /\ Execute(Head(pending))
          /\ pending' = Tail(pending)
          /\ phase' = IF Len(pending) = 1 THEN "asking" ELSE "calling"
          /\ UNCHANGED outcome
  /\ UNCHANGED agent

\* DeepAgents and Codex drive the calls themselves, without a budget of ours.
BridgedCall == /\ agent.runtime_kind # "openai_tool_loop"
               /\ phase = "asking"
               /\ \E n \in Reachable : Execute(n)
               /\ UNCHANGED <<agent, phase, pending, made, outcome>>

BridgedEnd == /\ agent.runtime_kind # "openai_tool_loop"
              /\ phase = "asking"
              /\ phase' = "over" /\ outcome' \in {"replied", "failed"}
              /\ UNCHANGED <<agent, pending, made, ran, refused>>

Next == Ask \/ Call \/ BridgedCall \/ BridgedEnd
Spec == Init /\ [][Next]_vars

-------------------------------------------------------------------------------
\* The type invariant.
TypeOK == /\ agent \in Agents
          /\ phase \in {"asking", "calling", "over"}
          /\ pending \in Seq(Names) /\ Len(pending) <= MaxBatch
          /\ (phase = "calling") => (pending # <<>>)
          /\ made \in 0..MaxToolCalls + 1
          /\ ran \subseteq Tools /\ refused \subseteq Tools
          /\ outcome \in {"none", "replied", "failed", "budget"}

\* Privilege follows the flag, not the model-editable list: whatever the
\* model calls, over whatever runner, a management tool runs only for the
\* bastion, an exec tool only for an agent with can_exec, and any other tool
\* only for an agent whose list names it (registry.py:60, runtime.py:74).
PrivilegeFollowsFlag ==
  \A n \in ran : /\ n \in Management => agent.is_bastion
                 /\ n \in Exec => agent.can_exec
                 /\ n \notin Management \cup Exec => n \in agent.allowed

\* No runner refuses a tool it has both described to the model and bound it,
\* or a subagent, to: the separate checks agree on those (registry.py:57).  In
\* the loop and DeepAgents that is every tool described or bound.  Over the
\* Codex bridge it is not: a tool the flags alone grant is described and not
\* bound, one the list names without its flag is bound and not described, and
\* a call of either is refused.
OfferedRuns == refused \cap Described \cap (Offered \cup SubagentTools) = {}

\* The flags decide what runs, and what is described and bound is not refused,
\* for every agent, runner, subagent and batch of calls.
AccessAgrees == PrivilegeFollowsFlag /\ OfferedRuns
===============================================================================
