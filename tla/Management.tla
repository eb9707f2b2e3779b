------------------------------ MODULE Management ------------------------------
(***************************************************************************)
(* The agents' rows and everything that changes them: the bastion's        *)
(* management tools, the /agents routes, the seeder of the bastion and the *)
(* Zulip bots provisioned on the way.  A tool resolves an agent by name in *)
(* one transaction and acts on its id in a later one; in between lie       *)
(* requests to Zulip and other callers' calls.                             *)
(***************************************************************************)
EXTENDS Naturals, FiniteSets

CONSTANTS Names,      \* the names agents are given
          Bastions,   \* the names BASTION_NAME is given over time
          Queries,    \* what a tool is called with: names and parts of names
          Within,     \* the pairs <<part, name>>: part occurs in the name
          Callers,    \* turns of the bastion, requests, booting processes
          MaxBots,    \* bound: bots created in Zulip
          MaxRows,    \* bound: rows inserted
          MaxCalls,   \* bound: calls begun
          None

VARIABLES row,         \* per name, the agent's row
          bots,        \* how many bots have been created
          rows,        \* how many rows have been inserted
          call,        \* per caller, the call it is in
          calls,
          spoilt       \* the rows a call has spoilt, see Spoils; 0 for two
                       \* seeders that found no bastion (history)

vars == <<row, bots, rows, call, calls, spoilt>>

AllNames == Names \cup Bastions
ConfigBot == MaxBots + 1     \* the bot of the BASTION_* settings
Bots == 0..ConfigBot
\* A token is that of a bot; 0 is the empty token.
Rows == [id : 1..MaxRows, bot : Bots, token : Bots,
         status : {"active", "awaiting_token"}, enabled : BOOLEAN,
         is_bastion : BOOLEAN]
\* was is the bot of the agent when the call resolved it.
Idle == [op |-> "none", at |-> "idle", name |-> None, id |-> 0, bot |-> 0,
         token |-> 0, was |-> 0, seen |-> None, says |-> None]

Init == /\ row = [n \in AllNames |-> None]
        /\ bots = 0 /\ rows = 0 /\ calls = 0
        /\ call = [c \in Callers |-> Idle]
        /\ spoilt = {}

Live == {n \in AllNames : row[n] # None}
Is(n, id) == row[n] # None /\ row[n].id = id
Step(c, entry) == call' = [call EXCEPT ![c] = entry]
End(c) == Step(c, Idle)

-------------------------------------------------------------------------------
\* resolve_one: the exact match, or the only partial one.
ResolveOne(q) ==
  LET partial == {n \in Live : <<q, n>> \in Within}
  IN IF q \in Live THEN {q}
     ELSE IF Cardinality(partial) = 1 THEN partial ELSE {}

\* (fault) The name the tool was called with is looked for in the message.
ConfirmedQuery(message, q, n) == <<q, message>> \in Within

\* confirmation_satisfied: the message, one that says "confirm", contains the
\* agent's name.
Confirmed(message, q, n) == <<n, message>> \in Within

\* attach_bot is given a token, of whichever bot, and names a bot or none.
Made == 1..bots \cup {ConfigBot}
Given(op) == IF op = "attach" THEN ({0} \cup Made) \X Made ELSE {<<0, 0>>}

\* The first step of a tool that works on an existing agent.
Begin(c, op, q, message) ==
  /\ call[c].at = "idle" /\ calls < MaxCalls
  /\ \E n \in ResolveOne(q), given \in Given(op) :
       /\ op \in {"delete", "disable"} => Confirmed(message, q, n)
       /\ Step(c, [op |-> op, name |-> n, id |-> row[n].id, bot |-> given[1],
                   token |-> given[2], was |-> row[n].bot,
                   at |-> CASE op = "provision" -> "provision"
                            [] op = "attach" -> "load"
                            [] OTHER -> "act",
                   seen |-> None, says |-> message])
  /\ calls' = calls + 1
  /\ UNCHANGED <<row, bots, rows, spoilt>>

\* create_agent, as a tool or as POST /agents: with the credentials of a bot
\* a human made, or provisioning one first.
Create(c, op, n) ==
  /\ call[c].at = "idle" /\ calls < MaxCalls /\ bots < MaxBots
  /\ \/ /\ bots' = bots + 1
        /\ Step(c, [Idle EXCEPT !.op = op, !.at = "insert", !.name = n,
                                !.bot = bots + 1, !.token = bots + 1])
     \/ /\ Step(c, [Idle EXCEPT !.op = op, !.at = "provision", !.name = n])
        /\ UNCHANGED bots
  /\ calls' = calls + 1
  /\ UNCHANGED <<row, rows, spoilt>>

\* ZulipAdminClient.provision_bot: the bot is created; its key, its email and
\* its token are asked for, the token perhaps in vain.  A request that fails
\* ends the call and leaves the bot behind.  The route keeps no token of it.
Provision(c) ==
  /\ call[c].at = "provision" /\ bots < MaxBots
  /\ bots' = bots + 1
  /\ \/ End(c)
     \/ \E captured \in IF call[c].op = "route" THEN {0} ELSE {0, bots + 1} :
          LET next == IF call[c].op = "provision" THEN "load" ELSE "insert"
          IN Step(c, [call[c] EXCEPT !.at = next, !.bot = bots + 1,
                                     !.token = captured])
  /\ UNCHANGED <<row, rows, calls, spoilt>>
ProvisionFails(c) == /\ call[c].at = "provision" /\ End(c)
                     /\ UNCHANGED <<row, bots, rows, calls, spoilt>>

\* The unique constraints on the name and on the bot's email.
Free(n, bot) == row[n] = None /\ \A m \in Live : row[m].bot # bot

\* AgentRegistry.create, or the seeder's insert; a conflict is reported.
Insert(c) ==
  LET k == call[c] IN
  /\ k.at = "insert" /\ rows < MaxRows
  /\ IF Free(k.name, k.bot)
     THEN /\ row' = [row EXCEPT ![k.name] =
               [id |-> rows + 1, bot |-> k.bot, status |-> "active",
                token |-> k.token, enabled |-> TRUE,
                is_bastion |-> k.op = "seed"]]
          /\ rows' = rows + 1
     ELSE UNCHANGED <<row, rows>>
  /\ End(c)
  /\ UNCHANGED <<bots, calls, spoilt>>

\* (fault) A bot whose token was not captured is active all the same.
StatusActive(k) == "active"

\* The status provision_bot and attach_bot write.
Status(k) == IF k.token = 0 THEN "awaiting_token" ELSE "active"

\* AgentRegistry.update, first half: the row is loaded; a deleted one makes
\* it return None, which these tools do not look at.
Load(c) ==
  LET k == call[c] IN
  /\ k.at = "load"
  /\ IF Is(k.name, k.id)
     THEN Step(c, [k EXCEPT !.at = "commit", !.seen = row[k.name]])
     ELSE End(c)
  /\ UNCHANGED <<row, bots, rows, calls, spoilt>>

\* What the call sets: the fields that are not None.
Written(k) == [r \in {"bot" : x \in {k.bot} \ {0}} \cup
                     {"token" : x \in {k.token} \ {0}} \cup
                     (IF k.op = "seed" THEN {} ELSE {"status"})
               |-> CASE r = "bot" -> k.bot [] r = "token" -> k.token
                     [] OTHER -> Status(k)]

\* The call spoils the agent's credentials if it was given another bot's token,
\* or if they have changed since it resolved the agent or loaded the row.
Spoils(k) ==
  \/ k.op = "attach" /\ k.token # IF k.bot # 0 THEN k.bot ELSE k.was
  \/ row[k.name].bot # k.was
  \/ \E f \in {"bot", "token", "status"} : row[k.name][f] # k.seen[f]

\* The email is unique: another agent's is refused.
Taken(k) == \E m \in Live \ {k.name} : k.bot # 0 /\ row[m].bot = k.bot

\* ... second half: the columns that differ from the loaded row are written,
\* and the token, which is encrypted anew.
Commit(c) ==
  LET k == call[c] IN
  /\ k.at = "commit"
  /\ IF Is(k.name, k.id) /\ ~Taken(k)
     THEN /\ row' = [row EXCEPT ![k.name] =
               [f \in DOMAIN @ |->
                  IF f \in DOMAIN Written(k)
                     /\ (f = "token" \/ Written(k)[f] # k.seen[f])
                  THEN Written(k)[f] ELSE @[f]]]
          /\ spoilt' = spoilt \cup {x \in {k.id} : Spoils(k)}
     ELSE UNCHANGED <<row, spoilt>>
  /\ End(c)
  /\ UNCHANGED <<bots, rows, calls>>

\* AgentRegistry.delete and set_enabled: on the id found before; that the row
\* may be gone by then is not reported.
Act(c) ==
  LET k == call[c] IN
  /\ k.at = "act"
  /\ row' = IF ~Is(k.name, k.id) THEN row
            ELSE [row EXCEPT ![k.name] =
                    IF k.op = "delete" THEN None
                    ELSE [@ EXCEPT !.enabled = (k.op = "enable")]]
  /\ End(c)
  /\ UNCHANGED <<bots, rows, calls, spoilt>>

\* DELETE /agents/{id}.
RouteDelete(n) == /\ row[n] # None /\ calls < MaxCalls
                  /\ row' = [row EXCEPT ![n] = None]
                  /\ calls' = calls + 1
                  /\ UNCHANGED <<bots, rows, call, spoilt>>

\* The seeder looks for a row with is_bastion, whatever its name.
Existing(n) == {m \in Live : row[m].is_bastion}

\* seed_bastion at a boot, with all four credentials set: the existing row is
\* refreshed, its name apart, or a new one inserted.
Seed(c, n) ==
  /\ call[c].at = "idle" /\ calls < MaxCalls
  /\ IF Existing(n) = {}
     THEN /\ Step(c, [Idle EXCEPT !.op = "seed", !.at = "insert", !.name = n,
                                  !.bot = ConfigBot, !.token = ConfigBot])
          /\ spoilt' = IF \E d \in Callers \ {c} : call[d].op = "seed"
                       THEN spoilt \cup {0} ELSE spoilt
     ELSE \E m \in Existing(n) :
          /\ Step(c, [Idle EXCEPT !.op = "seed", !.at = "commit", !.name = m,
                                  !.id = row[m].id, !.bot = ConfigBot,
                                  !.token = ConfigBot, !.was = row[m].bot,
                                  !.seen = row[m]])
          /\ UNCHANGED spoilt
  /\ calls' = calls + 1
  /\ UNCHANGED <<row, bots, rows>>

Next ==
  \/ \E c \in Callers :
       \/ \E op \in {"delete", "enable", "disable", "provision", "attach"},
             q \in Queries, message \in AllNames : Begin(c, op, q, message)
       \/ \E op \in {"tool", "route"}, n \in Names : Create(c, op, n)
       \/ \E n \in Bastions : Seed(c, n)
       \/ Provision(c) \/ ProvisionFails(c) \/ Insert(c) \/ Load(c)
       \/ Commit(c) \/ Act(c)
  \/ \E n \in AllNames : RouteDelete(n)
Spec == Init /\ [][Next]_vars

-------------------------------------------------------------------------------
\* The type invariant.
TypeOK == /\ row \in [AllNames -> Rows \cup {None}]
          /\ bots \in 0..MaxBots /\ rows \in 0..MaxRows
          /\ \A c \in Callers : call[c].at \in {"idle", "provision", "insert",
                                                "load", "commit", "act"}
          /\ calls \in 0..MaxCalls /\ spoilt \subseteq 0..MaxRows

\* Over every sequence of boots, renames of BASTION_NAME and tool calls on
\* the bastion itself, one row at most is the bastion, unless two processes
\* seeded an empty table at once (bastion_seeder.py:21).
OneBastion == Cardinality({n \in Live : row[n].is_bastion}) > 1
              => 0 \in spoilt

\* Over every sequence and every interleaving of create, provision, attach and
\* seed, an active agent has the token of its own bot or none: with another's
\* the webhook refuses its messages.  Two things alone spoil it, a human who
\* attaches another bot's token and a call that commits over credentials which
\* have changed under it, and neither is reported (tools.py:171-190, 236-243).
\* It has none, and hears nothing, if create_agent captured no token or POST
\* /agents provisioned the bot: such a row is active all the same.
TokenOfBot ==
  \A n \in Live : (row[n].status = "active" /\ row[n].token # 0
                   /\ row[n].id \notin spoilt)
                  => row[n].token = row[n].bot

\* What the webhook relies on when it looks an agent up.
RowsHold == OneBastion /\ TokenOfBot

\* A tool deletes or disables an agent only in a turn whose message contains
\* that agent's own name, whichever part of a name the model called it by and
\* whatever changed in between (confirm.py:12-19).
DestroyedWasNamed ==
  [][\A c \in Callers : (call[c].at = "act"
                         /\ call[c].op \in {"delete", "disable"})
       => \A n \in Live : (row'[n] # row[n] /\ call'[c].at = "idle")
                          => <<n, call[c].says>> \in Within]_vars
===============================================================================
