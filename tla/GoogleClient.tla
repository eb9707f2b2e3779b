----------------------------- MODULE GoogleClient -----------------------------
(***************************************************************************)
(* The client that the calendar and task tools of all turns share: one     *)
(* access token, cached until shortly before it expires, refreshed under a *)
(* lock, and once more when Google refuses it.  Any request may fail at    *)
(* its next await, or be cancelled there with its turn.                    *)
(***************************************************************************)
EXTENDS Naturals, FiniteSets

CONSTANTS Reqs,        \* the tool calls made over time
          Life,        \* how long Google honours a token
          Skew,        \* how much earlier the client lets it go (60 s)
          Delay,       \* how long the answer to a refresh may take (20 s)
          Transit,     \* how long a call may take to reach Google (2 x 20 s)
          MaxTime,     \* bound: the clock
          MaxRevoked,  \* bound: tokens revoked before they expire
          MaxTokens    \* bound: tokens minted

VARIABLES cached,   \* the token in memory and until when it is used
          lock,     \* whether a request holds the lock, to refresh
          call,     \* per request, where it is, with which token, how often
                    \* it was refused, how long it has been on its way
          expires,  \* per token minted, when it expires
          revoked,  \* the tokens Google has revoked
          applied,  \* per request, how often Google carried it out (history)
          now

vars == <<cached, lock, call, expires, revoked, applied, now>>

Steps == {"idle", "token", "refresh", "minted", "send", "answer", "ok",
          "failed", "rejected"}
Tokens == 1..MaxTokens
Minted == DOMAIN expires
NoToken == [id |-> 0, until |-> 0]
At(step) == [at |-> step, token |-> 0, refused |-> 0, age |-> 0]

Init == /\ cached = NoToken /\ lock = FALSE /\ now = 1
        /\ call = [r \in Reqs |-> At("idle")]
        /\ expires = <<>> /\ revoked = {}
        /\ applied = [r \in Reqs |-> 0]

Goto(r, step) == call' = [call EXCEPT ![r] = At(step)]
\* The request has a token and sets out with it.
SetOut(r, token) == call' = [call EXCEPT ![r].at = "send", ![r].age = 0,
                                         ![r].token = token]

\* A calendar or task tool makes its one request; an update of nothing does
\* not.
Begin(r) == /\ call[r].at = "idle"
            /\ Goto(r, "token") \/ Goto(r, "failed")
            /\ UNCHANGED <<cached, lock, expires, revoked, applied, now>>

\* (fault) A request that was refused takes the cached token again.
StaleUnforced(r) == now >= cached.until

\* A refused request forces a refresh; the first time the expiry decides.
Stale(r) == call[r].refused > 0 \/ now >= cached.until

\* _token, once the lock is free: the cached token, or a refresh with the
\* lock held.
Token(r) ==
  /\ call[r].at = "token" /\ ~lock
  /\ IF Stale(r) THEN /\ lock' = TRUE
                      /\ call' = [call EXCEPT ![r].at = "refresh",
                                              ![r].age = 0]
                 ELSE SetOut(r, cached.id) /\ UNCHANGED lock
  /\ UNCHANGED <<cached, expires, revoked, applied, now>>

\* Google mints a token; the answer is on its way.
Mint(r) ==
  /\ call[r].at = "refresh" /\ Cardinality(Minted) < MaxTokens
  /\ LET t == Cardinality(Minted) + 1
     IN /\ expires' = [i \in Minted \cup {t} |->
                         IF i = t THEN now + Life ELSE expires[i]]
        /\ call' = [call EXCEPT ![r].at = "minted", ![r].token = t,
                                ![r].age = 0]
  /\ UNCHANGED <<cached, lock, revoked, applied, now>>

\* _refresh returns: the expiry counts from now, not from the minting.
Refreshed(r) ==
  /\ call[r].at = "minted"
  /\ cached' = [id |-> call[r].token, until |-> now + Life - Skew]
  /\ lock' = FALSE /\ SetOut(r, call[r].token)
  /\ UNCHANGED <<expires, revoked, applied, now>>

\* Google looks at the token of a call that has reached it.
Honoured(t) == now < expires[t] /\ t \notin revoked

\* The call is carried out; its answer may still be lost.
Accept(r) == /\ call[r].at = "send" /\ Honoured(call[r].token)
             /\ applied' = [applied EXCEPT ![r] = @ + 1]
             /\ Goto(r, "answer")
             /\ UNCHANGED <<cached, lock, expires, revoked, now>>
Answer(r) == /\ call[r].at = "answer" /\ Goto(r, "ok")
             /\ UNCHANGED <<cached, lock, expires, revoked, applied, now>>

\* A 401: once the request tries again with a new token, twice it gives up.
Refuse(r) ==
  /\ call[r].at = "send" /\ ~Honoured(call[r].token)
  /\ call' = [call EXCEPT ![r] = IF call[r].refused = 0
                                 THEN [At("token") EXCEPT !.refused = 1]
                                 ELSE At("rejected")]
  /\ UNCHANGED <<cached, lock, expires, revoked, applied, now>>

\* An error of Google's or of the transport, a timeout, or the turn's
\* cancellation: the lock, if held, is released, and nothing is tried again.
Fails(r) ==
  /\ call[r].at \in {"token", "refresh", "minted", "send", "answer"}
  /\ lock' = (lock /\ call[r].at \notin {"refresh", "minted"})
  /\ Goto(r, "failed")
  /\ UNCHANGED <<cached, expires, revoked, applied, now>>

Revoke == /\ Cardinality(revoked) < MaxRevoked
          /\ \E t \in Minted \ revoked : revoked' = revoked \cup {t}
          /\ UNCHANGED <<cached, lock, call, expires, applied, now>>

\* Time passes, within what a call and an answer may take.
Tick ==
  /\ now < MaxTime /\ now' = now + 1
  /\ \A r \in Reqs : /\ call[r].at = "send" => call[r].age < Transit
                     /\ call[r].at = "minted" => call[r].age < Delay
  /\ call' = [r \in Reqs |-> IF call[r].at \in {"send", "minted"}
                             THEN [call[r] EXCEPT !.age = @ + 1]
                             ELSE call[r]]
  /\ UNCHANGED <<cached, lock, expires, revoked, applied>>

Next == \/ \E r \in Reqs : \/ Begin(r) \/ Token(r) \/ Mint(r) \/ Refreshed(r)
                           \/ Accept(r) \/ Answer(r) \/ Refuse(r) \/ Fails(r)
        \/ Revoke \/ Tick
Spec == Init /\ [][Next]_vars

-------------------------------------------------------------------------------
\* The type invariant.
TypeOK == /\ cached.id \in {0} \cup Minted /\ lock \in BOOLEAN
          /\ Minted \subseteq Tokens /\ revoked \subseteq Minted
          /\ \A r \in Reqs : /\ call[r].at \in Steps
                             /\ call[r].token \in {0} \cup Minted
                             /\ call[r].refused \in 0..1
                             /\ applied[r] \in 0..2
          /\ now \in 1..MaxTime

\* However long a request waited for the lock and others refreshed meanwhile,
\* no call reaches Google with an expired token (google_api.py:25-27).
NeverExpired == \A r \in Reqs : call[r].at = "send" =>
                                  now < expires[call[r].token]

\* A token revoked early costs no request its answer, whichever request
\* refreshes first: who is rejected saw two tokens revoked
\* (google_api.py:11-12, 84-103).
OneRevocationHeals ==
  (\E r \in Reqs : call[r].at = "rejected") => Cardinality(revoked) > 1

\* No event or task is created twice by one call: what was carried out is not
\* sent again, and ok means carried out.
AppliedOnce ==
  \A r \in Reqs : /\ applied[r] <= 1
                  /\ call[r].at = "ok" => applied[r] = 1
                  /\ call[r].at = "rejected" => applied[r] = 0

TokensHold == NeverExpired /\ OneRevocationHeals /\ AppliedOnce
===============================================================================
