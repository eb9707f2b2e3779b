----------------------------- MODULE PoolLedger -----------------------------
(***************************************************************************)
(* What the warm pool of Zulip bots promises, with nothing of how sessions *)
(* are opened, closed, reclaimed or recovered: a bot goes from nobody to   *)
(* one session and back to nobody, never straight from one session to      *)
(* another, and a session is given a bot at most once in its life.         *)
(***************************************************************************)
CONSTANTS Bots, Sessions, None

VARIABLES
    owner,  \* the session each bot is leased to, or None
    life    \* how far each session is from having had its bot

vars == <<owner, life>>

Init ==
    /\ owner = [b \in Bots |-> None]
    /\ life = [s \in Sessions |-> "unborn"]

\* A session id is minted, once.
Mint(s) ==
    /\ life[s] = "unborn"
    /\ life' = [life EXCEPT ![s] = "waiting"]
    /\ UNCHANGED owner

\* A free bot goes to a session that still waits for its only one.
Lease(b, s) ==
    /\ owner[b] = None
    /\ life[s] = "waiting"
    /\ owner' = [owner EXCEPT ![b] = s]
    /\ life' = [life EXCEPT ![s] = "settled"]

\* Sessions stop waiting: nothing could be leased, or the process died.
Settle(S) ==
    /\ \A s \in S : life[s] = "waiting"
    /\ life' = [s \in Sessions |-> IF s \in S THEN "settled" ELSE life[s]]
    /\ UNCHANGED owner

\* Bots go back to the pool.
Release(B) ==
    /\ owner' = [b \in Bots |-> IF b \in B THEN None ELSE owner[b]]
    /\ UNCHANGED life

Next ==
    \/ \E s \in Sessions : Mint(s)
    \/ \E b \in Bots, s \in Sessions : Lease(b, s)
    \/ \E S \in SUBSET Sessions : Settle(S)
    \/ \E B \in SUBSET Bots : Release(B)

Spec == Init /\ [][Next]_vars

=============================================================================
