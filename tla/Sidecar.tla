------------------------------- MODULE Sidecar --------------------------------
(***************************************************************************)
(* The WhatsApp sidecar: one read-only connection per account that         *)
(* reconnects on its own, the in-process bus with its ring buffer, and the *)
(* HTTP streams fed from it.  Node runs one callback at a time; what       *)
(* interleaves are the callbacks: socket events, the reconnect timer,      *)
(* requests and signals.                                                   *)
(***************************************************************************)
EXTENDS Naturals, Sequences, FiniteSets, SequencesExt

CONSTANTS Accounts,     \* the accounts of accounts.json
          Streams,      \* subscribers: HTTP streams and in-code consumers
          Throwing,     \* the subscribers whose callback throws
          Capacity,     \* the ring buffer's size
          Lasts,        \* the values of ?last=N
          MaxMessages,  \* bound: messages published
          MaxCloses,    \* bound: sockets closed
          All           \* no account filter

VARIABLES work,       \* per account, the steps of its connections under way
          status,     \* what GET /accounts shows
          fails,      \* attempts that failed since the last socket (history)
          loggedOut,  \* the accounts WhatsApp has logged out
          stopped,    \* a signal has stopped the connections
          history,    \* the account of every message published (history)
          buffer,     \* the messages, as positions in history, retained
          stream,     \* per stream, its filter and what was written to it
          closes

vars == <<work, status, fails, loggedOut, stopped, history, buffer, stream,
          closes>>

\* The attempts (the first ever, the immediate one after a close, the delayed
\* one), the delay, and a socket that is not or is open.
Attempts == {"start", "first", "retry"}
Steps == Attempts \cup {"timer", "socket", "open"}
Idle == [k \in Steps |-> 0]

Init == /\ work = [a \in Accounts |-> [Idle EXCEPT !.start = 1]]
        /\ status = [a \in Accounts |-> "connecting"]
        /\ fails = [a \in Accounts |-> 0]
        /\ loggedOut = {} /\ stopped = FALSE
        /\ history = <<>> /\ buffer = <<>>
        /\ stream = [s \in Streams |-> [on |-> FALSE, account |-> All,
                                        got |-> <<>>]]
        /\ closes = 0

Move(a, from, to) ==
  /\ work[a][from] > 0
  /\ work' = [work EXCEPT ![a][from] = @ - 1, ![a][to] = @ + 1]
Drop(a, from) == /\ work[a][from] > 0
                 /\ work' = [work EXCEPT ![a][from] = @ - 1]

bus == <<history, buffer, stream>>
-------------------------------------------------------------------------------
\* connect(): the auth state is read, the version fetched, the socket made.
Connect(a, k) == /\ Move(a, k, "socket")
                 /\ fails' = [fails EXCEPT ![a] = 0]
                 /\ UNCHANGED <<status, loggedOut, stopped, closes, bus>>

\* A failed immediate attempt sets a timer, a failed first or delayed one
\* is logged.
AfterFailure(a, k) == IF k = "first" THEN Move(a, k, "timer") ELSE Drop(a, k)

ConnectFails(a, k) ==
  /\ AfterFailure(a, k)
  /\ fails' = [fails EXCEPT ![a] = IF @ < 2 THEN @ + 1 ELSE @]
  /\ UNCHANGED <<status, loggedOut, stopped, closes, bus>>

\* The five seconds are over.
Retry(a) == /\ Move(a, "timer", "retry")
            /\ UNCHANGED <<status, fails, loggedOut, stopped, closes, bus>>

\* connection.update with a QR code, or with connection = 'open'.
Pair(a) == /\ work[a].socket > 0 /\ ~stopped
           /\ status' = [status EXCEPT ![a] = "pairing"]
           /\ UNCHANGED <<work, fails, loggedOut, stopped, closes, bus>>

Open(a) == /\ Move(a, "socket", "open")
           /\ status' = [status EXCEPT ![a] = "open"]
           /\ UNCHANGED <<fails, loggedOut, stopped, closes, bus>>

\* (fault) A close reconnects at once and sets the timer as well.
AfterCloseTwice(a, k, out) ==
  IF stopped \/ out THEN Drop(a, k)
  ELSE /\ work[a][k] > 0
       /\ work' = [work EXCEPT ![a][k] = @ - 1, ![a].first = @ + 1,
                               ![a].timer = @ + 1]

\* What a close leads to: nothing when stopped or logged out, else an attempt.
AfterClose(a, k, out) == IF stopped \/ out THEN Drop(a, k)
                                           ELSE Move(a, k, "first")

\* connection.update with connection = 'close'.
Close(a, k, out) ==
  /\ closes < MaxCloses /\ closes' = closes + 1
  /\ AfterClose(a, k, out)
  /\ status' = [status EXCEPT ![a] = "close"]
  /\ loggedOut' = IF out THEN loggedOut \cup {a} ELSE loggedOut
  /\ UNCHANGED <<fails, stopped, bus>>

\* SIGTERM: stop() marks every connection; the sockets it ends close later.
\* It does not reach an attempt under way or a timer.
Stop == /\ ~stopped /\ stopped' = TRUE
        /\ UNCHANGED <<work, status, fails, loggedOut, closes, bus>>

-------------------------------------------------------------------------------
\* The positions of the messages a filter lets through.
Of(a) == {i \in 1..Len(history) : a \in {All, history[i]}}

\* Array.filter: the elements of q that are in S, in their order.
Kept(q, S) ==
  LET kept[k \in 0..Len(q)] ==
        IF k = 0 THEN <<>>
        ELSE IF q[k] \in S THEN Append(kept[k - 1], q[k]) ELSE kept[k - 1]
  IN kept[Len(q)]

\* Array.slice(-n), for an n > 0.
LastOf(q, n) == SubSeq(q, IF Len(q) > n THEN Len(q) - n + 1 ELSE 1, Len(q))

\* (fault) slice(0, n): the oldest n.
RecentOldest(n, a) ==
  LET out == Kept(buffer, Of(a))
  IN SubSeq(out, 1, IF Len(out) < n THEN Len(out) ELSE n)

\* bus.recent(n, account), for the n > 0 a stream asks for.
Recent(n, a) == LastOf(Kept(buffer, Of(a)), n)

\* messages.upsert with deliverable content: the ring buffer first, then the
\* subscribers, a throwing one apart.
Publish(a) ==
  /\ work[a].open > 0 /\ Len(history) < MaxMessages
  /\ history' = Append(history, a)
  /\ buffer' = LastOf(Append(buffer, Len(history')), Capacity)
  /\ stream' = [s \in Streams |->
       IF stream[s].on /\ s \notin Throwing
          /\ stream[s].account \in {All, a}
       THEN [stream[s] EXCEPT !.got = Append(@, Len(history'))]
       ELSE stream[s]]
  /\ UNCHANGED <<work, status, fails, loggedOut, stopped, closes>>

\* GET /stream: the backlog is written and the listener registered in one go.
Subscribe(s, a, n) ==
  /\ ~stream[s].on
  /\ stream' = [stream EXCEPT ![s] =
       [on |-> TRUE, account |-> a,
        got |-> IF n > 0 THEN Recent(n, a) ELSE <<>>]]
  /\ UNCHANGED <<work, status, fails, loggedOut, stopped, history, buffer,
                 closes>>

\* The request closes or errors.
Unsubscribe(s) == /\ stream[s].on
                  /\ stream' = [stream EXCEPT ![s].on = FALSE, ![s].got = <<>>]
                  /\ UNCHANGED <<work, status, fails, loggedOut, stopped,
                                 history, buffer, closes>>

Next ==
  \/ \E a \in Accounts :
       \/ \E k \in Attempts : Connect(a, k) \/ ConnectFails(a, k)
       \/ Retry(a) \/ Pair(a) \/ Open(a) \/ Publish(a)
       \/ \E k \in {"socket", "open"}, out \in BOOLEAN : Close(a, k, out)
  \/ Stop
  \/ \E s \in Streams : Unsubscribe(s) \/
       \E a \in Accounts \cup {All}, n \in Lasts : Subscribe(s, a, n)
Spec == Init /\ [][Next]_vars

-------------------------------------------------------------------------------
\* The type invariant; the ring buffer never outgrows its capacity.
TypeOK == /\ work \in [Accounts -> [Steps -> Nat]]
          /\ status \in [Accounts -> {"connecting", "pairing", "open",
                                      "close"}]
          /\ fails \in [Accounts -> 0..2]
          /\ loggedOut \subseteq Accounts /\ stopped \in BOOLEAN
          /\ history \in Seq(Accounts)
          /\ buffer \in Seq(1..Len(history)) /\ Len(buffer) <= Capacity
          /\ closes \in 0..MaxCloses

\* However closes, failing attempts and the timer interleave, an account
\* never has two connections: two sockets on one auth directory would log
\* each other out and publish every message twice (connection.ts:115-133).
OneConnection ==
  \A a \in Accounts :
    \A k \in Steps : work[a][k] > 0 =>
      work[a] = [Idle EXCEPT ![k] = 1]

\* An account is abandoned only when it was logged out, stopped, could not
\* start, or failed both the immediate and the delayed attempt.
Abandoned(a) == work[a] = Idle
GivesUpLate ==
  \A a \in Accounts : (Abandoned(a) /\ status[a] = "close" /\ ~stopped
                       /\ a \notin loggedOut) => fails[a] = 2

\* An account has one connection, or one being made, until it is abandoned.
ConnectionHolds == OneConnection /\ GivesUpLate

\* Every message published, in its order.
Published == [i \in 1..Len(history) |-> i]

\* What a stream received is of the messages published, and always the tail
\* of its account's: between the replayed backlog and the live feed nothing is
\* missing, nothing comes twice, and a throwing subscriber costs it nothing
\* (server.ts:87-97, bus.ts:40-46).
StreamIsTail ==
  \A s \in Streams :
    /\ stream[s].got \in Seq(1..Len(history))
    /\ s \notin Throwing /\ stream[s].on =>
         IsSuffix(stream[s].got, Kept(Published, Of(stream[s].account)))

\* "Auto-reconnects on every disconnect except `loggedOut`"
\* (connection.ts:26).
AutoReconnects ==
  \A a \in Accounts : (Abandoned(a) /\ status[a] = "close" /\ ~stopped)
                      => a \in loggedOut
===============================================================================
