---------------------------- MODULE SessionMemory -----------------------------
(***************************************************************************)
(* The session memory of a topic: events are appended in one request (the  *)
(* managed service) or by a read and a write of the whole list (the local  *)
(* server), which other appends can come between.  Any turn may append,    *)
(* two of one agent too, and so may one turn of codex twice at a time.     *)
(***************************************************************************)
EXTENDS Naturals

CONSTANTS Appenders,     \* what appends, one event after another: a turn
          KeyOf,         \* session_id_for of its channel and topic; two topics
                         \* may share a key
          MaxEvents      \* bound: events of one appender

VARIABLES cloud,     \* whether the managed service is used (store_id)
          session,   \* per key, the session memory
          copy,      \* per appender, the list it read and not yet wrote
          acked,     \* per appender, the events reported as saved
          clashed    \* the events an overlapping write may have lost (history)

vars == <<cloud, session, copy, acked, clashed>>

Keys == {KeyOf[a] : a \in Appenders}
Events == Appenders \X (1..MaxEvents)
NoCopy == [on |-> FALSE, list |-> {}, event |-> <<>>]

Init == /\ cloud \in BOOLEAN
        /\ session = [k \in Keys |-> {}]
        /\ copy = [a \in Appenders |-> NoCopy]
        /\ acked = [a \in Appenders |-> 0]
        /\ clashed = {}

-------------------------------------------------------------------------------
NextEvent(a) == <<a, acked[a] + 1>>

\* set_working_memory on the managed service: one request appends the event.
PostEvent(a) ==
  /\ cloud /\ acked[a] < MaxEvents
  /\ session' = [session EXCEPT ![KeyOf[a]] = @ \cup {NextEvent(a)}]
  /\ acked' = [acked EXCEPT ![a] = @ + 1]
  /\ UNCHANGED <<cloud, copy, clashed>>

\* On the local server: the list is read (a 404 is an empty one) ...
ReadSession(a) ==
  /\ ~cloud /\ ~copy[a].on /\ acked[a] < MaxEvents
  /\ copy' = [copy EXCEPT ![a] = [on |-> TRUE, list |-> session[KeyOf[a]],
                                  event |-> NextEvent(a)]]
  /\ UNCHANGED <<cloud, session, acked, clashed>>

\* The list a put sends: the one read, and the event.
Written(a) == copy[a].list \cup {copy[a].event}

\* ... and put back whole with the event.  A put drops what was appended
\* since its read; an event put during another append's is dropped later.
PutSession(a) ==
  /\ copy[a].on
  /\ LET k == KeyOf[a]
         others == {b \in Appenders \ {a} : copy[b].on /\ KeyOf[b] = k}
     IN /\ session' = [session EXCEPT ![k] = Written(a)]
        /\ clashed' = IF others = {} THEN clashed
                      ELSE clashed \cup {copy[a].event}
  /\ acked' = [acked EXCEPT ![a] = @ + 1]
  /\ copy' = [copy EXCEPT ![a] = NoCopy]
  /\ UNCHANGED cloud

\* The read or the write fails, or the write's answer is lost: an error.
AppendFails(a) ==
  /\ copy[a].on
  /\ session' \in {session, [session EXCEPT ![KeyOf[a]] = Written(a)]}
  /\ copy' = [copy EXCEPT ![a] = NoCopy]
  /\ UNCHANGED <<cloud, acked, clashed>>

Next == \E a \in Appenders : \/ PostEvent(a) \/ ReadSession(a)
                             \/ PutSession(a) \/ AppendFails(a)
Spec == Init /\ [][Next]_vars

-------------------------------------------------------------------------------
\* The type invariant.
TypeOK == /\ cloud \in BOOLEAN
          /\ session \in [Keys -> SUBSET Events]
          /\ \A a \in Appenders : copy[a].list \subseteq Events
          /\ acked \in [Appenders -> 0..MaxEvents] /\ clashed \subseteq Events

\* An event reported as saved stays in its key's session memory, unless
\* another append of that key was under way when it was saved.
EventsKept ==
  \A a \in Appenders : \A n \in 1..acked[a] :
    <<a, n>> \in session[KeyOf[a]] \cup clashed
===============================================================================
