---------------------------- MODULE GeneratedMedia ----------------------------
(***************************************************************************)
(* generate_image: the image is generated, its row stored, the file        *)
(* uploaded, a message posted with the bot's credentials, and the row      *)
(* marked as posted.  Each step is an await of its own, at which the call  *)
(* fails, or is cancelled with its turn; the model may then try again.     *)
(***************************************************************************)
EXTENDS Naturals

CONSTANTS Calls    \* the tool calls made over time, each with one artifact

VARIABLES at,       \* per call, its next step, or how it ended
          row,      \* per artifact, its row: "none", "stored", "marked"
          events,   \* per artifact, the events written
          uploads,  \* the artifacts whose file Zulip has
          posts     \* per artifact, the messages in the chat

vars == <<at, row, events, uploads, posts>>
zulip == <<uploads, posts>>

Steps == {"check", "generate", "store", "created", "upload", "post", "mark",
          "posted"}
Ends == {"refused", "error", "ok"}

Init == /\ at = [c \in Calls |-> "check"]
        /\ row = [c \in Calls |-> "none"]
        /\ events = [c \in Calls |-> {}]
        /\ uploads = {} /\ posts = [c \in Calls |-> 0]

Goto(c, step) == at' = [at EXCEPT ![c] = step]

\* Sizes, formats and backgrounds that do not go together, or a direct message
\* without recipients, are refused before anything is spent.
Check(c) == /\ at[c] = "check"
            /\ Goto(c, "generate") \/ Goto(c, "refused")
            /\ UNCHANGED <<row, events, zulip>>

\* The image comes back; none, one that does not decode, or one too large is
\* reported to the model.
Generate(c) == /\ at[c] = "generate"
               /\ Goto(c, "store") \/ Goto(c, "refused")
               /\ UNCHANGED <<row, events, zulip>>

\* GeneratedMediaStore.create commits the row, then writes its event.
Store(c) == /\ at[c] = "store" /\ Goto(c, "created")
            /\ row' = [row EXCEPT ![c] = "stored"]
            /\ UNCHANGED <<events, zulip>>
Created(c) == /\ at[c] = "created" /\ Goto(c, "upload")
              /\ events' = [events EXCEPT ![c] = @ \cup {"created"}]
              /\ UNCHANGED <<row, zulip>>

\* Zulip takes the file; the answer has its link or, which is reported, none,
\* or is lost.
Upload(c) == /\ at[c] = "upload"
             /\ Goto(c, "post") \/ Goto(c, "refused") \/ Goto(c, "error")
             /\ uploads' = uploads \cup {c}
             /\ UNCHANGED <<row, events, posts>>

\* The message appears; the answer with its id may be lost.
Post(c) == /\ at[c] = "post"
           /\ Goto(c, "mark") \/ Goto(c, "error")
           /\ posts' = [posts EXCEPT ![c] = @ + 1]
           /\ UNCHANGED <<row, events, uploads>>

\* mark_posted commits the link and the message's id, then writes its event.
Mark(c) == /\ at[c] = "mark" /\ Goto(c, "posted")
           /\ row' = [row EXCEPT ![c] = "marked"]
           /\ UNCHANGED <<events, zulip>>
Posted(c) == /\ at[c] = "posted" /\ Goto(c, "ok")
             /\ events' = [events EXCEPT ![c] = @ \cup {"posted"}]
             /\ UNCHANGED <<row, zulip>>

\* The await raises, or the turn is cancelled there; nothing is undone.
Fails(c) == /\ at[c] \in Steps \ {"check"} /\ Goto(c, "error")
            /\ UNCHANGED <<row, events, zulip>>

Next == \E c \in Calls : \/ Check(c) \/ Generate(c) \/ Store(c) \/ Created(c)
                         \/ Upload(c) \/ Post(c) \/ Mark(c) \/ Posted(c)
                         \/ Fails(c)
Spec == Init /\ [][Next]_vars

-------------------------------------------------------------------------------
\* The type invariant.
TypeOK == /\ at \in [Calls -> Steps \cup Ends]
          /\ row \in [Calls -> {"none", "stored", "marked"}]
          /\ events \in [Calls -> SUBSET {"created", "posted"}]
          /\ uploads \subseteq Calls /\ posts \in [Calls -> 0..1]

\* Whatever fails, an image in the chat has its file and its row, a row says
\* it is in the chat only if it is, an event follows what it reports, and ok
\* means all of it (images.py:173-212, generated_media_store.py:71-96).
PostedIsStored ==
  \A c \in Calls :
    /\ posts[c] > 0 => c \in uploads /\ row[c] # "none"
    /\ row[c] = "marked" => posts[c] = 1
    /\ "created" \in events[c] => row[c] # "none"
    /\ "posted" \in events[c] => row[c] = "marked"
    /\ at[c] = "ok" => events[c] = {"created", "posted"}
===============================================================================
