----------------------------- MODULE Artifacts -----------------------------
(***************************************************************************)
(* One interactive artifact: the form an agent has posted a link to, the   *)
(* requests its visitors send (view, payload, submit), and the turn an     *)
(* accepted submission resumes.  Each action ends at an await of the       *)
(* request: a transaction, an event, a message to Zulip.                   *)
(***************************************************************************)
EXTENDS Naturals, FiniteSets

CONSTANTS
    Reqs,           \* requests in flight
    Ids,            \* submission ids of the visitors' pages
    None,
    Faults,         \* calls that may fail: "event", "agent", "post", "enqueue"
    MaxCrashes      \* bound

VARIABLES
    status,     \* interactive_artifacts.status
    due,        \* expires_at has passed
    sub,        \* submission_id of the interactive_submissions row, or None
    req,        \* each request
    answers,    \* what submitters were told: <<id, outcome>> (history)
    turns,      \* turns enqueued for the creator (history)
    failed,     \* a call of an accepted submission failed (history)
    crashes

vars == <<status, due, sub, req, answers, turns, failed, crashes>>
form == <<status, due, sub>>
history == <<answers, turns, failed>>

Kinds == {"view", "payload", "submit"}

\* seen is the status of the request's detached row.
Request(pc, kind, id, seen) ==
    [pc |-> pc, kind |-> kind, id |-> id, seen |-> seen]
Idle == Request("idle", "view", None, "open")

Init ==
    /\ status = "absent" /\ due = FALSE /\ sub = None
    /\ req = [r \in Reqs |-> Idle]
    /\ answers = {} /\ turns = 0 /\ failed = FALSE
    /\ crashes = 0

Goto(r, pc) == req' = [req EXCEPT ![r].pc = pc]
Done(r) == req' = [req EXCEPT ![r] = Idle]
Told(r, outcome) == answers' = answers \cup {<<req[r].id, outcome>>}

\* create_interactive_response: the row, then the message with its link.
Create ==
    /\ status = "absent"
    /\ status' = "open"
    /\ UNCHANGED <<due, sub, req, history, crashes>>

TimePasses ==
    /\ status # "absent"
    /\ ~due
    /\ due' = TRUE
    /\ UNCHANGED <<status, sub, req, history, crashes>>

-----------------------------------------------------------------------------
(* _load: the row, and its lazy expiry.                                    *)

\* Where a request goes once its row is loaded with status s.
AfterLoad(kind, s) ==
    IF kind = "view" \/ s \in {"expired", "revoked"} THEN "answer"
    ELSE IF kind = "payload" THEN "payload" ELSE "summarize"

Load(r, kind, id) ==
    /\ req[r].pc = "idle"
    /\ status # "absent"
    /\ (kind = "submit") = (id # None)
    /\ req' = [req EXCEPT ![r] = Request(
          IF status = "open" /\ due THEN "reload" ELSE AfterLoad(kind, status),
          kind, id, status)]
    /\ UNCHANGED <<form, history, crashes>>

\* expire_if_due reads the row again ...
Reload(r) ==
    /\ req[r].pc = "reload"
    /\ req' = [req EXCEPT
          ![r].seen = status,
          ![r].pc = IF status = "open" THEN "expire"
                    ELSE AfterLoad(req[r].kind, status)]
    /\ UNCHANGED <<form, history, crashes>>

\* ... and updates it by id, whatever has happened to it since.
Expire(r) ==
    /\ req[r].pc = "expire"
    /\ status' = "expired"
    /\ \/ req' = [req EXCEPT ![r].seen = "expired", ![r].pc = "answer"]
       \/ "event" \in Faults /\ Done(r)
    /\ UNCHANGED <<due, sub, history, crashes>>

\* The page, or 410; a submitter of an expired form is told so.
Answer(r) ==
    /\ req[r].pc = "answer"
    /\ IF req[r].kind = "submit" THEN Told(r, "expired")
                                 ELSE UNCHANGED answers
    /\ Done(r)
    /\ UNCHANGED <<form, turns, failed, crashes>>

Payload(r) ==
    /\ req[r].pc = "payload"
    /\ Done(r)
    /\ UNCHANGED <<form, history, crashes>>

-----------------------------------------------------------------------------
(* submit.                                                                 *)

\* The body is checked and summarized; a failing model is no failure.
Summarize(r) ==
    /\ req[r].pc = "summarize"
    /\ Goto(r, "accept") \/ Done(r)
    /\ UNCHANGED <<form, history, crashes>>

\* accept_submission reads the row: it is due, or taken, or still open.
AcceptRead(r) ==
    /\ req[r].pc = "accept"
    /\ req' = [req EXCEPT
          ![r].seen = status,
          ![r].pc = IF status # "open" THEN "existing"
                    ELSE IF due THEN "close" ELSE "insert"]
    /\ UNCHANGED <<form, history, crashes>>

AcceptExpired(r) ==
    /\ req[r].pc = "close"
    /\ status' = "expired"
    /\ \/ Told(r, "expired")
       \/ "event" \in Faults /\ UNCHANGED answers
    /\ Done(r)
    /\ UNCHANGED <<due, sub, turns, failed, crashes>>

\* (fault) A retry of the winner is told that somebody else won.
VerdictAlwaysConflict(id, s) ==
    IF s \in {"expired", "revoked"} THEN s ELSE "conflict"

\* What the one stored submission means for another attempt.
Verdict(id, s) ==
    IF sub = id THEN "duplicate"
    ELSE IF s \in {"expired", "revoked"} THEN s ELSE "conflict"

Existing(r) ==
    /\ req[r].pc = "existing"
    /\ Told(r, Verdict(req[r].id, req[r].seen))
    /\ Done(r)
    /\ UNCHANGED <<form, turns, failed, crashes>>

\* (fault) No unique constraint: the later insert replaces the earlier.
InsertLast(r) ==
    /\ req[r].pc = "insert"
    /\ sub' = req[r].id
    /\ status' = "submitted"
    /\ Goto(r, "emit")
    /\ UNCHANGED <<due, history, crashes>>

\* One transaction; the unique constraint decides who won a race.
Insert(r) ==
    /\ req[r].pc = "insert"
    /\ IF sub = None
       THEN /\ sub' = req[r].id
            /\ status' = "submitted"
            /\ Goto(r, "emit")
       ELSE /\ Goto(r, "lost")
            /\ UNCHANGED <<status, sub>>
    /\ UNCHANGED <<due, history, crashes>>

\* Rolled back by the constraint: read who won.
Lost(r) ==
    /\ req[r].pc = "lost"
    /\ Told(r, Verdict(req[r].id, "submitted"))
    /\ Done(r)
    /\ UNCHANGED <<form, turns, failed, crashes>>

-----------------------------------------------------------------------------
(* After the submission is stored: the event, the message, the turn.       *)

After(pc) ==
    CASE pc = "emit" -> "agent"
      [] pc = "agent" -> "post"
      [] pc = "post" -> "enqueue"

\* (fault) The turn is enqueued only if the summary could not be posted.
FollowUpInverted(r) ==
    /\ req[r].pc \in {"emit", "agent", "post"}
    /\ IF req[r].pc = "post"
       THEN Told(r, "accepted") /\ Done(r)
       ELSE Goto(r, After(req[r].pc)) /\ UNCHANGED answers
    /\ UNCHANGED <<form, turns, failed, crashes>>

\* The event is written, the agent resolved, the summary posted.
FollowUp(r) ==
    /\ req[r].pc \in {"emit", "agent", "post"}
    /\ Goto(r, After(req[r].pc))
    /\ UNCHANGED <<form, history, crashes>>

\* enqueue_turn, and the answer.
Enqueue(r) ==
    /\ req[r].pc = "enqueue"
    /\ turns' = turns + 1
    /\ Told(r, "accepted")
    /\ Done(r)
    /\ UNCHANGED <<form, failed, crashes>>

FaultAt == [emit |-> "event", agent |-> "agent", post |-> "post",
            enqueue |-> "enqueue"]

\* Without the agent or the message nobody is resumed and the answer is the
\* same; an event or an enqueue that fails answers 500.
FollowUpFails(r) ==
    /\ req[r].pc \in {"emit", "agent", "post", "enqueue"}
    /\ FaultAt[req[r].pc] \in Faults
    /\ failed' = TRUE
    /\ IF req[r].pc \in {"agent", "post"} THEN Told(r, "accepted")
                                          ELSE UNCHANGED answers
    /\ Done(r)
    /\ UNCHANGED <<form, turns, crashes>>

Crash ==
    /\ crashes < MaxCrashes
    /\ crashes' = crashes + 1
    /\ req' = [r \in Reqs |-> Idle]
    /\ UNCHANGED <<form, history>>

ReqStep(r) ==
    \/ Reload(r) \/ Expire(r) \/ Answer(r) \/ Payload(r)
    \/ Summarize(r) \/ AcceptRead(r) \/ AcceptExpired(r)
    \/ Existing(r) \/ Insert(r) \/ Lost(r)
    \/ FollowUp(r) \/ Enqueue(r) \/ FollowUpFails(r)

Next ==
    \/ Create
    \/ TimePasses
    \/ \E r \in Reqs, k \in Kinds, id \in Ids \cup {None} : Load(r, k, id)
    \/ \E r \in Reqs : ReqStep(r)
    \/ Crash

Spec == Init /\ [][Next]_vars

\* A request that was received is driven to its answer.
Fairness == \A r \in Reqs : WF_vars(ReqStep(r))

FairSpec == Spec /\ Fairness

-----------------------------------------------------------------------------
(* Properties.                                                             *)

\* The row, the requests and the answers are ones the code can make.
TypeOK ==
    /\ status \in {"absent", "open", "submitted", "expired"}
    /\ due \in BOOLEAN
    /\ sub \in Ids \cup {None}
    /\ \A r \in Reqs :
          /\ req[r].kind \in Kinds
          /\ req[r].id \in Ids \cup {None}
    /\ answers \subseteq
          Ids \X {"accepted", "duplicate", "conflict", "expired"}
    /\ turns \in Nat
    /\ failed \in BOOLEAN
    /\ crashes \in 0..MaxCrashes

\* Whatever races, retries and expiries do: who was told that its submission
\* counts is the one that is stored, who was told of a conflict is not, and
\* nobody was told that the form has expired before its time.  After it
\* "expired" says nothing of what is stored: a retry of the winner hears it too.
AnswersAgree ==
    \A a \in answers :
        /\ a[2] \in {"accepted", "duplicate"} => sub = a[1]
        /\ a[2] = "conflict" => sub \notin {None, a[1]}
        /\ a[2] = "expired" => due

Ledger == INSTANCE SubmissionLedger WITH won <- sub, resumed <- turns

\* One submission wins and is never replaced; its turn is enqueued once.
ImplementsLedger == Ledger!Spec

\* Unless a call fails or the process ends, a stored submission resumes the
\* agent, even if the form expires or is viewed in the meantime.
SubmissionResumes == sub # None ~> turns > 0 \/ failed \/ crashes > 0

=============================================================================
