-------------------------- MODULE ArtifactsProofs --------------------------
(***************************************************************************)
(* Theorems about Artifacts, for any requests, submission ids, faults and  *)
(* number of crashes.                                                      *)
(***************************************************************************)
EXTENDS Artifacts, TLAPS

Parameters == None \notin Ids

-----------------------------------------------------------------------------
(* The invariant.                                                          *)

Statuses == {"absent", "open", "submitted", "expired"}
\* The request's submission is the one stored, and not yet answered.
Late == {"emit", "agent", "post", "enqueue"}
Submitting == Late \cup {"summarize", "accept", "close", "existing", "insert",
                         "lost"}
Steps == Submitting \cup {"idle", "reload", "expire", "answer", "payload"}

Types ==
    /\ status \in Statuses
    /\ sub \in Ids \cup {None}
    /\ req \in [Reqs -> [pc : Steps, kind : Kinds, id : Ids \cup {None},
                         seen : Statuses]]
    /\ turns \in {0, 1}
    /\ \A a \in answers : a[1] \in Ids

\* Only a submit carries an id, and goes beyond the loading of the row.
SubmitsHaveId ==
    \A r \in Reqs : /\ req[r].kind = "submit" => req[r].id \in Ids
                    /\ req[r].pc \in Submitting => req[r].kind = "submit"

\* Nobody can have asked for a form that is not there.
AbsentIsQuiet ==
    status = "absent" => sub = None /\ \A r \in Reqs : req[r].pc = "idle"

\* One request carries the stored submission, and only until its turn.
OneWinner ==
    /\ \A r \in Reqs : req[r].pc \in Late => sub = req[r].id /\ turns = 0
    /\ \A r, q \in Reqs :
          req[r].pc \in Late /\ req[q].pc \in Late => r = q
    /\ turns # 0 => sub # None

\* Whoever has seen the form submitted, or lost the race, can find out by whom.
SeenIsStored ==
    /\ status = "submitted" => sub # None
    /\ \A r \in Reqs :
          /\ req[r].pc = "existing" =>
                /\ req[r].seen \in {"submitted", "expired"}
                /\ req[r].seen = "submitted" => sub # None
          /\ req[r].pc = "lost" => sub # None

\* Only a form that is due expires, and only of one has a request seen it.
ExpiryIsDue ==
    ~due => /\ status # "expired"
            /\ \A r \in Reqs :
                  /\ req[r].seen # "expired"
                  /\ req[r].pc \notin {"reload", "expire", "close"}
                  /\ req[r].kind = "submit" => req[r].pc # "answer"

IInv ==
    /\ Types /\ SubmitsHaveId /\ AbsentIsQuiet /\ OneWinner /\ SeenIsStored
    /\ ExpiryIsDue /\ AnswersAgree

LEMMA InitIInv == Init => IInv
BY DEF Init, IInv, Types, SubmitsHaveId, AbsentIsQuiet, OneWinner,
       SeenIsStored, ExpiryIsDue, AnswersAgree, Idle, Request, Kinds,
       Statuses, Steps,
       Submitting, Late

\* A step of one request that stores nothing, answers nothing and does not
\* join those that carry the submission.
LEMMA PlainStep ==
    ASSUME Parameters, IInv, NEW r \in Reqs,
           \/ \E k \in Kinds, id \in Ids \cup {None} : Load(r, k, id)
           \/ Reload(r) \/ Expire(r) \/ Payload(r) \/ Summarize(r)
           \/ AcceptRead(r)
    PROVE  IInv'
<1> USE DEF Parameters, IInv, Types, Kinds, Statuses, Steps, Submitting, Late
<1>1. /\ sub' = sub /\ answers' = answers /\ turns' = turns
      /\ due' = due
      /\ status' \in {status, "expired"} /\ status # "absent"
      /\ ~due => status' = status
    BY DEF Load, Reload, Expire, Payload, Summarize, AcceptRead, form,
           history, AbsentIsQuiet, ExpiryIsDue
<1> DEFINE E == [pc : Steps \ Late, kind : Kinds, id : Ids \cup {None},
                 seen : Statuses]
           Good(e) == /\ e.kind = "submit" => e.id \in Ids
                      /\ e.pc \in Submitting => e.kind = "submit"
                      /\ e.pc = "existing" =>
                            e.seen \in {"submitted", "expired"}
                            /\ e.seen = status
                      /\ e.pc # "lost"
                      /\ ~due =>
                            /\ e.seen # "expired"
                            /\ e.pc \notin {"reload", "expire", "close"}
                            /\ e.kind = "submit" => e.pc # "answer"
<1>2. \E e \in E : req' = [req EXCEPT ![r] = e] /\ Good(e)
    <2>1. ASSUME NEW k \in Kinds, NEW id \in Ids \cup {None}, Load(r, k, id)
          PROVE  \E e \in E : req' = [req EXCEPT ![r] = e] /\ Good(e)
        <3> DEFINE e == Request(
                IF status = "open" /\ due THEN "reload"
                                          ELSE AfterLoad(k, status),
                k, id, status)
        <3>1. req' = [req EXCEPT ![r] = e] /\ (k = "submit") = (id # None)
            BY <2>1 DEF Load
        <3>2. e \in E /\ Good(e)
            BY <3>1 DEF Request, AfterLoad, ExpiryIsDue
        <3> QED BY <3>1, <3>2
    <2>2. CASE Reload(r)
        <3> DEFINE e == [req[r] EXCEPT !.seen = status, !.pc =
                            IF status = "open" THEN "expire"
                            ELSE AfterLoad(req[r].kind, status)]
        <3>1. req' = [req EXCEPT ![r] = e]
            BY <2>2 DEF Reload
        <3>2. /\ req[r].pc = "reload"
              /\ req[r] \in [pc : Steps, kind : Kinds, id : Ids \cup {None},
                             seen : Statuses]
              /\ req[r].kind = "submit" => req[r].id \in Ids
              /\ status \in Statuses /\ due
            BY <2>2 DEF Reload, SubmitsHaveId, ExpiryIsDue
        <3>3. e \in E /\ e.kind = req[r].kind /\ e.id = req[r].id
              /\ e.seen = status
              /\ e.pc = IF status = "open" THEN "expire"
                        ELSE AfterLoad(req[r].kind, status)
            BY <3>2 DEF AfterLoad
        <3>4. Good(e)
            BY <3>2, <3>3 DEF AfterLoad
        <3> QED BY <3>1, <3>3, <3>4
    <2>3. CASE Expire(r)
        <3>1. Idle \in E /\ Good(Idle)
            BY DEF Idle, Request
        <3>2. CASE Done(r)
            BY <3>1, <3>2 DEF Done
        <3> DEFINE e == [req[r] EXCEPT !.seen = "expired", !.pc = "answer"]
        <3>3. CASE req' = [req EXCEPT ![r] = e]
            <4>1. e \in E /\ Good(e)
                BY <2>3 DEF Expire, SubmitsHaveId, ExpiryIsDue
            <4> QED BY <3>3, <4>1
        <3> QED BY <2>3, <3>2, <3>3 DEF Expire
    <2>4. CASE Payload(r)
        <3>1. Idle \in E /\ Good(Idle)
            BY DEF Idle, Request
        <3> QED BY <2>4, <3>1 DEF Payload, Done
    <2>5. CASE Summarize(r)
        <3>1. Idle \in E /\ Good(Idle)
            BY DEF Idle, Request
        <3>2. CASE Done(r)
            BY <3>1, <3>2 DEF Done
        <3> DEFINE e == [req[r] EXCEPT !.pc = "accept"]
        <3>3. CASE Goto(r, "accept")
            <4>1. e \in E /\ Good(e)
                BY <2>5 DEF Summarize, SubmitsHaveId, ExpiryIsDue
            <4>2. req' = [req EXCEPT ![r] = e]
                BY <3>3 DEF Goto
            <4> QED BY <4>1, <4>2
        <3> QED BY <2>5, <3>2, <3>3 DEF Summarize
    <2>6. CASE AcceptRead(r)
        <3> DEFINE e == [req[r] EXCEPT !.seen = status, !.pc =
                            IF status # "open" THEN "existing"
                            ELSE IF due THEN "close" ELSE "insert"]
        <3>1. req' = [req EXCEPT ![r] = e]
            BY <2>6 DEF AcceptRead
        <3>2. e \in E /\ Good(e)
            BY <1>1, <2>6 DEF AcceptRead, SubmitsHaveId, ExpiryIsDue
        <3> QED BY ZenonT(40), <3>1, <3>2
    <2> QED BY <2>1, <2>2, <2>3, <2>4, <2>5, <2>6
<1> PICK e \in E : req' = [req EXCEPT ![r] = e] /\ Good(e)
    BY <1>2
<1>3. Types' /\ SubmitsHaveId' /\ AbsentIsQuiet'
    BY <1>1 DEF SubmitsHaveId, AbsentIsQuiet
<1>4. OneWinner'
    BY <1>1 DEF OneWinner
<1>5. SeenIsStored'
    BY <1>1 DEF SeenIsStored
<1>6. ExpiryIsDue'
    BY <1>1 DEF ExpiryIsDue
<1> QED BY <1>1, <1>3, <1>4, <1>5, <1>6 DEF AnswersAgree

\* A request is answered, and what it is told is true.
LEMMA DoneStep ==
    ASSUME Parameters, IInv, NEW r \in Reqs, Done(r),
           UNCHANGED <<due, sub, turns>>,
           status' \in {status, "expired"}, status # "absent",
           ~due => status' = status,
           \/ UNCHANGED answers
           \/ \E o \in {"expired", "accepted", "duplicate", "conflict"} :
                 /\ Told(r, o) /\ req[r].kind = "submit"
                 /\ o \in {"accepted", "duplicate"} => sub = req[r].id
                 /\ o = "conflict" => sub \notin {None, req[r].id}
                 /\ o = "expired" => due
    PROVE  IInv'
<1> USE DEF Parameters, IInv, Types, Kinds, Statuses, Steps, Submitting, Late
<1>1. /\ req' = [req EXCEPT ![r] = Idle]
      /\ Idle.pc = "idle" /\ Idle.kind = "view" /\ Idle.seen = "open"
      /\ Idle \in [pc : Steps, kind : Kinds, id : Ids \cup {None},
                   seen : Statuses]
    BY DEF Done, Idle, Request
<1>2. Types' /\ SubmitsHaveId' /\ AbsentIsQuiet'
    BY <1>1 DEF SubmitsHaveId, AbsentIsQuiet, Told
<1>3. OneWinner'
    BY <1>1 DEF OneWinner
<1>4. SeenIsStored'
    BY <1>1 DEF SeenIsStored
<1>5. AnswersAgree'
    BY DEF AnswersAgree, Told
<1>6. ExpiryIsDue'
    BY <1>1 DEF ExpiryIsDue
<1> QED BY <1>2, <1>3, <1>4, <1>5, <1>6

LEMMA AnswerSteps ==
    ASSUME Parameters, IInv, NEW r \in Reqs,
           \/ Answer(r) \/ AcceptExpired(r) \/ Existing(r) \/ Lost(r)
           \/ FollowUpFails(r)
    PROVE  IInv'
<1> USE DEF IInv, form, SubmitsHaveId, Submitting
<1>1. CASE Answer(r)
    BY <1>1, DoneStep DEF Answer, AbsentIsQuiet, ExpiryIsDue
<1>2. CASE AcceptExpired(r)
    BY <1>2, DoneStep DEF AcceptExpired, AbsentIsQuiet, ExpiryIsDue
<1>3. CASE Existing(r)
    BY <1>3, DoneStep DEF Existing, Verdict, AbsentIsQuiet, SeenIsStored,
       ExpiryIsDue, Types, Statuses
<1>4. CASE Lost(r)
    BY <1>4, DoneStep DEF Lost, Verdict, AbsentIsQuiet, SeenIsStored
<1>5. CASE FollowUpFails(r)
    BY <1>5, DoneStep DEF FollowUpFails, AbsentIsQuiet, OneWinner, Late
<1> QED BY <1>1, <1>2, <1>3, <1>4, <1>5

LEMMA InsertStep ==
    ASSUME Parameters, IInv, NEW r \in Reqs, Insert(r)
    PROVE  IInv'
<1> USE DEF Parameters, IInv, Types, Kinds, Statuses, Steps, Submitting, Late,
            Goto, Insert, form, history
<1>1. req[r].id \in Ids
    BY DEF SubmitsHaveId
<1>2. Types' /\ SubmitsHaveId' /\ AbsentIsQuiet'
    BY <1>1 DEF SubmitsHaveId, AbsentIsQuiet
<1>3. CASE sub = None
    <2>1. \A q \in Reqs : req[q].pc \notin Late
        BY <1>3 DEF OneWinner, SubmitsHaveId
    <2>2. OneWinner' /\ SeenIsStored' /\ ExpiryIsDue'
        BY <1>1, <1>3, <2>1 DEF OneWinner, SeenIsStored, ExpiryIsDue
    <2>3. AnswersAgree'
        BY <1>3 DEF AnswersAgree
    <2> QED BY <1>2, <2>2, <2>3
<1>4. CASE sub # None
    BY <1>2, <1>4 DEF OneWinner, SeenIsStored, ExpiryIsDue, AnswersAgree
<1> QED BY <1>3, <1>4

LEMMA FollowUpStep ==
    ASSUME Parameters, IInv, NEW r \in Reqs, FollowUp(r)
    PROVE  IInv'
<1> USE DEF Parameters, IInv, Types, Kinds, Statuses, Steps, Submitting, Late,
            form, history
<1>1. PICK pc \in Late : req' = [req EXCEPT ![r].pc = pc]
    BY DEF FollowUp, Goto, After
<1>2. /\ req[r].pc \in Late
      /\ UNCHANGED <<status, due, sub, answers, turns>>
    BY DEF FollowUp
<1>3. Types' /\ SubmitsHaveId' /\ AbsentIsQuiet' /\ OneWinner'
    BY <1>1, <1>2 DEF SubmitsHaveId, AbsentIsQuiet, OneWinner
<1>4. SeenIsStored' /\ ExpiryIsDue' /\ AnswersAgree'
    BY <1>1, <1>2 DEF SeenIsStored, ExpiryIsDue, AnswersAgree
<1> QED BY <1>3, <1>4

LEMMA EnqueueStep ==
    ASSUME Parameters, IInv, NEW r \in Reqs, Enqueue(r)
    PROVE  IInv'
<1> USE DEF Parameters, IInv, Types, Kinds, Statuses, Steps, Submitting, Late,
            form, Enqueue
<1>1. /\ req' = [req EXCEPT ![r] = Idle]
      /\ Idle.pc = "idle" /\ Idle.kind = "view" /\ Idle.seen = "open"
      /\ Idle \in [pc : Steps, kind : Kinds, id : Ids \cup {None},
                   seen : Statuses]
    BY DEF Done, Idle, Request
<1>2. turns = 0 /\ turns' = 1 /\ sub = req[r].id /\ sub # None
    BY DEF OneWinner, SubmitsHaveId
<1>3. Types' /\ SubmitsHaveId' /\ AbsentIsQuiet' /\ SeenIsStored'
    BY <1>1, <1>2 DEF SubmitsHaveId, AbsentIsQuiet, SeenIsStored, Told
<1>4. OneWinner' /\ ExpiryIsDue'
    BY <1>1, <1>2 DEF OneWinner, ExpiryIsDue
<1>5. AnswersAgree'
    BY <1>2 DEF AnswersAgree, Told
<1> QED BY <1>3, <1>4, <1>5

LEMMA CrashStep == ASSUME Parameters, IInv, Crash PROVE IInv'
BY DEF Crash, Idle, Request, IInv, Types, Kinds, Statuses, Steps, Submitting,
       Late, form, history, SubmitsHaveId, AbsentIsQuiet, OneWinner,
       SeenIsStored, ExpiryIsDue, AnswersAgree

LEMMA QuietSteps ==
    ASSUME IInv, Create \/ TimePasses \/ UNCHANGED vars
    PROVE  IInv'
BY DEF Create, TimePasses, vars, IInv, Types, Statuses, history,
       SubmitsHaveId, AbsentIsQuiet, OneWinner, SeenIsStored, ExpiryIsDue,
       AnswersAgree

LEMMA StepIInv == ASSUME Parameters PROVE IInv /\ [Next]_vars => IInv'
BY PlainStep, AnswerSteps, InsertStep, FollowUpStep, EnqueueStep, CrashStep,
   QuietSteps DEF Next, ReqStep

LEMMA Invariance == ASSUME Parameters PROVE Spec => []IInv
BY InitIInv, StepIInv, PTL DEF Spec

-----------------------------------------------------------------------------
(* The theorems.                                                           *)

\* Whatever races, retries, expiries and crashes do, who was told that its
\* submission counts, or lost, was told so by the one that is stored, and nobody
\* was told of an expiry before its time.
THEOREM VisitorsToldTheTruth ==
    ASSUME Parameters PROVE Spec => []AnswersAgree
BY Invariance, PTL DEF IInv

LEMMA StepMaps ==
    ASSUME Parameters, IInv, [Next]_vars
    PROVE  [Ledger!Next]_(Ledger!vars)
<1> USE DEF IInv, Types
<1>1. CASE \E r \in Reqs : Insert(r)
    BY <1>1 DEF Insert, SubmitsHaveId, Submitting, history, Ledger!Next,
               Ledger!Win, Ledger!vars
<1>2. CASE \E r \in Reqs : Enqueue(r)
    BY <1>2 DEF Enqueue, OneWinner, SubmitsHaveId, Submitting, Late, form,
               Parameters, Ledger!Next, Ledger!Resume
<1>3. CASE UNCHANGED <<sub, turns>>
    BY <1>3 DEF Ledger!vars
<1> QED BY <1>1, <1>2, <1>3 DEF Next, vars, form, history, Create, TimePasses,
           Load, ReqStep, Reload, Expire, Answer, Payload, Summarize,
           AcceptRead, AcceptExpired, Existing, Lost, FollowUp, FollowUpFails,
           Crash

\* One submission wins and is never replaced, and its turn is enqueued once,
\* for any number of visitors, retries and crashes.
THEOREM SubmissionLedgerImplemented ==
    ASSUME Parameters PROVE Spec => ImplementsLedger
<1>1. Init => Ledger!Init
    BY DEF Init, Ledger!Init
<1> QED BY <1>1, Invariance, StepMaps, PTL DEF Spec, ImplementsLedger,
           Ledger!Spec

-----------------------------------------------------------------------------
(* The types.                                                              *)

Bounds == MaxCrashes \in Nat

Outcomes == {"accepted", "duplicate", "conflict", "expired"}
Answered ==
    /\ due \in BOOLEAN /\ failed \in BOOLEAN
    /\ answers \subseteq Ids \X Outcomes
    /\ crashes \in 0..MaxCrashes

LEMMA AnsweredStep ==
    ASSUME Parameters, Bounds, IInv, Answered, [Next]_vars PROVE Answered'
<1> USE DEF Bounds, Answered
<1>1. /\ due' \in BOOLEAN /\ failed' \in BOOLEAN
      /\ crashes' \in 0..MaxCrashes
  <2>1. CASE Crash
      BY <2>1 DEF Crash, form, history
  <2>2. CASE TimePasses \/ \E r \in Reqs : FollowUpFails(r)
      BY <2>2 DEF TimePasses, FollowUpFails, form, history
  <2>3. CASE UNCHANGED <<due, failed, crashes>>
      BY <2>3
  <2> QED BY <2>1, <2>2, <2>3 DEF Next, vars, form, history, Create, Load,
             ReqStep, Reload, Expire, Answer, Payload, Summarize, AcceptRead,
             AcceptExpired, Existing, Insert, Lost, FollowUp, Enqueue
<1>2. answers' \subseteq Ids \X Outcomes
  <2>1. ASSUME NEW r \in Reqs, req[r].kind = "submit",
               \E o \in Outcomes : Told(r, o)
        PROVE  answers' \subseteq Ids \X Outcomes
      BY <2>1 DEF Told, IInv, SubmitsHaveId
  <2>2. CASE \E r \in Reqs : \/ Answer(r) \/ AcceptExpired(r) \/ Existing(r)
                             \/ Lost(r) \/ Enqueue(r) \/ FollowUpFails(r)
    <3>1. PICK r \in Reqs : \/ Answer(r) \/ AcceptExpired(r) \/ Existing(r)
                            \/ Lost(r) \/ Enqueue(r) \/ FollowUpFails(r)
        BY <2>2
    <3>2. /\ req[r].seen \in Statuses
          /\ \/ UNCHANGED answers
             \/ req[r].kind = "submit"
        BY <3>1 DEF Answer, AcceptExpired, Existing, Lost, Enqueue,
                    FollowUpFails, Submitting, Late, IInv, Types, SubmitsHaveId
    <3>3. \/ UNCHANGED answers
          \/ \E o \in Outcomes : Told(r, o)
        BY <3>1, <3>2 DEF Answer, AcceptExpired, Existing, Lost, Enqueue,
                          FollowUpFails, Verdict, Outcomes, Statuses
    <3> QED BY <2>1, <3>2, <3>3
  <2>3. CASE UNCHANGED answers
      BY <2>3
  <2> QED BY <2>2, <2>3 DEF Next, vars, form, history, Create, TimePasses,
             Load, ReqStep, Reload, Expire, Payload, Summarize, AcceptRead,
             Insert, FollowUp, Crash
<1> QED BY <1>1, <1>2

\* The row, the requests and the answers keep to the states of the code.
THEOREM FormTypeCorrect ==
    ASSUME Parameters, Bounds PROVE Spec => []TypeOK
<1>1. Init => Answered
  <2> SUFFICES ASSUME Init PROVE Answered
      OBVIOUS
  <2>1. due \in BOOLEAN /\ failed \in BOOLEAN /\ answers = {}
      BY DEF Init
  <2>2. crashes \in 0..MaxCrashes
      BY DEF Bounds, Init
  <2> QED BY <2>1, <2>2 DEF Answered
<1>2. IInv /\ Answered => TypeOK
    BY DEF IInv, Types, Statuses, Answered, Outcomes, TypeOK
<1> QED BY <1>1, <1>2, Invariance, AnsweredStep, PTL DEF Spec
=============================================================================
