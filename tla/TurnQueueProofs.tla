-------------------------- MODULE TurnQueueProofs ---------------------------
(***************************************************************************)
(* Proofs about TurnQueue for any number of messages, bots, requests,      *)
(* workers, deliveries and crashes, whatever calls may fail.               *)
(***************************************************************************)
EXTENDS TurnQueue, TLAPS

\* A request between the mark and the put carries its message alone.
Accepting == {"react", "enqueue"}

\* A worker before, and after, its placeholder went out.
Early == {"resolve", "place"}
Late == {"start", "trip", "dark", "run", "answer", "touch", "excuse",
         "except", "close", "dying"}

\* Accepted, and nothing of it in chat yet.
Fresh(m) == m \in SeenIds /\ outcome[m] = "none"

UnseenIsNew == \A m \in Messages : m \notin SeenIds => outcome[m] = "none"

RequestsKnow ==
    \A r \in Requests :
        /\ req[r].pc # "idle" => req[r].msg \in Messages /\ req[r].bot \in Bots
        /\ req[r].pc \in Accepting => Fresh(req[r].msg)

QueueFresh == \A i \in 1..Len(queue) : Fresh(queue[i].msg)

WorkersKnow ==
    \A w \in Workers :
        /\ wk[w].pc \in Early => wk[w].job \in Job /\ Fresh(wk[w].job.msg)
        /\ wk[w].pc \in Late => wk[w].job \in Job /\ wk[w].job.msg \in Begun

\* One message is carried by one request, one place in the queue or one
\* worker that has not answered it yet.
OneRequest ==
    /\ \A q, r \in Requests :
         /\ req[q].pc \in Accepting
         /\ req[r].pc \in Accepting
         /\ req[q].msg = req[r].msg
         => q = r
    /\ \A r \in Requests, i \in 1..Len(queue) :
         req[r].pc \in Accepting => req[r].msg # queue[i].msg
    /\ \A r \in Requests, w \in Workers :
         req[r].pc \in Accepting /\ wk[w].pc \in Early
             => req[r].msg # wk[w].job.msg

OnePlace ==
    /\ \A i, j \in 1..Len(queue) : queue[i].msg = queue[j].msg => i = j
    /\ \A i \in 1..Len(queue), w \in Workers :
         wk[w].pc \in Early => queue[i].msg # wk[w].job.msg

OneWorker ==
    \A v, w \in Workers :
        /\ wk[v].pc \in Early
        /\ wk[w].pc \in Early
        /\ wk[v].job.msg = wk[w].job.msg
        => v = w

Carried ==
    /\ UnseenIsNew
    /\ RequestsKnow
    /\ QueueFresh
    /\ WorkersKnow
    /\ OneRequest
    /\ OnePlace
    /\ OneWorker

\* A session is touched once its turn's reply is in chat.
TouchAnswers ==
    \A w \in Workers : wk[w].pc = "touch" => Settled(wk[w].job.msg)

\* The inductive invariant.
IInv ==
    /\ TypeOK
    /\ Carried
    /\ TouchAnswers

-----------------------------------------------------------------------------
(* Types.                                                                  *)

\* Marking one more delivery adds its message to the ids seen.
LEMMA SeenGrows ==
    ASSUME NEW m \in Messages, NEW b \in Bots,
           seen' = seen \cup {<<m, b>>}
    PROVE  SeenIds' = SeenIds \cup {m}
<1>1. \A x : x \in SeenIds' <=> \E d \in seen \cup {<<m, b>>} : x = d[1]
  BY DEF SeenIds
<1>2. \A x : x \in SeenIds <=> \E d \in seen : x = d[1]
  BY DEF SeenIds
<1>3. <<m, b>>[1] = m
  OBVIOUS
<1>4. \A x : x \in SeenIds' <=> x \in SeenIds \/ x = m
  BY <1>1, <1>2, <1>3, Zenon
<1> QED
  BY <1>4

\* The head and the tail of the queue are jobs, and the tail is shifted.
LEMMA QueueParts ==
    ASSUME TypeOK, queue # <<>>
    PROVE  /\ Len(queue) \in Nat
           /\ Len(queue) >= 1
           /\ Head(queue) = queue[1]
           /\ Head(queue) \in Job
           /\ Tail(queue) \in Seq(Job)
           /\ Len(Tail(queue)) = Len(queue) - 1
           /\ \A i \in 1..Len(Tail(queue)) : Tail(queue)[i] = queue[i + 1]
BY DEF TypeOK

\* What is queued are jobs.
LEMMA QueuedJobs ==
    ASSUME TypeOK
    PROVE  \A i \in 1..Len(queue) :
               queue[i] \in Job /\ queue[i].msg \in Messages
<1>1. \A i \in 1..Len(queue) : queue[i] \in Job
  BY DEF TypeOK
<1> QED
  BY <1>1 DEF Job

\* Every step of a request keeps the types.
LEMMA RequestTypes ==
    ASSUME IInv, NEW r \in Requests, RequestStep(r) \/ AcceptFails(r)
    PROVE  TypeOK'
<1> USE BotKinds, Deliveries, Bounds DEF IInv, Carried
<1>1. CASE Gate(r)
  <2>1. CASE ReqEnd(r)
    BY <1>1, <2>1 DEF TypeOK, Gate, ReqEnd, NoRequest, RequestPcs, db
  <2>2. CASE ReqGoto(r, "mark")
    BY SMTT(20), <1>1, <2>2 DEF TypeOK, Gate, ReqGoto, RequestPcs, db
  <2> QED
    BY <1>1, <2>1, <2>2 DEF Gate
<1>2. CASE MarkDuplicate(r)
  BY <1>2 DEF TypeOK, MarkDuplicate, ReqEnd, NoRequest, RequestPcs, db
<1>3. CASE MarkNew(r)
  BY <1>3 DEF TypeOK, RequestsKnow, MarkNew, ReqGoto, RequestPcs, db
<1>4. CASE MarkSilent(r)
  BY <1>4 DEF TypeOK, RequestsKnow, MarkSilent, ReqEnd, NoRequest, RequestPcs,
     Outcomes, db
<1>5. CASE React(r)
  <2>1. CASE ReqEnd(r)
    BY <1>5, <2>1 DEF TypeOK, React, ReqEnd, NoRequest, RequestPcs, Outcomes,
       db
  <2>2. CASE ReqGoto(r, "enqueue")
    BY SMTT(20), <1>5, <2>2 DEF TypeOK, React, ReqGoto, RequestPcs, Outcomes, db
  <2> QED
    BY <1>5, <2>1, <2>2 DEF React
<1>6. CASE Enqueue(r)
  <2>1. [msg |-> req[r].msg, bot |-> req[r].bot] \in Job
    BY <1>6 DEF RequestsKnow, Enqueue, Job
  <2>2. queue' \in Seq(Job)
    BY <1>6, <2>1 DEF TypeOK, Enqueue
  <2> QED
    BY <1>6, <2>2 DEF TypeOK, Enqueue, ReqEnd, NoRequest, RequestPcs, db
<1>7. CASE AcceptFails(r)
  BY <1>7 DEF TypeOK, AcceptFails, ReqEnd, NoRequest, RequestPcs, db
<1> QED
  BY <1>1, <1>2, <1>3, <1>4, <1>5, <1>6, <1>7 DEF RequestStep

\* Moving a worker on keeps it a worker.
LEMMA GotoTypes ==
    ASSUME TypeOK, NEW w \in Workers, NEW pc \in WorkerPcs, Goto(w, pc)
    PROVE  wk' \in [Workers -> [pc : WorkerPcs, job : Job \cup {NoJob},
                                tools : {"baseline", "more"}]]
BY DEF TypeOK, Goto

\* Showing a turn's state in chat keeps every message's outcome typed.
LEMMA ShowTypes ==
    ASSUME TypeOK, NEW w \in Workers, NEW what \in Outcomes, Show(w, what)
    PROVE  outcome' \in [Messages -> Outcomes]
BY DEF TypeOK, Show

\* Every step of a worker keeps the types.
LEMMA WorkerTypes ==
    ASSUME IInv, NEW w \in Workers, WorkerStep(w) \/ WorkerFails(w)
    PROVE  TypeOK'
<1> USE BotKinds, Bounds DEF IInv
<1>1. CASE Take(w)
  <2>1. /\ Head(queue) \in Job
        /\ Tail(queue) \in Seq(Job)
    BY <1>1, QueueParts DEF Take
  <2> QED
    BY <1>1, <2>1 DEF TypeOK, Take, Idle, WorkerPcs, db
<1>2. CASE Resolve(w)
  <2>1. wk' \in [Workers -> [pc : WorkerPcs, job : Job \cup {NoJob},
                             tools : {"baseline", "more"}]]
    <3>1. PICK x \in {"baseline", "more"} :
            \/ wk' = [wk EXCEPT ![w].pc = "place", ![w].tools = x]
            \/ wk' = [wk EXCEPT ![w] = Idle]
      BY <1>2 DEF Resolve
    <3>2. CASE wk' = [wk EXCEPT ![w].pc = "place", ![w].tools = x]
      BY ZenonT(40), <3>2 DEF TypeOK, WorkerPcs
    <3>3. CASE wk' = [wk EXCEPT ![w] = Idle]
      BY <3>3 DEF TypeOK, Idle, WorkerPcs
    <3> QED
      BY <3>1, <3>2, <3>3
  <2>2. outcome' \in [Messages -> Outcomes]
    BY <1>2 DEF TypeOK, Resolve, Show, Outcomes
  <2> QED
    BY <1>2, <2>1, <2>2 DEF TypeOK, Resolve, db
<1>3. CASE Place(w)
  BY <1>3, GotoTypes, ShowTypes DEF TypeOK, Place, WorkerPcs, Outcomes, db
<1>4. CASE Start(w)
  BY <1>4, GotoTypes DEF TypeOK, Start, WorkerPcs, db
<1>5. CASE Trip(w)
  BY <1>5, GotoTypes DEF TypeOK, Trip, WorkerPcs
<1>6. CASE GoDark(w)
  BY <1>6, GotoTypes, ShowTypes DEF TypeOK, GoDark, WorkerPcs, Outcomes, db
<1>7. CASE Run(w)
  BY <1>7, GotoTypes DEF TypeOK, Run, WorkerPcs, db
<1>8. CASE Answer(w)
  BY <1>8, GotoTypes, ShowTypes DEF TypeOK, Answer, WorkerPcs, Outcomes, db
<1>9. CASE Touch(w)
  BY <1>9, GotoTypes DEF TypeOK, Touch, WorkerPcs, db
<1>10. CASE Excuse(w)
  BY <1>10, GotoTypes, ShowTypes DEF TypeOK, Excuse, WorkerPcs, Outcomes, db
<1>11. CASE Except(w)
  BY <1>11, GotoTypes, ShowTypes DEF TypeOK, Except, WorkerPcs, Outcomes, db
<1>12. CASE Close(w)
  BY <1>12 DEF TypeOK, Close, Idle, WorkerPcs, db
<1>13. CASE ResolveFails(w)
  BY <1>13, GotoTypes DEF TypeOK, ResolveFails, WorkerPcs, db
<1>14. CASE PlaceFails(w)
  BY <1>14, GotoTypes DEF TypeOK, PlaceFails, WorkerPcs, db
<1>15. CASE TryFails(w)
  BY <1>15, GotoTypes DEF TypeOK, TryFails, WorkerPcs, db
<1>16. CASE ExceptFails(w)
  BY <1>16, GotoTypes DEF TypeOK, ExceptFails, WorkerPcs, db
<1>17. CASE CloseFails(w)
  BY <1>17, GotoTypes DEF TypeOK, CloseFails, WorkerPcs, db
<1> QED
  BY <1>1, <1>2, <1>3, <1>4, <1>5, <1>6, <1>7, <1>8, <1>9, <1>10, <1>11,
     <1>12, <1>13, <1>14, <1>15, <1>16, <1>17 DEF WorkerStep, WorkerFails

\* Every step keeps the types.
LEMMA Types == IInv /\ [Next]_vars => TypeOK'
<1> SUFFICES ASSUME IInv, [Next]_vars PROVE TypeOK'
  OBVIOUS
<1> USE BotKinds, Deliveries, Bounds DEF IInv
<1>1. ASSUME NEW r \in Requests, NEW m \in Messages, NEW b \in Bots,
             Receive(r, m, b)
      PROVE  TypeOK'
  <2>1. req' \in [Requests -> [pc : RequestPcs, msg : Messages \cup {None},
                               bot : Bots \cup {None}]]
    BY <1>1 DEF TypeOK, Receive, RequestPcs
  <2>2. posts' \in 0..MaxPosts
    BY <1>1 DEF TypeOK, Receive
  <2> QED
    BY <1>1, <2>1, <2>2 DEF TypeOK, Receive, db
<1>2. ASSUME NEW a \in Agents, SetEnabled(a) \/ GrantTools(a) \/ DeleteAgent(a)
      PROVE  TypeOK'
  BY <1>2 DEF TypeOK, SetEnabled, GrantTools, DeleteAgent
<1>3. ASSUME NEW b \in PoolBots, SessionChanges(b)
      PROVE  TypeOK'
  BY <1>3 DEF TypeOK, SessionChanges
<1>4. CASE Crash
  BY <1>4 DEF TypeOK, Crash, NoRequest, Idle, RequestPcs, WorkerPcs, Outcomes,
     db
<1>5. CASE UNCHANGED vars
  BY <1>5 DEF TypeOK, vars, db
<1> QED
  BY <1>1, <1>2, <1>3, <1>4, <1>5, RequestTypes, WorkerTypes DEF Next, Admin

-----------------------------------------------------------------------------
(* Who carries a message.                                                  *)

\* A request that carries nothing now disturbs nobody.
LEMMA QuietRequest ==
    ASSUME IInv, NEW r \in Requests,
           \A x \in Requests : x # r => req'[x] = req[x],
           req'[r].pc \notin Accepting,
           req'[r].pc # "idle" =>
               req'[r].msg \in Messages /\ req'[r].bot \in Bots,
           UNCHANGED <<seen, queue, wk, outcome>>
    PROVE  Carried'
<1> USE DEF IInv, Carried
<1>1. SeenIds' = SeenIds /\ Begun' = Begun
  BY DEF SeenIds, Begun
<1>2. \A m : Fresh(m)' <=> Fresh(m)
  BY <1>1 DEF Fresh
<1>3. UnseenIsNew'
  BY <1>1 DEF UnseenIsNew
<1>4. RequestsKnow'
  BY <1>2 DEF RequestsKnow
<1>5. QueueFresh' /\ WorkersKnow'
  BY <1>1, <1>2 DEF QueueFresh, WorkersKnow
<1>6. OneRequest'
  BY DEF OneRequest
<1>7. OnePlace' /\ OneWorker'
  BY DEF OnePlace, OneWorker
<1> QED
  BY <1>3, <1>4, <1>5, <1>6, <1>7

\* Nor does a worker that is without a turn now.
LEMMA QuietWorker ==
    ASSUME IInv, NEW w \in Workers,
           \A x \in Workers : x # w => wk'[x] = wk[x],
           wk'[w].pc \notin Early \cup Late,
           UNCHANGED <<req, seen, queue, outcome>>
    PROVE  Carried'
<1> USE DEF IInv, Carried
<1>1. SeenIds' = SeenIds /\ Begun' = Begun
  BY DEF SeenIds, Begun
<1>2. \A m : Fresh(m)' <=> Fresh(m)
  BY <1>1 DEF Fresh
<1>3. UnseenIsNew' /\ RequestsKnow' /\ QueueFresh'
  BY <1>1, <1>2 DEF UnseenIsNew, RequestsKnow, QueueFresh
<1>4. WorkersKnow'
  BY <1>1, <1>2 DEF WorkersKnow
<1>5. OneRequest' /\ OnePlace'
  BY DEF OneRequest, OnePlace
<1>6. OneWorker'
  BY DEF OneWorker
<1> QED
  BY <1>3, <1>4, <1>5, <1>6

\* A worker whose turn goes on touches only its own message's placeholder.
LEMMA LateWorker ==
    ASSUME IInv, NEW w \in Workers,
           \A x \in Workers : x # w => wk'[x] = wk[x],
           wk[w].pc \in Late, wk'[w].pc \in Late, wk'[w].job = wk[w].job,
           \/ UNCHANGED outcome
           \/ \E what \in {"answer", "error", "dark"} : Show(w, what),
           UNCHANGED <<req, seen, queue>>
    PROVE  Carried'
<1> USE DEF IInv, Carried
<1>1. SeenIds' = SeenIds
  BY DEF SeenIds
<1>2. wk[w].job \in Job /\ wk[w].job.msg \in Begun
  BY DEF WorkersKnow
<1>3. \A m \in Messages : outcome'[m] = "none" <=> outcome[m] = "none"
  BY <1>2 DEF TypeOK, Show, Begun
<1>4. Begun' = Begun
  BY <1>2 DEF TypeOK, Show, Begun
<1>5. \A m \in Messages : Fresh(m)' <=> Fresh(m)
  BY <1>1, <1>3 DEF Fresh
<1>6. UnseenIsNew'
  BY <1>1, <1>3 DEF UnseenIsNew
<1>7. RequestsKnow'
  BY <1>5 DEF RequestsKnow, Accepting
<1>8. QueueFresh'
  BY <1>5, QueuedJobs DEF QueueFresh
<1>9. WorkersKnow'
  BY <1>2, <1>4, <1>5 DEF WorkersKnow, Job, Early, Late
<1>10. OneRequest' /\ OnePlace' /\ OneWorker'
  BY DEF OneRequest, OnePlace, OneWorker, Early, Late
<1> QED
  BY <1>6, <1>7, <1>8, <1>9, <1>10

\* The mark gives the message, new until then, its only carrier.
LEMMA MarkNewCarries ==
    ASSUME IInv, NEW r \in Requests, MarkNew(r)
    PROVE  Carried'
<1> USE DEF IInv, Carried
<1>1. req[r].msg \in Messages /\ req[r].bot \in Bots
  BY DEF RequestsKnow, MarkNew
<1>2. SeenIds' = SeenIds \cup {req[r].msg}
  BY <1>1, SeenGrows DEF MarkNew
<1>3. /\ \A x \in Requests : x # r => req'[x] = req[x]
      /\ req'[r].pc = "react"
      /\ req'[r].msg = req[r].msg
      /\ req'[r].bot = req[r].bot
  BY DEF TypeOK, MarkNew, ReqGoto
<1>4. /\ req[r].msg \notin SeenIds
      /\ outcome[req[r].msg] = "none"
  BY <1>1 DEF UnseenIsNew, MarkNew
<1>5. \A m : Fresh(m) => Fresh(m)' /\ m # req[r].msg
  BY <1>2, <1>4 DEF Fresh, MarkNew
<1>6. Fresh(req[r].msg)'
  BY <1>2, <1>3, <1>4 DEF Fresh, MarkNew
<1>7. UnseenIsNew'
  BY <1>2 DEF UnseenIsNew, MarkNew
<1>8. RequestsKnow'
  BY <1>1, <1>3, <1>5, <1>6 DEF RequestsKnow
<1>9. QueueFresh'
  BY <1>5 DEF QueueFresh, MarkNew
<1>10. WorkersKnow'
  BY <1>5 DEF WorkersKnow, MarkNew, Begun
<1>11. OneRequest'
  <2>1. \A x \in Requests : x # r /\ req[x].pc \in Accepting
                              => req[x].msg # req[r].msg
    BY <1>5 DEF RequestsKnow
  <2>2. \A i \in 1..Len(queue) : queue[i].msg # req[r].msg
    BY <1>5 DEF QueueFresh
  <2>3. \A w \in Workers : wk[w].pc \in Early => wk[w].job.msg # req[r].msg
    BY <1>5 DEF WorkersKnow
  <2> QED
    BY <1>3, <2>1, <2>2, <2>3 DEF OneRequest, MarkNew
<1>12. OnePlace' /\ OneWorker'
  BY DEF OnePlace, OneWorker, MarkNew
<1> QED
  BY <1>7, <1>8, <1>9, <1>10, <1>11, <1>12

\* A message spent in silence had no carrier and gets none.
LEMMA MarkSilentCarries ==
    ASSUME IInv, NEW r \in Requests, MarkSilent(r)
    PROVE  Carried'
<1> USE DEF IInv, Carried
<1>1. req[r].msg \in Messages /\ req[r].bot \in Bots
  BY DEF RequestsKnow, MarkSilent
<1>2. SeenIds' = SeenIds \cup {req[r].msg}
  BY <1>1, SeenGrows DEF MarkSilent
<1>3. /\ \A x \in Requests : x # r => req'[x] = req[x]
      /\ req'[r].pc = "idle"
  BY DEF TypeOK, MarkSilent, ReqEnd, NoRequest
<1>4. \A m \in Messages :
          m # req[r].msg => outcome'[m] = outcome[m]
  BY DEF TypeOK, MarkSilent
<1>5. req[r].msg \notin SeenIds
  BY DEF MarkSilent
<1>6. \A m \in Messages : Fresh(m) => Fresh(m)'
  BY <1>2, <1>4, <1>5 DEF Fresh
<1>7. UnseenIsNew'
  BY <1>2, <1>4 DEF UnseenIsNew
<1>8. RequestsKnow'
  BY <1>3, <1>6 DEF RequestsKnow, Accepting
<1>9. QueueFresh'
  BY <1>6, QueuedJobs DEF QueueFresh, MarkSilent
<1>10. WorkersKnow'
  <2>1. \A m \in Begun : m # req[r].msg
    BY <1>1, <1>5 DEF UnseenIsNew, Begun
  <2>2. \A m \in Begun : m \in Begun'
    BY <1>4, <2>1 DEF Begun
  <2> QED
    BY <1>6, <2>2 DEF WorkersKnow, MarkSilent, Job
<1>11. OneRequest'
  BY <1>3 DEF OneRequest, MarkSilent, Accepting
<1>12. OnePlace' /\ OneWorker'
  BY DEF OnePlace, OneWorker, MarkSilent
<1> QED
  BY <1>7, <1>8, <1>9, <1>10, <1>11, <1>12

\* The reaction hands the message on, or drops it with its only carrier.
LEMMA ReactCarries ==
    ASSUME IInv, NEW r \in Requests, React(r)
    PROVE  Carried'
<1> USE DEF IInv, Carried
<1> DEFINE m == req[r].msg
<1>1. /\ m \in Messages
      /\ req[r].bot \in Bots
      /\ Fresh(m)
      /\ req[r].pc \in Accepting
  BY DEF RequestsKnow, React, Accepting
<1>2. SeenIds' = SeenIds
  BY DEF SeenIds, React
<1>3. \A x \in Requests : x # r => req'[x] = req[x]
  BY DEF TypeOK, React, ReqEnd, ReqGoto
<1>4. CASE ReqGoto(r, "enqueue") /\ UNCHANGED outcome
  <2>1. /\ req'[r].pc = "enqueue"
        /\ req'[r].msg = req[r].msg
        /\ req'[r].bot = req[r].bot
    BY <1>4 DEF TypeOK, ReqGoto
  <2>2. \A n : Fresh(n)' <=> Fresh(n)
    BY <1>2, <1>4 DEF Fresh
  <2>3. UnseenIsNew' /\ QueueFresh' /\ WorkersKnow'
    BY <1>2, <1>4, <2>2 DEF UnseenIsNew, QueueFresh, WorkersKnow, React, Begun
  <2>4. RequestsKnow'
    BY <1>1, <1>3, <2>1, <2>2 DEF RequestsKnow
  <2>5. OneRequest'
    BY <1>1, <1>3, <2>1 DEF OneRequest, React
  <2>6. OnePlace' /\ OneWorker'
    BY DEF OnePlace, OneWorker, React
  <2> QED
    BY <2>3, <2>4, <2>5, <2>6
<1>5. CASE ReqEnd(r) /\ outcome' = [outcome EXCEPT ![m] = "dropped"]
  <2>1. req'[r].pc = "idle"
    BY <1>5 DEF TypeOK, ReqEnd, NoRequest
  <2>2. \A n \in Messages : n # m => (Fresh(n)' <=> Fresh(n))
    BY <1>2, <1>5 DEF TypeOK, Fresh
  <2>3. UnseenIsNew'
    BY <1>1, <1>2, <1>5 DEF TypeOK, UnseenIsNew, Fresh
  <2>4. RequestsKnow'
    BY <1>1, <1>3, <2>1, <2>2 DEF RequestsKnow, OneRequest, Accepting
  <2>5. QueueFresh'
    BY <1>1, <2>2, QueuedJobs DEF QueueFresh, OneRequest, React
  <2>6. \A n \in Begun : n # m /\ n \in Begun'
    BY <1>1, <1>5 DEF TypeOK, Begun, Fresh
  <2>7. WorkersKnow'
    <3>1. \A w \in Workers : wk[w].pc \in Early => wk[w].job.msg # m
      BY <1>1 DEF OneRequest
    <3> QED
      BY <2>2, <2>6, <3>1 DEF WorkersKnow, React, Job
  <2>8. OneRequest'
    BY <1>3, <2>1 DEF OneRequest, React, Accepting
  <2>9. OnePlace' /\ OneWorker'
    BY DEF OnePlace, OneWorker, React
  <2> QED
    BY <2>3, <2>4, <2>5, <2>7, <2>8, <2>9
<1> QED
  BY <1>4, <1>5 DEF React

\* The put passes the message from the request to the end of the queue.
LEMMA EnqueueCarries ==
    ASSUME IInv, NEW r \in Requests, Enqueue(r)
    PROVE  Carried'
<1> USE DEF IInv, Carried
<1> DEFINE job == [msg |-> req[r].msg, bot |-> req[r].bot]
<1>1. /\ req[r].msg \in Messages
      /\ req[r].bot \in Bots
      /\ Fresh(req[r].msg)
      /\ req[r].pc \in Accepting
  BY DEF RequestsKnow, Enqueue, Accepting
<1>2. SeenIds' = SeenIds /\ Begun' = Begun
  BY DEF SeenIds, Begun, Enqueue
<1>3. \A n : Fresh(n)' <=> Fresh(n)
  BY <1>2 DEF Fresh, Enqueue
<1>4. /\ \A x \in Requests : x # r => req'[x] = req[x]
      /\ req'[r].pc = "idle"
  BY DEF TypeOK, Enqueue, ReqEnd, NoRequest
<1>5. /\ Len(queue') = Len(queue) + 1
      /\ Len(queue) \in Nat
      /\ \A i \in 1..Len(queue) : queue'[i] = queue[i]
      /\ queue'[Len(queue) + 1] = job
  <2>1. job \in Job
    BY <1>1 DEF Job
  <2>2. queue' = Append(queue, job) /\ queue \in Seq(Job)
    BY DEF Enqueue, TypeOK
  <2> QED
    BY <2>1, <2>2
<1>6. \A i \in 1..Len(queue') : i \in 1..Len(queue) \/ i = Len(queue) + 1
  BY <1>5
<1>7. queue'[Len(queue) + 1].msg = req[r].msg
  BY <1>5
<1>8. UnseenIsNew'
  BY <1>2 DEF UnseenIsNew, Enqueue
<1>9. RequestsKnow'
  BY <1>3, <1>4 DEF RequestsKnow, Accepting
<1>10. QueueFresh'
  BY <1>1, <1>3, <1>5, <1>6, <1>7 DEF QueueFresh
<1>11. WorkersKnow'
  BY <1>2, <1>3 DEF WorkersKnow, Enqueue
<1>12. OneRequest'
  <2>1. \A x \in Requests : req'[x].pc \in Accepting => x # r
    BY <1>4 DEF Accepting
  <2>2. \A x \in Requests : req'[x].pc \in Accepting
                                => req'[x].msg # req[r].msg
    BY <1>1, <1>4, <2>1 DEF OneRequest
  <2>3. \A x \in Requests, i \in 1..Len(queue') :
           req'[x].pc \in Accepting => req'[x].msg # queue'[i].msg
    BY <1>4, <1>5, <1>6, <1>7, <2>1, <2>2 DEF OneRequest
  <2> QED
    BY <1>4, <2>1, <2>3 DEF OneRequest, Enqueue
<1>13. OnePlace'
  <2>1. \A i \in 1..Len(queue) : queue[i].msg # req[r].msg
    BY <1>1 DEF OneRequest
  <2>2. \A w \in Workers : wk[w].pc \in Early => wk[w].job.msg # req[r].msg
    BY <1>1 DEF OneRequest
  <2>3. \A i, j \in 1..Len(queue') : queue'[i].msg = queue'[j].msg => i = j
    BY <1>5, <1>6, <1>7, <2>1 DEF OnePlace
  <2>4. \A i \in 1..Len(queue'), w \in Workers :
           wk[w].pc \in Early => queue'[i].msg # wk[w].job.msg
    BY <1>5, <1>6, <1>7, <2>2 DEF OnePlace
  <2> QED
    BY <2>3, <2>4 DEF OnePlace, Enqueue
<1>14. OneWorker'
  BY DEF OneWorker, Enqueue
<1> QED
  BY <1>8, <1>9, <1>10, <1>11, <1>12, <1>13, <1>14

\* The worker takes over from the head of the queue.
LEMMA TakeCarries ==
    ASSUME IInv, NEW w \in Workers, Take(w)
    PROVE  Carried'
<1> USE DEF IInv, Carried
<1>1. /\ Len(queue) \in Nat
      /\ Len(queue) >= 1
      /\ Head(queue) = queue[1]
      /\ Head(queue) \in Job
      /\ Len(queue') = Len(queue) - 1
      /\ \A i \in 1..Len(queue') : queue'[i] = queue[i + 1]
  BY QueueParts DEF Take
<1>2. /\ \A i \in 1..Len(queue') : i + 1 \in 1..Len(queue)
      /\ 1 \in 1..Len(queue)
      /\ \A i \in 1..Len(queue') : i + 1 # 1
  BY <1>1
<1>3. /\ \A x \in Workers : x # w => wk'[x] = wk[x]
      /\ wk'[w].pc = "resolve"
      /\ wk'[w].job = queue[1]
  BY <1>1 DEF TypeOK, Take, Idle
<1>4. SeenIds' = SeenIds /\ Begun' = Begun
  BY DEF SeenIds, Begun, Take
<1>5. \A n : Fresh(n)' <=> Fresh(n)
  BY <1>4 DEF Fresh, Take
<1>6. UnseenIsNew' /\ RequestsKnow'
  BY <1>4, <1>5 DEF UnseenIsNew, RequestsKnow, Take
<1>7. QueueFresh'
  BY <1>1, <1>2, <1>5 DEF QueueFresh
<1>8. WorkersKnow'
  BY <1>1, <1>2, <1>3, <1>4, <1>5 DEF WorkersKnow, QueueFresh, Late
<1>9. OneRequest'
  BY <1>1, <1>2, <1>3 DEF OneRequest, Take
<1>10. OnePlace'
  <2>1. \A i, j \in 1..Len(queue') : queue'[i].msg = queue'[j].msg => i = j
    <3> SUFFICES ASSUME NEW i \in 1..Len(queue'), NEW j \in 1..Len(queue'),
                        queue'[i].msg = queue'[j].msg
                 PROVE  i = j
      OBVIOUS
    <3>1. i + 1 \in 1..Len(queue) /\ j + 1 \in 1..Len(queue)
      BY <1>2
    <3>2. queue[i + 1].msg = queue[j + 1].msg
      BY <1>1
    <3>3. i + 1 = j + 1
      BY <3>1, <3>2 DEF OnePlace
    <3> QED
      BY <3>3
  <2>2. \A i \in 1..Len(queue') : queue'[i].msg # queue[1].msg
    BY <1>1, <1>2 DEF OnePlace
  <2>3. \A i \in 1..Len(queue'), x \in Workers :
           wk'[x].pc \in Early => queue'[i].msg # wk'[x].job.msg
    <3> SUFFICES ASSUME NEW i \in 1..Len(queue'), NEW x \in Workers,
                        wk'[x].pc \in Early
                 PROVE  queue'[i].msg # wk'[x].job.msg
      OBVIOUS
    <3>1. i + 1 \in 1..Len(queue) /\ queue'[i] = queue[i + 1]
      BY <1>1, <1>2
    <3>2. CASE x = w
      BY <1>3, <2>2, <3>2
    <3>3. CASE x # w
      BY <1>3, <3>1, <3>3 DEF OnePlace
    <3> QED
      BY <3>2, <3>3
  <2> QED
    BY <2>1, <2>3 DEF OnePlace
<1>11. OneWorker'
  BY <1>2, <1>3 DEF OneWorker, OnePlace
<1> QED
  BY <1>6, <1>7, <1>8, <1>9, <1>10, <1>11

\* A dropped job's message had this worker alone for a carrier.
LEMMA ResolveCarries ==
    ASSUME IInv, NEW w \in Workers, Resolve(w)
    PROVE  Carried'
<1> USE DEF IInv, Carried
<1> DEFINE m == wk[w].job.msg
<1>1. /\ wk[w].pc \in Early
      /\ wk[w].job \in Job
      /\ m \in Messages
      /\ Fresh(m)
  BY DEF WorkersKnow, Resolve, Early, Job
<1>2. SeenIds' = SeenIds
  BY DEF SeenIds, Resolve
<1>3. \A x \in Workers : x # w => wk'[x] = wk[x]
  BY DEF TypeOK, Resolve
<1>4. CASE wk'[w].pc = "place" /\ wk'[w].job = wk[w].job /\ UNCHANGED outcome
  <2>1. Begun' = Begun /\ \A n : Fresh(n)' <=> Fresh(n)
    BY <1>2, <1>4 DEF Begun, Fresh
  <2>2. UnseenIsNew' /\ RequestsKnow' /\ QueueFresh'
    BY <1>2, <1>4, <2>1 DEF UnseenIsNew, RequestsKnow, QueueFresh, Resolve
  <2>3. WorkersKnow'
    BY <1>1, <1>3, <1>4, <2>1 DEF WorkersKnow, Late
  <2>4. OneRequest' /\ OnePlace'
    BY <1>1, <1>3, <1>4 DEF OneRequest, OnePlace, Resolve
  <2>5. OneWorker'
    BY <1>1, <1>3, <1>4 DEF OneWorker
  <2> QED
    BY <2>2, <2>3, <2>4, <2>5
<1>5. CASE wk'[w].pc = "idle" /\ outcome' = [outcome EXCEPT ![m] = "dropped"]
  <2>1. \A n \in Messages : n # m => (Fresh(n)' <=> Fresh(n))
    BY <1>2, <1>5 DEF TypeOK, Fresh
  <2>2. \A n \in Begun : n # m /\ n \in Begun'
    BY <1>1, <1>5 DEF TypeOK, Begun, Fresh
  <2>3. UnseenIsNew'
    BY <1>1, <1>2, <1>5 DEF TypeOK, UnseenIsNew, Fresh
  <2>4. RequestsKnow'
    <3>1. \A r \in Requests : req[r].pc \in Accepting => req[r].msg # m
      BY <1>1 DEF OneRequest
    <3>2. \A r \in Requests :
              req[r].pc \in Accepting => req[r].msg \in Messages
      BY DEF RequestsKnow, Accepting
    <3> QED
      BY <2>1, <3>1, <3>2 DEF RequestsKnow, Resolve
  <2>5. QueueFresh'
    BY <1>1, <2>1, QueuedJobs DEF QueueFresh, OnePlace, Resolve
  <2>6. WorkersKnow'
    <3>1. \A x \in Workers : x # w /\ wk[x].pc \in Early
                                => wk[x].job.msg # m
      BY <1>1 DEF OneWorker
    <3> QED
      BY <1>3, <1>5, <2>1, <2>2, <3>1 DEF WorkersKnow, Job, Early, Late
  <2>7. OneRequest' /\ OnePlace' /\ OneWorker'
    BY <1>3, <1>5 DEF OneRequest, OnePlace, OneWorker, Resolve, Early
  <2> QED
    BY <2>3, <2>4, <2>5, <2>6, <2>7
<1>6. \/ wk' = [wk EXCEPT ![w] = Idle] /\ Show(w, "dropped")
      \/ /\ wk'[w].pc = "place"
         /\ wk'[w].job = wk[w].job
         /\ UNCHANGED outcome
  BY DEF TypeOK, Resolve
<1>7. wk' = [wk EXCEPT ![w] = Idle] => wk'[w].pc = "idle"
  BY DEF TypeOK, Idle
<1> QED
  BY <1>4, <1>5, <1>6, <1>7 DEF Show

\* The placeholder makes the turn a begun one.
LEMMA PlaceCarries ==
    ASSUME IInv, NEW w \in Workers, Place(w)
    PROVE  Carried'
<1> USE DEF IInv, Carried
<1> DEFINE m == wk[w].job.msg
<1>1. /\ wk[w].pc \in Early
      /\ wk[w].job \in Job
      /\ m \in Messages
      /\ Fresh(m)
  BY DEF WorkersKnow, Place, Early, Job
<1>2. SeenIds' = SeenIds
  BY DEF SeenIds, Place
<1>3. /\ \A x \in Workers : x # w => wk'[x] = wk[x]
      /\ wk'[w].pc = "start"
      /\ wk'[w].job = wk[w].job
  BY DEF TypeOK, Place, Goto
<1>4. outcome' = [outcome EXCEPT ![m] = "spinner"]
  BY DEF Place, Show
<1>5. \A n \in Messages : n # m => (Fresh(n)' <=> Fresh(n))
  BY <1>2, <1>4 DEF TypeOK, Fresh
<1>6. Begun' = Begun \cup {m}
  BY <1>1, <1>4 DEF TypeOK, Begun
<1>7. UnseenIsNew'
  BY <1>1, <1>2, <1>4 DEF TypeOK, UnseenIsNew, Fresh
<1>8. RequestsKnow'
  <2>1. \A r \in Requests : req[r].pc \in Accepting => req[r].msg # m
    BY <1>1 DEF OneRequest
  <2>2. \A r \in Requests :
            req[r].pc \in Accepting => req[r].msg \in Messages
    BY DEF RequestsKnow, Accepting
  <2> QED
    BY <1>5, <2>1, <2>2 DEF RequestsKnow, Place
<1>9. QueueFresh'
  BY <1>1, <1>5, QueuedJobs DEF QueueFresh, OnePlace, Place
<1>10. WorkersKnow'
  <2>1. \A x \in Workers : x # w /\ wk[x].pc \in Early => wk[x].job.msg # m
    BY <1>1 DEF OneWorker
  <2> QED
    BY <1>1, <1>3, <1>5, <1>6, <2>1 DEF WorkersKnow, Job, Early
<1>11. OneRequest' /\ OnePlace' /\ OneWorker'
  BY <1>3 DEF OneRequest, OnePlace, OneWorker, Place, Early
<1> QED
  BY <1>7, <1>8, <1>9, <1>10, <1>11

\* After a crash nothing is carried and nothing seen.
LEMMA CrashCarries ==
    ASSUME IInv, Crash
    PROVE  Carried'
<1>1. /\ \A r \in Requests : req'[r].pc = "idle"
      /\ \A w \in Workers : wk'[w].pc = "idle"
      /\ \A m \in Messages : outcome'[m] = "none"
      /\ Len(queue') = 0
  BY DEF Crash, NoRequest, Idle
<1>2. 1..Len(queue') = {}
  BY <1>1
<1> QED
  BY <1>1, <1>2 DEF Carried, UnseenIsNew, RequestsKnow, QueueFresh,
     WorkersKnow, OneRequest, OnePlace, OneWorker, Accepting, Early, Late

-----------------------------------------------------------------------------
(* Settled messages, and the invariant.                                    *)

\* A message with an outcome keeps one until the process dies: only a
\* placeholder takes a message back, and it is one that has none.
LEMMA SettledStays ==
    ASSUME IInv, [Next]_vars, ~Crash, NEW m \in Messages, Settled(m)
    PROVE  Settled(m)'
<1> USE DEF IInv, Carried, Settled
<1>1. ASSUME NEW w \in Workers, Place(w) PROVE Settled(m)'
  <2>1. wk[w].job.msg # m
    BY <1>1 DEF WorkersKnow, Place, Early, Fresh
  <2> QED
    BY <1>1, <2>1 DEF TypeOK, Place, Show
<1>2. ASSUME NEW w \in Workers, NEW what \in Outcomes \ {"none", "spinner"},
             Show(w, what)
      PROVE  Settled(m)'
  BY <1>2 DEF TypeOK, Show
<1>3. ASSUME NEW n, outcome' = [outcome EXCEPT ![n] = "dropped"]
      PROVE  Settled(m)'
  BY <1>3 DEF TypeOK
<1>4. CASE UNCHANGED outcome
  BY <1>4
<1> QED
  BY <1>1, <1>2, <1>3, <1>4 DEF Outcomes, Next, vars, Receive, RequestStep,
     Gate, MarkDuplicate, MarkNew, MarkSilent, React, Enqueue, AcceptFails,
     WorkerStep, WorkerFails, Take, Resolve, Start, Trip, GoDark, Run, Answer,
     Touch, Excuse, Except, Close, ResolveFails, PlaceFails, TryFails,
     ExceptFails, CloseFails, Admin, SetEnabled, GrantTools, DeleteAgent,
     SessionChanges

\* What a worker's step does to where the workers are.
LEMMA WorkerMoves ==
    ASSUME TypeOK, NEW w \in Workers, WorkerStep(w) \/ WorkerFails(w)
    PROVE  /\ \A x \in Workers : x # w => wk'[x] = wk[x]
           /\ wk'[w].pc = "touch" => Answer(w)
           /\ ~Take(w) /\ wk'[w].pc \in TurnPcs => wk'[w].job = wk[w].job
<1>1. ASSUME NEW pc, Goto(w, pc)
      PROVE  /\ \A x \in Workers : x # w => wk'[x] = wk[x]
             /\ wk'[w].pc = pc
             /\ wk'[w].job = wk[w].job
  BY <1>1 DEF TypeOK, Goto
<1>2. CASE Take(w)
  BY <1>2 DEF TypeOK, Take, Idle
<1>3. CASE Resolve(w)
  <2>1. PICK x \in {"baseline", "more"} :
          \/ wk' = [wk EXCEPT ![w].pc = "place", ![w].tools = x]
          \/ wk' = [wk EXCEPT ![w] = Idle]
    BY <1>3 DEF Resolve
  <2> QED
    BY <2>1 DEF TypeOK, Idle, TurnPcs
<1>4. CASE Close(w)
  BY <1>4 DEF TypeOK, Close, Idle, TurnPcs
<1> QED
  BY <1>1, <1>2, <1>3, <1>4 DEF WorkerStep, WorkerFails, Place, Start, Trip,
     GoDark, Run, Answer, Touch, Excuse, Except, ResolveFails, PlaceFails,
     TryFails, ExceptFails, CloseFails

\* A worker that touches a session has shown the reply.
LEMMA TouchesAnswer == IInv /\ [Next]_vars => TouchAnswers'
<1> SUFFICES ASSUME IInv, [Next]_vars PROVE TouchAnswers'
  OBVIOUS
<1> USE DEF IInv
<1>1. ASSUME ~Crash, NEW w \in Workers, wk'[w].pc = "touch",
             wk'[w] = wk[w]
      PROVE  Settled(wk[w].job.msg)'
  <2>1. wk[w].job.msg \in Messages /\ Settled(wk[w].job.msg)
    BY <1>1 DEF TouchAnswers, Carried, WorkersKnow, Late, Begun
  <2> QED
    BY <1>1, <2>1, SettledStays
<1>2. ASSUME NEW v \in Workers, WorkerStep(v) \/ WorkerFails(v)
      PROVE  TouchAnswers'
  <2>1. ~Crash \/ TouchAnswers'
    BY DEF Crash, TouchAnswers, Idle
  <2>2. ASSUME NEW w \in Workers, wk'[w].pc = "touch", Answer(v), w = v
        PROVE  Settled(wk[w].job.msg)'
    <3>1. wk[v].job.msg \in Messages
      BY <2>2 DEF Answer, Carried, WorkersKnow, Late, Begun
    <3>2. wk'[v].job = wk[v].job
      BY <2>2 DEF TypeOK, Answer, Goto
    <3> QED
      BY <2>2, <3>1, <3>2 DEF TypeOK, Answer, Show, Settled
  <2> QED
    BY <1>1, <1>2, <2>1, <2>2, WorkerMoves DEF TouchAnswers
<1>3. CASE Crash
  BY <1>3 DEF TouchAnswers, Crash, Idle
<1>4. CASE UNCHANGED wk
  BY <1>1, <1>3, <1>4 DEF TouchAnswers
<1> QED
  BY <1>2, <1>3, <1>4 DEF Next, vars, Receive, RequestStep, Gate,
     MarkDuplicate, MarkNew, MarkSilent, React, Enqueue, AcceptFails, Admin,
     SetEnabled, GrantTools, DeleteAgent, SessionChanges

\* Every step of a request keeps each message with one carrier.
LEMMA RequestCarries ==
    ASSUME IInv, NEW r \in Requests, RequestStep(r) \/ AcceptFails(r)
    PROVE  Carried'
<1> USE DEF IInv, Carried
<1>1. CASE Gate(r)
  <2>1. req[r].msg \in Messages /\ req[r].bot \in Bots
    BY <1>1 DEF RequestsKnow, Gate
  <2>2. CASE ReqEnd(r)
    <3>1. /\ \A x \in Requests : x # r => req'[x] = req[x]
          /\ req'[r].pc = "idle"
      BY <2>2 DEF TypeOK, ReqEnd, NoRequest
    <3> QED
      BY <1>1, <3>1, QuietRequest DEF Gate, Accepting
  <2>3. CASE ReqGoto(r, "mark")
    <3>1. /\ \A x \in Requests : x # r => req'[x] = req[x]
          /\ req'[r].pc = "mark"
          /\ req'[r].msg = req[r].msg
          /\ req'[r].bot = req[r].bot
      BY <2>3 DEF TypeOK, ReqGoto
    <3> QED
      BY <1>1, <2>1, <3>1, QuietRequest DEF Gate, Accepting
  <2> QED
    BY <1>1, <2>2, <2>3 DEF Gate
<1>2. CASE MarkDuplicate(r) \/ AcceptFails(r)
  <2>1. /\ \A x \in Requests : x # r => req'[x] = req[x]
        /\ req'[r].pc = "idle"
    BY <1>2 DEF TypeOK, MarkDuplicate, AcceptFails, ReqEnd, NoRequest
  <2> QED
    BY <1>2, <2>1, QuietRequest DEF MarkDuplicate, AcceptFails, Accepting
<1> QED
  BY <1>1, <1>2, MarkNewCarries, MarkSilentCarries, ReactCarries,
     EnqueueCarries DEF RequestStep

\* So does every step of a worker.
LEMMA WorkerCarries ==
    ASSUME IInv, NEW w \in Workers, WorkerStep(w) \/ WorkerFails(w)
    PROVE  Carried'
<1> USE DEF IInv, Carried
<1>1. CASE ResolveFails(w) \/ PlaceFails(w) \/ Close(w)
  <2>1. /\ \A x \in Workers : x # w => wk'[x] = wk[x]
        /\ wk'[w].pc \in {"idle", "dead"}
    BY <1>1 DEF TypeOK, ResolveFails, PlaceFails, Close, Goto, Idle
  <2> QED
    BY <1>1, <2>1, QuietWorker DEF ResolveFails, PlaceFails, Close, Early, Late
<1>2. CASE \/ Start(w) \/ Trip(w) \/ GoDark(w) \/ Run(w) \/ Answer(w)
           \/ Touch(w) \/ Excuse(w) \/ Except(w)
           \/ TryFails(w) \/ ExceptFails(w) \/ CloseFails(w)
  <2>1. wk[w].pc \in Late
    BY <1>2 DEF Start, Trip, GoDark, Run, Answer, Touch, Excuse, Except,
       TryFails, ExceptFails, CloseFails, Late
  <2>2. PICK pc \in Late : Goto(w, pc)
    BY <1>2 DEF Start, Trip, GoDark, Run, Answer, Touch, Excuse, Except,
       TryFails, ExceptFails, CloseFails, Late
  <2>3. /\ \A x \in Workers : x # w => wk'[x] = wk[x]
        /\ wk'[w].pc \in Late
        /\ wk'[w].job = wk[w].job
    BY <2>2 DEF TypeOK, Goto
  <2>4. \/ UNCHANGED outcome
        \/ \E what \in {"answer", "error", "dark"} : Show(w, what)
    BY <1>2 DEF Start, Trip, GoDark, Run, Answer, Touch, Excuse, Except,
       TryFails, ExceptFails, CloseFails
  <2>5. UNCHANGED <<req, seen, queue>>
    BY <1>2 DEF Start, Trip, GoDark, Run, Answer, Touch, Excuse, Except,
       TryFails, ExceptFails, CloseFails
  <2> QED
    BY <2>1, <2>3, <2>4, <2>5, LateWorker
<1> QED
  BY <1>1, <1>2, TakeCarries, ResolveCarries, PlaceCarries
     DEF WorkerStep, WorkerFails

\* What changes no request, worker, message or queue changes no carrier.
LEMMA StillCarried ==
    ASSUME Carried, UNCHANGED <<req, seen, queue, wk, outcome>>
    PROVE  Carried'
BY DEF Carried, UnseenIsNew, RequestsKnow, QueueFresh, WorkersKnow, OneRequest,
   OnePlace, OneWorker, Fresh, SeenIds, Begun

\* The invariant is inductive.
LEMMA Inductive == IInv /\ [Next]_vars => IInv'
<1> SUFFICES ASSUME IInv, [Next]_vars PROVE Carried'
  BY Types, TouchesAnswer DEF IInv
<1> USE DEF IInv
<1>1. ASSUME NEW r \in Requests, NEW m \in Messages, NEW b \in Bots,
             Receive(r, m, b)
      PROVE  Carried'
  <2>1. \A x \in Requests : x # r => req'[x] = req[x]
    BY <1>1 DEF TypeOK, Receive
  <2>2. /\ req'[r].pc \in {"mark", "silent", "gate"}
        /\ req'[r].msg = m
        /\ req'[r].bot = b
    BY <1>1 DEF TypeOK, Receive
  <2> QED
    BY <1>1, <2>1, <2>2, QuietRequest DEF Receive, Accepting
<1>2. CASE Admin \/ UNCHANGED vars
  BY <1>2, StillCarried DEF Admin, SetEnabled, GrantTools, DeleteAgent,
     SessionChanges, vars
<1> QED
  BY <1>1, <1>2, RequestCarries, WorkerCarries, CrashCarries DEF Next

\* It holds at the start.
LEMMA Initial == Init => IInv
<1> SUFFICES ASSUME Init PROVE IInv
  OBVIOUS
<1>1. TypeOK
  BY BotKinds, Bounds DEF Init, TypeOK, NoRequest, Idle, RequestPcs, WorkerPcs,
     Outcomes
<1>2. Len(queue) = 0 /\ 1..Len(queue) = {}
  BY DEF Init
<1>3. Carried
  BY <1>2 DEF Init, Carried, UnseenIsNew, RequestsKnow, QueueFresh,
     WorkersKnow, OneRequest, OnePlace, OneWorker, Accepting, Early, Late,
     NoRequest, Idle
<1>4. TouchAnswers
  BY DEF Init, TouchAnswers, Idle
<1> QED
  BY <1>1, <1>3, <1>4 DEF IInv

\* Every reachable state satisfies it.
LEMMA Invariance == Spec => []IInv
BY Initial, Inductive, PTL DEF Spec

-----------------------------------------------------------------------------
(* The theorems.                                                           *)

\* Rows, requests, jobs, workers and messages keep to the states of the code.
THEOREM TurnTypesCorrect == Spec => []TypeOK
<1>1. IInv => TypeOK
  BY DEF IInv
<1> QED
  BY <1>1, Invariance, PTL

\* Whoever has a message in hand hands it on, settles it or loses it.
LEMMA HandedOn ==
    ASSUME IInv, [Next]_vars, ~Crash, NEW m \in Messages, Pending(m)
    PROVE  Pending(m)' \/ Settled(m)' \/ Loses(m)
<1> USE DEF IInv
<1>1. ASSUME NEW r \in Requests, req[r].msg = m,
             req[r].pc \in {"react", "enqueue"}
      PROVE  Pending(m)' \/ Settled(m)' \/ Loses(m)
  <2>1. CASE React(r)
    BY <1>1, <2>1 DEF TypeOK, React, ReqGoto, ReqEnd, Pending, Settled
  <2>2. CASE Enqueue(r)
    <3>1. /\ Len(queue') = Len(queue) + 1
          /\ queue'[Len(queue) + 1] = [msg |-> m, bot |-> req[r].bot]
      BY <1>1, <2>2 DEF TypeOK, Enqueue
    <3>2. Len(queue) + 1 \in DOMAIN queue'
      BY <2>2, <3>1 DEF TypeOK, Enqueue, Job
    <3> QED
      BY <3>1, <3>2 DEF Pending
  <2>3. CASE AcceptFails(r)
    BY <1>1, <2>3 DEF Loses
  <2>4. CASE req'[r] = req[r]
    BY <1>1, <2>4 DEF Pending
  <2>5. ASSUME NEW q \in Requests, q # r,
               \/ RequestStep(q)
               \/ AcceptFails(q)
               \/ \E n \in Messages, b \in Bots : Receive(q, n, b)
        PROVE  req'[r] = req[r]
    BY <2>5 DEF TypeOK, RequestStep, Gate, MarkDuplicate, MarkNew, MarkSilent,
       React, Enqueue, AcceptFails, Receive, ReqGoto, ReqEnd
  <2>6. RequestStep(r) => React(r) \/ Enqueue(r)
    BY <1>1 DEF RequestStep, Gate, MarkDuplicate, MarkNew, MarkSilent
  <2>7. \A n \in Messages, b \in Bots : ~Receive(r, n, b)
    BY <1>1 DEF Receive
  <2>8. CASE UNCHANGED req
    BY <2>4, <2>8
  <2> QED
    BY <2>1, <2>2, <2>3, <2>4, <2>5, <2>6, <2>7, <2>8 DEF Next, vars,
       WorkerStep, WorkerFails, Take, Resolve, Place, Start, Trip, GoDark, Run,
       Answer, Touch, Excuse, Except, Close, ResolveFails, PlaceFails,
       TryFails, ExceptFails, CloseFails, Admin, SetEnabled, GrantTools,
       DeleteAgent, SessionChanges
<1>2. ASSUME NEW i \in DOMAIN queue, queue[i].msg = m
      PROVE  Pending(m)'
  <2>1. i \in 1..Len(queue) /\ Len(queue) \in Nat
    BY <1>2 DEF TypeOK
  <2>2. ASSUME NEW w \in Workers, Take(w) PROVE Pending(m)'
    <3>1. queue # <<>> /\ queue' = Tail(queue)
      BY <2>2 DEF Take
    <3>2. CASE i = 1
      <4>1. wk'[w].pc = "resolve" /\ wk'[w].job = Head(queue)
        BY <2>2 DEF TypeOK, Take, Idle
      <4> QED
        BY <1>2, <3>1, <3>2, <4>1, QueueParts DEF Pending, TurnPcs
    <3>3. CASE i # 1
      <4>1. /\ i - 1 \in 1..Len(Tail(queue))
            /\ Tail(queue)[i - 1] = queue[(i - 1) + 1]
        BY <2>1, <3>1, <3>3, QueueParts
      <4>2. i - 1 \in DOMAIN queue' /\ queue'[i - 1].msg = m
        BY <1>2, <2>1, <3>1, <4>1, QueueParts
      <4> QED
        BY <4>2 DEF Pending
    <3> QED
      BY <3>2, <3>3
  <2>3. ASSUME NEW r \in Requests, Enqueue(r) PROVE Pending(m)'
    <3>1. i \in DOMAIN queue' /\ queue'[i] = queue[i]
      BY <1>2, <2>3, <2>1 DEF TypeOK, Enqueue, Job
    <3> QED
      BY <1>2, <3>1 DEF Pending
  <2>4. CASE UNCHANGED queue
    BY <1>2, <2>4 DEF Pending
  <2> QED
    BY <2>2, <2>3, <2>4 DEF Next, vars, Receive, RequestStep, Gate,
       MarkDuplicate, MarkNew, MarkSilent, React, AcceptFails, WorkerStep,
       WorkerFails, Resolve, Place, Start, Trip, GoDark, Run, Answer, Touch,
       Excuse, Except, Close, ResolveFails, PlaceFails, TryFails, ExceptFails,
       CloseFails, Admin, SetEnabled, GrantTools, DeleteAgent, SessionChanges
<1>3. ASSUME NEW w \in Workers, wk[w].job.msg = m, wk[w].pc \in TurnPcs
      PROVE  Pending(m)' \/ Settled(m)' \/ Loses(m)
  <2>1. ASSUME NEW what \in {"answer", "error", "dark", "dropped"},
               Show(w, what)
        PROVE  Settled(m)'
    BY <1>3, <2>1 DEF TypeOK, Show, Settled
  <2>2. ASSUME NEW pc \in TurnPcs, Goto(w, pc) PROVE Pending(m)'
    BY <1>3, <2>2 DEF TypeOK, Goto, Pending
  <2>3. CASE ResolveFails(w) \/ PlaceFails(w) \/ ExceptFails(w)
    BY <1>3, <2>3 DEF Loses
  <2>4. CASE GoDark(w)
    BY <1>3, <2>1, <2>4 DEF GoDark, Loses
  <2>5. CASE Resolve(w)
    <3>1. CASE wk[w].job.bot \in rows \cup live
      <4>1. wk'[w].pc = "place" /\ wk'[w].job = wk[w].job
        BY <2>5, <3>1 DEF TypeOK, Resolve
      <4> QED
        BY <1>3, <4>1 DEF Pending, TurnPcs
    <3>2. CASE wk[w].job.bot \notin rows \cup live
      BY <2>1, <2>5, <3>2 DEF Resolve
    <3> QED
      BY <3>1, <3>2
  <2>6. CASE Touch(w)
    <3>1. Settled(m)
      BY <1>3, <2>6 DEF Touch, TouchAnswers
    <3> QED
      BY <3>1, SettledStays
  <2>7. CASE Answer(w) \/ Excuse(w) \/ Except(w)
    BY <2>1, <2>7 DEF Answer, Excuse, Except
  <2>8. CASE Place(w) \/ Start(w) \/ Trip(w) \/ Run(w) \/ TryFails(w)
    BY <2>2, <2>8 DEF Place, Start, Trip, Run, TryFails, TurnPcs
  <2>9. ~Take(w) /\ ~Close(w) /\ ~CloseFails(w)
    BY <1>3 DEF Take, Close, CloseFails, TurnPcs
  <2>10. CASE wk'[w] = wk[w]
    BY <1>3, <2>10 DEF Pending
  <2>11. CASE WorkerStep(w) \/ WorkerFails(w)
    BY <2>3, <2>4, <2>5, <2>6, <2>7, <2>8, <2>9, <2>11
       DEF WorkerStep, WorkerFails
  <2>12. ASSUME NEW v \in Workers, v # w, WorkerStep(v) \/ WorkerFails(v)
         PROVE  wk'[w] = wk[w]
    BY <2>12, WorkerMoves
  <2> QED
    BY <2>10, <2>11, <2>12 DEF Next, vars, Receive, RequestStep, Gate,
       MarkDuplicate, MarkNew, MarkSilent, React, Enqueue, AcceptFails, Admin,
       SetEnabled, GrantTools, DeleteAgent, SessionChanges
<1> QED
  BY <1>1, <1>2, <1>3 DEF Pending

\* Whatever deliveries, workers, administrators and failing calls interleave,
\* an accepted message is lost only by the failures no handler covers.
THEOREM OnlyFaultsLose == Spec => LostOnlyByFault
<1>1. ASSUME IInv, [Next]_vars, NEW m \in Messages, m \notin Lost, m \in Lost'
      PROVE  Loses(m)
  <2> USE <1>1 DEF IInv
  <2>1. m \in SeenIds' /\ ~Settled(m)' /\ ~Pending(m)'
    BY DEF Lost
  <2>2. ~Crash
    BY <2>1 DEF Crash, SeenIds
  <2>3. ASSUME NEW r \in Requests, MarkNew(r), m \notin SeenIds
        PROVE  FALSE
    <3>1. req[r].msg \in Messages /\ req[r].bot \in Bots
      BY <2>3 DEF Carried, RequestsKnow, MarkNew
    <3>2. m = req[r].msg
      BY <2>1, <2>3, <3>1, SeenGrows DEF MarkNew
    <3>3. req'[r].msg = m /\ req'[r].pc = "react"
      BY <2>3, <3>2 DEF TypeOK, MarkNew, ReqGoto
    <3> QED
      BY <2>1, <3>3 DEF Pending
  <2>4. ASSUME NEW r \in Requests, MarkSilent(r), m \notin SeenIds
        PROVE  FALSE
    <3>1. req[r].msg \in Messages /\ req[r].bot \in Bots
      BY <2>4 DEF Carried, RequestsKnow, MarkSilent
    <3>2. m = req[r].msg
      BY <2>1, <2>4, <3>1, SeenGrows DEF MarkSilent
    <3> QED
      BY <2>1, <2>4, <3>2 DEF TypeOK, MarkSilent, Settled
  <2>5. m \in SeenIds \/ ~UNCHANGED seen
    BY <2>1 DEF SeenIds
  <2>6. m \in SeenIds
    BY <2>2, <2>3, <2>4, <2>5 DEF Next, vars, Receive, RequestStep, Gate,
       MarkDuplicate, React, Enqueue, AcceptFails, WorkerStep, WorkerFails,
       Take, Resolve, Place, Start, Trip, GoDark, Run, Answer, Touch, Excuse,
       Except, Close, ResolveFails, PlaceFails, TryFails, ExceptFails,
       CloseFails, Admin, SetEnabled, GrantTools, DeleteAgent, SessionChanges
  <2>7. CASE Settled(m)
    BY <2>1, <2>2, <2>7, SettledStays
  <2>8. CASE Pending(m)
    BY <2>1, <2>2, <2>8, HandedOn
  <2> QED
    BY <2>6, <2>7, <2>8 DEF Lost
<1>2. IInv /\ [Next]_vars =>
        [\A m \in Messages : m \notin Lost /\ m \in Lost' => Loses(m)]_vars
  BY <1>1
<1> QED
  BY <1>2, Invariance, PTL DEF Spec, LostOnlyByFault

\* A step of the queue is a step of the ledger, or none.
LEMMA LedgerStep ==
    IInv /\ [Next]_vars => [Ledger!Next]_<<SeenIds, Begun, Ended>>
<1> SUFFICES ASSUME IInv, [Next]_vars
             PROVE  [Ledger!Next]_<<SeenIds, Begun, Ended>>
  OBVIOUS
<1> USE DEF IInv, Carried
<1> DEFINE Still == UNCHANGED <<SeenIds, Begun, Ended>>
<1>1. UNCHANGED <<seen, outcome>> => Still
  BY DEF SeenIds, Begun, Ended
<1>2. ASSUME NEW r \in Requests, MarkNew(r) \/ MarkSilent(r)
      PROVE  \E m \in Messages : Ledger!Claim(m)
  <2>1. /\ req[r].msg \in Messages /\ req[r].bot \in Bots
        /\ req[r].msg \notin SeenIds
    BY <1>2 DEF RequestsKnow, MarkNew, MarkSilent
  <2>2. SeenIds' = SeenIds \cup {req[r].msg}
    BY <1>2, <2>1, SeenGrows DEF MarkNew, MarkSilent
  <2>3. outcome[req[r].msg] = "none"
    BY <2>1 DEF UnseenIsNew
  <2>4. Begun' = Begun /\ Ended' = Ended
    BY <1>2, <2>1, <2>3 DEF TypeOK, MarkNew, MarkSilent, Begun, Ended
  <2> QED
    BY <2>1, <2>2, <2>4 DEF Ledger!Claim
<1>3. ASSUME NEW r \in Requests, React(r)
      PROVE  Still
  <2>1. req[r].msg \in Messages /\ outcome[req[r].msg] = "none"
    BY <1>3 DEF RequestsKnow, React, Accepting, Fresh
  <2>2. Begun' = Begun /\ Ended' = Ended
    BY <1>3, <2>1 DEF TypeOK, React, Begun, Ended
  <2> QED
    BY <1>3, <2>2 DEF React, SeenIds
<1>4. ASSUME NEW w \in Workers, Resolve(w)
      PROVE  Still
  <2>1. wk[w].job.msg \in Messages /\ outcome[wk[w].job.msg] = "none"
    BY <1>4 DEF WorkersKnow, Resolve, Early, Job, Fresh
  <2>2. Begun' = Begun /\ Ended' = Ended
    BY <1>4, <2>1 DEF TypeOK, Resolve, Show, Begun, Ended
  <2> QED
    BY <1>4, <2>2 DEF Resolve, SeenIds
<1>5. ASSUME NEW w \in Workers, Place(w)
      PROVE  \E m \in Messages : Ledger!Begin(m)
  <2> DEFINE m == wk[w].job.msg
  <2>1. m \in Messages /\ m \in SeenIds /\ outcome[m] = "none"
    BY <1>5 DEF WorkersKnow, Place, Early, Job, Fresh
  <2>2. outcome' = [outcome EXCEPT ![m] = "spinner"]
    BY <1>5 DEF Place, Show
  <2>3. Begun' = Begun \cup {m} /\ Ended' = Ended /\ m \notin Begun
    BY <2>1, <2>2 DEF TypeOK, Begun, Ended
  <2> QED
    BY <1>5, <2>1, <2>3 DEF Place, SeenIds, Ledger!Begin
<1>6. ASSUME NEW w \in Workers,
             GoDark(w) \/ Answer(w) \/ Excuse(w) \/ Except(w)
      PROVE  Still \/ \E m \in Messages : Ledger!End(m)
  <2> DEFINE m == wk[w].job.msg
  <2>1. m \in Messages /\ m \in Begun
    BY <1>6 DEF WorkersKnow, GoDark, Answer, Excuse, Except, Late, Begun
  <2>2. SeenIds' = SeenIds
    BY <1>6 DEF GoDark, Answer, Excuse, Except, SeenIds
  <2>3. CASE UNCHANGED outcome
    BY <1>6, <2>2, <2>3 DEF Begun, Ended
  <2>4. ASSUME NEW what \in {"answer", "error", "dark"}, Show(w, what)
        PROVE  Still \/ \E n \in Messages : Ledger!End(n)
    <3>1. Begun' = Begun
      BY <2>1, <2>4 DEF TypeOK, Show, Begun
    <3>2. Ended' = Ended \cup {m}
      BY <2>1, <2>4 DEF TypeOK, Show, Begun, Ended
    <3> QED
      BY <2>1, <2>2, <3>1, <3>2 DEF Ledger!End
  <2> QED
    BY <1>6, <2>3, <2>4 DEF GoDark, Answer, Excuse, Except
<1>7. CASE Crash
  <2>1. SeenIds' = {}
    BY <1>7 DEF Crash, SeenIds
  <2>2. Begun' = {} /\ Ended' = {}
    BY <1>7 DEF Crash, Begun, Ended
  <2> QED
    BY <2>1, <2>2 DEF Ledger!Next, Ledger!Restart
<1>8. CASE UNCHANGED <<seen, outcome>>
  BY <1>1, <1>8
<1> QED
  BY <1>2, <1>3, <1>4, <1>5, <1>6, <1>7, <1>8 DEF Next, vars, Receive,
     RequestStep, Gate, MarkDuplicate, Enqueue, AcceptFails, WorkerStep,
     WorkerFails, Take, Start, Trip, Run, Touch, Close, ResolveFails,
     PlaceFails, TryFails, ExceptFails, CloseFails, Admin, SetEnabled,
     GrantTools, DeleteAgent, SessionChanges, db, Ledger!Next, Ledger!vars

\* However deliveries repeat and race and whatever fails, a message is
\* accepted at most once in the life of a process, only an accepted message
\* gets a turn, and its turn begins and ends at most once.
THEOREM TurnLedgerImplemented == Spec => ImplementsLedger
<1>1. Init => Ledger!Init
  BY DEF Init, Ledger!Init, SeenIds, Begun, Ended
<1>2. IInv /\ [Next]_vars => [Ledger!Next]_(Ledger!vars)
  BY LedgerStep DEF Ledger!vars
<1> QED
  BY <1>1, <1>2, Invariance, PTL DEF Spec, ImplementsLedger, Ledger!Spec

-----------------------------------------------------------------------------
(* The bastion gate.                                                       *)

\* A request or job that is a bastion's has a sender without an AgentRow.
LetIn(j) == j.bot \in Bastions => Sender[j.msg] \notin rows

Past == {"mark", "silent", "react", "enqueue"}

\* Whatever is past the gate was let in, and no row comes back.
GatePassed ==
    /\ \A r \in Requests : req[r].pc \in Past => LetIn(req[r])
    /\ \A i \in 1..Len(queue) : LetIn(queue[i])
    /\ \A w \in Workers : LetIn(wk[w].job)

\* No step of a request but the gate's takes it past the gate.
LEMMA GateRequest ==
    ASSUME TypeOK, GatePassed, NEW r \in Requests,
           RequestStep(r) \/ AcceptFails(r)
    PROVE  GatePassed'
<1> USE DEF GatePassed, LetIn
<1>1. rows' = rows /\ wk' = wk
  BY DEF RequestStep, Gate, MarkDuplicate, MarkNew, MarkSilent, React, Enqueue,
     AcceptFails, db
<1>2. \A x \in Requests : x # r => req'[x] = req[x]
  BY DEF TypeOK, RequestStep, Gate, MarkDuplicate, MarkNew, MarkSilent, React,
     Enqueue, AcceptFails, ReqGoto, ReqEnd
<1>3. CASE ReqEnd(r) /\ queue' = queue
  <2>1. req'[r].pc = "idle"
    BY <1>3 DEF TypeOK, ReqEnd, NoRequest
  <2> QED
    BY <1>1, <1>2, <1>3, <2>1 DEF Past
<1>4. ASSUME NEW pc \in {"mark", "react", "enqueue"}, ReqGoto(r, pc),
             queue' = queue,
             req[r].pc \in Past \/ Sender[req[r].msg] \notin rows
      PROVE  GatePassed'
  <2>1. req'[r].msg = req[r].msg /\ req'[r].bot = req[r].bot
    BY <1>4 DEF TypeOK, ReqGoto
  <2>2. LetIn(req[r])
    BY <1>4
  <2> QED
    BY <1>1, <1>2, <1>4, <2>1, <2>2
<1>5. CASE Enqueue(r)
  <2>1. req'[r].pc = "idle"
    BY <1>5 DEF TypeOK, Enqueue, ReqEnd, NoRequest
  <2>2. queue' = Append(queue, [msg |-> req[r].msg, bot |-> req[r].bot])
    BY <1>5 DEF Enqueue
  <2>3. \A i \in 1..Len(queue') :
            \/ i \in 1..Len(queue) /\ queue'[i] = queue[i]
            \/ queue'[i] = [msg |-> req[r].msg, bot |-> req[r].bot]
    BY <2>2 DEF TypeOK
  <2>4. LetIn(req[r])
    BY <1>5 DEF Enqueue, Past
  <2> QED
    BY <1>1, <1>2, <2>1, <2>3, <2>4 DEF Past
<1> QED
  BY <1>3, <1>4, <1>5 DEF RequestStep, Gate, MarkDuplicate, MarkNew,
     MarkSilent, React, AcceptFails, Past

\* A worker that resolves its job goes on with it, or is idle again.
LEMMA ResolvedWorker ==
    ASSUME TypeOK, NEW w \in Workers, Resolve(w)
    PROVE  /\ \A x \in Workers : x # w => wk'[x] = wk[x]
           /\ wk'[w].pc \in {"place", "idle"}
           /\ wk'[w].job \in {wk[w].job, NoJob}
<1>1. PICK x \in {"baseline", "more"} :
        \/ wk' = [wk EXCEPT ![w].pc = "place", ![w].tools = x]
        \/ wk' = [wk EXCEPT ![w] = Idle]
  BY DEF Resolve
<1>2. CASE wk' = [wk EXCEPT ![w].pc = "place", ![w].tools = x]
  BY <1>2 DEF TypeOK
<1>3. CASE wk' = [wk EXCEPT ![w] = Idle]
  BY <1>3 DEF TypeOK, Idle
<1> QED
  BY <1>1, <1>2, <1>3

\* A worker's job is the queue's or the one it had.
LEMMA GateWorker ==
    ASSUME TypeOK, GatePassed, NEW w \in Workers,
           WorkerStep(w) \/ WorkerFails(w)
    PROVE  GatePassed'
<1> USE DEF GatePassed, LetIn
<1>1. rows' = rows /\ req' = req
  BY DEF WorkerStep, WorkerFails, Take, Resolve, Place, Start, Trip, GoDark,
     Run, Answer, Touch, Excuse, Except, Close, ResolveFails, PlaceFails,
     TryFails, ExceptFails, CloseFails, db
<1>2. CASE Take(w)
  <2>1. /\ \A x \in Workers : x # w => wk'[x] = wk[x]
        /\ wk'[w].job = Head(queue)
        /\ queue' = Tail(queue)
    BY <1>2 DEF TypeOK, Take, Idle
  <2>2. /\ 1 \in 1..Len(queue)
        /\ Head(queue) = queue[1]
        /\ \A i \in 1..Len(Tail(queue)) :
               i + 1 \in 1..Len(queue) /\ Tail(queue)[i] = queue[i + 1]
    BY <1>2, QueueParts DEF Take
  <2>3. \A i \in 1..Len(queue') : LetIn(queue'[i])
    BY <2>1, <2>2
  <2>4. \A x \in Workers : LetIn(wk'[x].job)
    BY <2>1, <2>2
  <2> QED
    BY <1>1, <2>3, <2>4
<1>3. CASE ~Take(w)
  <2>1. queue' = queue
    BY <1>3 DEF WorkerStep, WorkerFails, Resolve, Place, Start, Trip, GoDark,
       Run, Answer, Touch, Excuse, Except, Close, ResolveFails, PlaceFails,
       TryFails, ExceptFails, CloseFails
  <2>2. \A x \in Workers : wk'[x].job \in {wk[x].job, NoJob}
    <3>1. ASSUME NEW pc, Goto(w, pc)
          PROVE  \A x \in Workers : wk'[x].job = wk[x].job
      BY <3>1 DEF TypeOK, Goto
    <3>2. CASE Resolve(w)
      BY <3>2, ResolvedWorker
    <3>3. CASE Close(w)
      BY <3>3 DEF TypeOK, Close, Idle
    <3> QED
      BY <1>3, <3>1, <3>2, <3>3 DEF WorkerStep, WorkerFails, Place, Start,
         Trip, GoDark, Run, Answer, Touch, Excuse, Except, ResolveFails,
         PlaceFails, TryFails, ExceptFails, CloseFails
  <2>3. NoJob.bot \notin Bastions
    BY BotKinds DEF NoJob, Bots
  <2> QED
    BY <1>1, <2>1, <2>2, <2>3
<1> QED
  BY <1>2, <1>3

\* No step lets a bot past a bastion's gate, nor gives one its row back.
LEMMA GateInductive ==
    IInv /\ GatePassed /\ [Next]_vars => GatePassed'
<1> SUFFICES ASSUME IInv, GatePassed, [Next]_vars PROVE GatePassed'
  OBVIOUS
<1> USE DEF IInv, GatePassed, LetIn
<1>1. ASSUME NEW r \in Requests, NEW m \in Messages, NEW b \in Bots,
             Receive(r, m, b)
      PROVE  GatePassed'
  <2>1. \A x \in Requests : x # r => req'[x] = req[x]
    BY <1>1 DEF TypeOK, Receive
  <2>2. req'[r].pc \in Past => req'[r].bot \notin Bastions
    BY <1>1, BotKinds DEF TypeOK, Receive, Past
  <2> QED
    BY <1>1, <2>1, <2>2 DEF Receive, db
<1>2. CASE Admin \/ UNCHANGED vars
  <2>1. rows' \subseteq rows /\ UNCHANGED <<req, queue, wk>>
    BY <1>2 DEF Admin, SetEnabled, GrantTools, DeleteAgent, SessionChanges,
       vars, db
  <2> QED
    BY <2>1
<1>3. CASE Crash
  BY <1>3, BotKinds DEF Crash, NoRequest, Idle, NoJob, Past, Bots
<1> QED
  BY <1>1, <1>2, <1>3, GateRequest, GateWorker DEF Next

\* What the gate can promise: a bastion's turn, from the queue to its end, is
\* for a sender that has no AgentRow, whoever writes, races or is deleted.  A
\* human has none, nor has a bot of the pool.
THEOREM GateHolds == Spec => []GatePassed
<1>1. Init => GatePassed
  BY BotKinds DEF Init, GatePassed, LetIn, NoRequest, Idle, NoJob, Past, Bots
<1> QED
  BY <1>1, GateInductive, Invariance, PTL DEF Spec

-----------------------------------------------------------------------------
(* What kills a worker.                                                    *)

\* Only a database read, a placeholder, an edit in a handler or the client's
\* close that fails ends a worker: where those four hold, no turn, however it
\* ends, and no failing registry or delivery costs one.
THEOREM WorkersOutliveTurns ==
    ASSUME Faults \cap {"store", "post", "edit", "close"} = {}
    PROVE  Spec => []WorkersSurvive
<1>1. Init => WorkersSurvive
  BY DEF Init, WorkersSurvive, Idle
<1>2. IInv /\ WorkersSurvive /\ [Next]_vars => WorkersSurvive'
  <2> SUFFICES ASSUME IInv, WorkersSurvive, [Next]_vars
               PROVE  WorkersSurvive'
    OBVIOUS
  <2> USE DEF IInv, WorkersSurvive
  <2>1. ASSUME NEW w \in Workers, NEW pc \in WorkerPcs \ {"dying", "dead"},
               Goto(w, pc)
        PROVE  WorkersSurvive'
    BY <2>1 DEF TypeOK, Goto
  <2>2. ASSUME NEW w \in Workers, Take(w)
        PROVE  WorkersSurvive'
    BY <2>2 DEF TypeOK, Take, Idle
  <2>3. ASSUME NEW w \in Workers, Resolve(w)
        PROVE  WorkersSurvive'
    BY <2>3, ResolvedWorker
  <2>4. ASSUME NEW w \in Workers, Close(w)
        PROVE  WorkersSurvive'
    BY <2>4 DEF TypeOK, Close, Idle
  <2>5. ASSUME NEW w \in Workers, WorkerStep(w) \/ WorkerFails(w)
        PROVE  WorkersSurvive'
    BY <2>1, <2>2, <2>3, <2>4, <2>5 DEF WorkerPcs, WorkerStep, WorkerFails,
       Place, Start, Trip, GoDark, Run, Answer, Touch, Excuse, Except,
       ResolveFails, PlaceFails, TryFails, ExceptFails, CloseFails
  <2>6. CASE Crash
    BY <2>6 DEF Crash, Idle
  <2>7. CASE UNCHANGED wk
    BY <2>7
  <2> QED
    BY <2>5, <2>6, <2>7 DEF Next, Receive, RequestStep, Gate, MarkDuplicate,
       MarkNew, MarkSilent, React, Enqueue, AcceptFails, Admin, SetEnabled,
       GrantTools, DeleteAgent, SessionChanges, vars
<1> QED
  BY <1>1, <1>2, Invariance, PTL DEF Spec

=============================================================================
