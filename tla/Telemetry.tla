------------------------------ MODULE Telemetry -------------------------------
(***************************************************************************)
(* The events of one turn: stamped with a sequence number, committed to    *)
(* the audit log, offered to the live subscribers and turned into spans.   *)
(* The turn and the tool calls a Codex child makes over the bridge emit    *)
(* concurrently; only the audit log's transaction is awaited.              *)
(***************************************************************************)
EXTENDS Naturals, Sequences, FiniteSets

CONSTANTS Senders,    \* the tasks that emit: the turn and bridged tool calls
          Turn,       \* the turn's own task
          QueueSize,  \* the live subscriber's queue
          MaxEvents   \* bound: events sent

VARIABLES phase,     \* of the turn: "ready", "running", "ended"
          seq,       \* the emitter's counter
          sending,   \* per sender, the event in the fan-out
          sent,      \* how many events have been sent (history)
          audit,     \* the audit log: events with their sequence numbers
          live,      \* per event, what became of it on the live bus (history)
          queue,     \* the queue of a subscriber of GET /observability/live
          listening, \* whether it has subscribed
          span       \* the turn's span

vars == <<phase, seq, sending, sent, audit, live, queue, listening, span>>

Kinds == {"turn.start", "turn.end", "tool.call", "error"}
Ids == 1..MaxEvents
Nothing == [at |-> "idle", n |-> 0, seq |-> 0, kind |-> "error"]

Init == /\ phase = "ready" /\ seq = 0 /\ sent = 0
        /\ sending = [s \in Senders |-> Nothing]
        /\ audit = {} /\ live = [n \in Ids |-> "none"]
        /\ queue = <<>> /\ listening = FALSE /\ span = "none"

\* The counter moves on as the event is stamped, before the first await.
Stamp == seq + 1

\* EventEmitter._send: what a task sends depends on the turn; a bridged call
\* can outlive it.
MaySend(s, kind) == CASE kind = "turn.start" -> s = Turn /\ phase = "ready"
                      [] kind = "tool.call" -> phase # "ready"
                      [] OTHER -> s = Turn /\ phase = "running"
Send(s, kind) ==
  /\ sending[s].at = "idle" /\ sent < MaxEvents /\ MaySend(s, kind)
  /\ phase' = CASE kind = "turn.start" -> "running"
                [] kind = "turn.end" -> "ended"
                [] OTHER -> phase
  /\ sent' = sent + 1 /\ seq' = Stamp
  /\ sending' = [sending EXCEPT ![s] = [at |-> "audit", n |-> sent + 1,
                                        seq |-> seq, kind |-> kind]]
  /\ UNCHANGED <<audit, live, queue, listening, span>>

\* (fault) A failing audit sink ends the fan-out.
AfterFailureEnd(e) == Nothing

\* MultiSink logs a sink's failure and goes on with the next sink.
AfterFailure(e) == [e EXCEPT !.at = "live"]

\* AuditSink.emit commits in its own transaction, which may fail.
Audit(s) ==
  /\ sending[s].at = "audit"
  /\ \/ /\ audit' = audit \cup {[n |-> sending[s].n, seq |-> sending[s].seq]}
        /\ sending' = [sending EXCEPT ![s].at = "live"]
     \/ /\ sending' = [sending EXCEPT ![s] = AfterFailure(@)]
        /\ UNCHANGED audit
  /\ UNCHANGED <<phase, seq, sent, live, queue, listening, span>>

\* The turn's timeout cancels its tool call in the transaction: that is no
\* Exception, and the other sinks are skipped.
Cancel == /\ sending[Turn].at = "audit" /\ sending[Turn].kind = "tool.call"
          /\ live' = [live EXCEPT ![sending[Turn].n] = "cancelled"]
          /\ sending' = [sending EXCEPT ![Turn] = Nothing]
          /\ UNCHANGED <<phase, seq, sent, audit, queue, listening, span>>

\* OTelSink.emit: the turn's span opens and closes with it.
SpanAfter(kind) == CASE kind = "turn.start" -> "open"
                     [] kind = "turn.end" -> "closed"
                     [] OTHER -> span

\* LiveBus.publish, then the spans' sink; neither awaits anything. A subscriber
\* with a full queue misses the event.
Publish(s) ==
  /\ sending[s].at = "live"
  /\ LET n == sending[s].n
         dropped == listening /\ Len(queue) >= QueueSize
     IN /\ live' = [live EXCEPT ![n] = IF dropped THEN "dropped"
                                                  ELSE "published"]
        /\ queue' = IF listening /\ ~dropped THEN Append(queue, n) ELSE queue
  /\ span' = SpanAfter(sending[s].kind)
  /\ sending' = [sending EXCEPT ![s] = Nothing]
  /\ UNCHANGED <<phase, seq, sent, audit, listening>>

\* A client opens the stream, takes an event, or goes.
Subscribe == /\ ~listening /\ listening' = TRUE /\ queue' = <<>>
             /\ UNCHANGED <<phase, seq, sending, sent, audit, live, span>>
TakeEvent == /\ queue # <<>> /\ queue' = Tail(queue)
             /\ UNCHANGED <<phase, seq, sending, sent, audit, live, listening,
                            span>>
Leave == /\ listening /\ listening' = FALSE /\ queue' = <<>>
         /\ UNCHANGED <<phase, seq, sending, sent, audit, live, span>>

Next == \/ \E s \in Senders : \/ \E kind \in Kinds : Send(s, kind)
                              \/ Audit(s) \/ Publish(s)
        \/ Cancel \/ Subscribe \/ TakeEvent \/ Leave
Spec == Init /\ [][Next]_vars

-------------------------------------------------------------------------------
\* The type invariant.
TypeOK == /\ phase \in {"ready", "running", "ended"}
          /\ seq \in 0..MaxEvents /\ sent \in 0..MaxEvents
          /\ \A s \in Senders : sending[s].at \in {"idle", "audit", "live"}
          /\ \A e \in audit : e.n \in Ids /\ e.seq \in 0..MaxEvents
          /\ live \in [Ids -> {"none", "published", "dropped", "cancelled"}]
          /\ queue \in Seq(Ids) /\ Len(queue) <= QueueSize
          /\ listening \in BOOLEAN /\ span \in {"none", "open", "closed"}

\* Two events of a turn never have the same sequence number, however the
\* turn's and the bridge's emissions interleave (events.py:41).
UniqueSeq == \A e \in audit, f \in audit : e.seq = f.seq => e.n = f.n

\* An event whose emission is over has reached the live bus, even if the audit
\* log refused it, unless its task was cancelled (sink.py:27-29).
Delivered == \A n \in 1..sent : live[n] = "none" =>
               \E s \in Senders : sending[s].n = n

\* The turn's span is closed by the turn's end and stays so, even if the audit
\* log refused that event and bridged calls still arrive.  A turn whose report
\* of an error fails in its turn sends no end, and its span stays open
\* (job_queue.py:278-282).
SpanCloses == (phase = "ended" /\ sending[Turn].at = "idle")
              => span = "closed"

\* However the turn's and the bridge's emissions interleave, fail or are
\* cancelled, no event is lost to a sink that follows the audit log and no two
\* in the audit log have one number.
FanOutComplete == UniqueSeq /\ Delivered /\ SpanCloses
===============================================================================
