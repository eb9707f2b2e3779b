---------------------------- MODULE MCTurnQueue -----------------------------
(* Small instances of TurnQueue: a flagged agent, the bastion and a pool    *)
(* bot, which of them the messages mention and who wrote those.             *)
EXTENDS TurnQueue

CONSTANTS m1, m2, claw, bastion, pool1, r1, r2, w1, w2

TwoMessages == {m1, m2}
TwoAgents == {claw, bastion}
OnePoolBot == {pool1}
OneBastion == {bastion}
OneFlagged == {claw}
NoBots == {}

\* Each message mentions one bot; or the first mentions two and the second the
\* bastion.
OneEach == {<<m1, claw>>, <<m2, pool1>>}
TwoEach == {<<m1, claw>>, <<m1, pool1>>, <<m2, bastion>>}
ToBastion == {<<m1, claw>>, <<m2, bastion>>}

\* Humans write; or the second message is the flagged agent's, or a pool bot's.
HumansWrite == [m \in Messages |-> None]
ClawWrites == [m \in Messages |-> IF m = m2 THEN claw ELSE None]
PoolBotWrites == [m \in Messages |-> IF m = m2 THEN pool1 ELSE None]

NoMessages == {}
OneRequest == {r1}
TwoRequests == {r1, r2}
OneWorker == {w1}
TwoWorkers == {w1, w2}

=============================================================================
