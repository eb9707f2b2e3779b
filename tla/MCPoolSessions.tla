--------------------------- MODULE MCPoolSessions ---------------------------
(* Small instances of PoolSessions.  Ids, bots, workers and topics are only *)
(* compared for equality, so each set's permutations are symmetries.        *)
EXTENDS PoolSessions, TLC

CONSTANTS t1, t2, b1, b2, s1, s2, s3, w1, w2, h1

OneTopic == {t1}
TwoTopics == {t1, t2}
OneBot == {b1}
TwoBots == {b1, b2}
TwoSessions == {s1, s2}
ThreeSessions == {s1, s2, s3}
OneWorker == {w1}
TwoWorkers == {w1, w2}
OneHook == {h1}
NoHooks == {}

Symmetry == Permutations(Topics) \cup Permutations(Bots)
              \cup Permutations(Sessions) \cup Permutations(Workers)
=============================================================================
