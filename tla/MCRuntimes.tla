------------------------------ MODULE MCRuntimes ------------------------------
(* Each part of a turn on a small instance. *)
EXTENDS Runtimes, TLC

CONSTANTS t1, t2, t3, k1, k2

Workspace == t1 :> "w1" @@ t2 :> "w1" @@ t3 :> "w2"
SkillsOf == t1 :> {k1} @@ t2 :> {k2} @@ t3 :> {k1, k2}
Place == "p" :> "c1" @@ "q" :> "c2"
\* The names of two archetypes read alike in the store.
Charset == [n \in {"w", "r", "p", "q", "c1", "c2", "all"} |-> n]
           @@ "x y" :> "x-y" @@ "x.y" :> "x-y"
Keyed == "e1" :> "p" @@ "e2" :> "p" @@ "e3" :> "q"
===============================================================================
