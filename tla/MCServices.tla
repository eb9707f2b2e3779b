------------------------------ MODULE MCServices ------------------------------
(* Each service on a small instance. *)
EXTENDS Services, TLC

CONSTANTS j1, j2, l1, l2, c1, c2, r1, r2, i1, i2, a1, a2, s1, s2

\* "cl" is a part of both names of agents, and one of them of the other.
Contained == {<<n, n>> : n \in {"cl", "claw", "claw2", "boss", "chief"}}
             \cup {<<"claw", "claw2">>, <<"cl", "claw">>, <<"cl", "claw2">>}
===============================================================================
