----------------------------- MODULE TurnLedger -----------------------------
(***************************************************************************)
(* What one life of the control plane promises about a chat message, with  *)
(* nothing of requests, queue or workers: a message is claimed at most     *)
(* once, only a claimed message gets a turn, it gets one turn, and a turn  *)
(* that has ended does not begin again.  A restart forgets it all.         *)
(***************************************************************************)
CONSTANT Messages

VARIABLES claimed, begun, ended

vars == <<claimed, begun, ended>>

Init ==
    /\ claimed = {}
    /\ begun = {}
    /\ ended = {}

Claim(m) ==
    /\ m \notin claimed
    /\ claimed' = claimed \cup {m}
    /\ UNCHANGED <<begun, ended>>

Begin(m) ==
    /\ m \in claimed \ begun
    /\ begun' = begun \cup {m}
    /\ UNCHANGED <<claimed, ended>>

End(m) ==
    /\ m \in begun \ ended
    /\ ended' = ended \cup {m}
    /\ UNCHANGED <<claimed, begun>>

Restart ==
    /\ claimed' = {}
    /\ begun' = {}
    /\ ended' = {}

Next ==
    \/ \E m \in Messages : Claim(m) \/ Begin(m) \/ End(m)
    \/ Restart

Spec == Init /\ [][Next]_vars

=============================================================================
