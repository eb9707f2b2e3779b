-------------------------- MODULE SubmissionLedger --------------------------
(***************************************************************************)
(* What an interactive artifact promises: one submission wins, for good,   *)
(* and the agent that made the form is resumed for it once at most.        *)
(***************************************************************************)
EXTENDS Naturals

CONSTANTS Ids, None

VARIABLES
    won,        \* the submission that was accepted, or None
    resumed     \* turns enqueued for its creator

vars == <<won, resumed>>

Init == won = None /\ resumed = 0

Win ==
    /\ won = None
    /\ won' \in Ids
    /\ UNCHANGED resumed

Resume ==
    /\ won # None
    /\ resumed = 0
    /\ resumed' = 1
    /\ UNCHANGED won

Next == Win \/ Resume

Spec == Init /\ [][Next]_vars

=============================================================================
