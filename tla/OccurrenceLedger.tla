-------------------------- MODULE OccurrenceLedger --------------------------
(***************************************************************************)
(* What the scheduler promises of the occurrences of its schedules: each   *)
(* is spent at most once, and one that is spent becomes one turn or none.  *)
(***************************************************************************)
EXTENDS Naturals, Sequences

CONSTANTS Jobs, Times

VARIABLES
    spent,      \* occurrences that were claimed
    open,       \* those whose turn is still to be enqueued
    turns       \* those whose turn was enqueued, in order

vars == <<spent, open, turns>>

Occurrences == Jobs \X Times

Init == spent = {} /\ open = {} /\ turns = <<>>

\* One tick claims a batch of occurrences, none of them for the second time.
Spend ==
    /\ spent \subseteq spent'
    /\ spent' \subseteq Occurrences
    /\ open' = open \cup (spent' \ spent)
    /\ spent' # spent
    /\ UNCHANGED turns

Turn ==
    \E o \in open :
        /\ open' = open \ {o}
        /\ turns' = Append(turns, o)
        /\ UNCHANGED spent

\* A failure or the end of the process.
Drop ==
    /\ open' \subseteq open
    /\ UNCHANGED <<spent, turns>>

Next == Spend \/ Turn \/ Drop

Spec == Init /\ [][Next]_vars

=============================================================================
