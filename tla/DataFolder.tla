------------------------------- MODULE DataFolder -------------------------------
(***************************************************************************)
(* What the data folder promises the rest of sm: one data dir, at one      *)
(* place, holding every write a store took.  It changes place only while   *)
(* closed, a time in which no write is accepted, and opens with what every *)
(* worktree keeps under the ids of the place it is at.                     *)
(***************************************************************************)
EXTENDS Naturals

CONSTANTS Places, Worktrees

VARIABLES place, writes, open, keptAt

vars == <<place, writes, open, keptAt>>

Consistent == keptAt = [w \in Worktrees |-> place]

Init ==
    /\ place \in Places
    /\ writes = 0
    /\ open = TRUE
    /\ Consistent

\* A change of the store, accepted.
Accept == open /\ writes' = writes + 1 /\ UNCHANGED <<place, open, keptAt>>

Close == open /\ open' = FALSE /\ UNCHANGED <<place, writes, keptAt>>

\* A worktree's rows carried to another id.
Carry ==
    /\ ~open
    /\ keptAt' \in [Worktrees -> Places]
    /\ UNCHANGED <<place, writes, open>>

Relocate == ~open /\ place' \in Places /\ UNCHANGED <<writes, open, keptAt>>

Reopen ==
    /\ ~open
    /\ Consistent
    /\ open' = TRUE
    /\ UNCHANGED <<place, writes, keptAt>>

Next == Accept \/ Close \/ Carry \/ Relocate \/ Reopen

Spec == Init /\ [][Next]_vars

================================================================================
