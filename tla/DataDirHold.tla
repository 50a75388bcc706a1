------------------------------ MODULE DataDirHold ------------------------------
(***************************************************************************)
(* What the data folder's lock promises: a change works in the folder      *)
(* where it is, any number of them at once, and the folder moves only      *)
(* while none does, under one holder that keeps every other out.           *)
(***************************************************************************)

CONSTANTS Places, Changes, Movers, None

VARIABLES
    place,      \* where the data folder is
    inside,     \* where each running change works
    alone       \* the move, or the recovery, that holds the lock alone

vars == <<place, inside, alone>>

Idle == [c \in Changes |-> None]

Init == place \in Places /\ inside = Idle /\ alone = None

Enter(c) ==
    /\ alone = None
    /\ inside[c] = None
    /\ inside' = [inside EXCEPT ![c] = place]
    /\ UNCHANGED <<place, alone>>

\* One change ends, or all those of a process that died, its move with them.
Leave ==
    /\ \E gone \in SUBSET Changes :
         inside' = [c \in Changes |-> IF c \in gone THEN None ELSE inside[c]]
    /\ alone' \in {alone, None}
    /\ UNCHANGED place

Seize(m) ==
    /\ alone = None /\ inside = Idle
    /\ alone' = m
    /\ UNCHANGED <<place, inside>>

Relocate ==
    /\ alone # None
    /\ place' \in Places
    /\ UNCHANGED <<inside, alone>>

Next ==
    \/ \E c \in Changes : Enter(c)
    \/ \E m \in Movers : Seize(m)
    \/ Leave \/ Relocate

Spec == Init /\ [][Next]_vars

================================================================================
