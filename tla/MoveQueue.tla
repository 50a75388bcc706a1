------------------------------- MODULE MoveQueue -------------------------------
(* The moves waiting on another device (app/host/lib/sync/MoveQueue.ts), each  *)
(* run once that device takes this one's calls, one for each source, and lost  *)
(* with the process. What a run does is Transfer's: here it goes on, and ends. *)
EXTENDS Naturals, Sequences

CONSTANTS
    Sources,        \* the worktrees moves are queued of
    Devices,        \* the devices they wait on
    Nobody,         \* no entry, no run, no holder of the lock
    MaxQueued, MaxComings

ASSUME QueueAssumption ==
    /\ Nobody \notin Sources \cup Devices /\ Nobody \notin Nat
    /\ MaxQueued \in Nat /\ MaxComings \in Nat

VARIABLES
    held,           \* the entry of each source
    runs,           \* the number of the entry each source's fiber runs
    stopped,        \* the sources whose run was interrupted, and left its entry as it is
    lock,           \* what holds the queue's one permit while it waits
    admitted,       \* the devices that take this one's calls
    comings,        \* the admissions published and not yet answered
    queued, came    \* how often each of the bounds was met

queueVars == <<held, runs, stopped, lock, admitted, comings, queued, came>>

Entries == [n : Nat, on : Devices, status : {"waiting", "running", "ended"}]
Locks == [does : {"queue", "drop"}, of : Sources, on : Devices \cup {Nobody}]
ASSUME NobodyAssumption == Nobody \notin Entries \cup Locks

Status(s) == IF held[s] = Nobody THEN "none" ELSE held[s].status
Pending == {s \in Sources : Status(s) \in {"waiting", "running"}}
Held(does) == lock # Nobody /\ lock.does = does
Free == lock = Nobody
\* Whose run is interrupted now.
Interrupted(s) == stopped' = IF runs[s] = Nobody THEN stopped ELSE stopped \cup {s}

--------------------------------------------------------------------------------
\* Under the lock: the waiting ones among these are started.
Started(entries, fibers, those) ==
    LET begin == {s \in those : entries[s] # Nobody /\ entries[s].status = "waiting"}
    IN /\ held' = [s \in Sources |->
             IF s \in begin THEN [entries[s] EXCEPT !.status = "running"]
                            ELSE entries[s]]
       /\ runs' = [s \in Sources |->
             IF s \in begin THEN entries[s].n ELSE fibers[s]]

\* A move is queued: what runs of its source is interrupted first.
Queue(s, d) ==
    /\ Free /\ queued < MaxQueued
    /\ lock' = [does |-> "queue", of |-> s, on |-> d]
    /\ queued' = queued + 1 /\ Interrupted(s)
    /\ UNCHANGED <<held, runs, admitted, comings, came>>

\* Slip: the run is left to end by itself.
QueuedAtOnce ==
    LET s == lock.of
        put == [held EXCEPT ![s] = [n |-> queued, on |-> lock.on, status |-> "waiting"]]
    IN /\ Held("queue")
       /\ IF lock.on \in admitted /\ runs[s] = Nobody THEN Started(put, runs, {s})
          ELSE held' = put /\ UNCHANGED runs
       /\ lock' = Nobody /\ stopped' = stopped \ {s}
       /\ UNCHANGED <<admitted, comings, queued, came>>
\* Slip: an entry is started by its device's next admission alone.
QueuedForNext ==
    LET s == lock.of
        put == [held EXCEPT ![s] = [n |-> queued, on |-> lock.on, status |-> "waiting"]]
    IN /\ Held("queue") /\ runs[s] = Nobody
       /\ held' = put
       /\ lock' = Nobody /\ stopped' = stopped \ {s}
       /\ UNCHANGED <<runs, admitted, comings, queued, came>>
\* The entry is put in once that has ended, and started if its device is there.
Queued ==
    LET s == lock.of
        put == [held EXCEPT ![s] = [n |-> queued, on |-> lock.on, status |-> "waiting"]]
    IN /\ Held("queue") /\ runs[s] = Nobody
       /\ Started(put, runs, IF lock.on \in admitted THEN {s} ELSE {})
       /\ lock' = Nobody /\ stopped' = stopped \ {s}
       /\ UNCHANGED <<admitted, comings, queued, came>>

\* A drop takes the entry first, and then its run.
Drop(s) ==
    /\ Free /\ held[s] # Nobody
    /\ held' = [held EXCEPT ![s] = Nobody]
    /\ lock' = [does |-> "drop", of |-> s, on |-> Nobody] /\ Interrupted(s)
    /\ UNCHANGED <<runs, admitted, comings, queued, came>>
Dropped ==
    /\ Held("drop") /\ runs[lock.of] = Nobody
    /\ lock' = Nobody
    /\ UNCHANGED <<held, runs, stopped, admitted, comings, queued, came>>

\* The caller is gone while its queueing or drop waits for the run to end: the
\* permit is let go of, and the rest of it is never done.
CutShort ==
    /\ lock # Nobody /\ runs[lock.of] # Nobody
    /\ lock' = Nobody
    /\ UNCHANGED <<held, runs, stopped, admitted, comings, queued, came>>

\* A run ends, and says so where its entry still is. One that was interrupted
\* says nothing, unless it had ended before the interrupt came.
RunEnds(s) ==
    /\ runs[s] # Nobody
    /\ runs' = [runs EXCEPT ![s] = Nobody]
    /\ \/ /\ held' = [held EXCEPT ![s] = IF @ = Nobody THEN @
                                         ELSE [@ EXCEPT !.status = "ended"]]
          /\ stopped' = stopped \ {s}
       \/ s \in stopped /\ held[s] # Nobody /\ UNCHANGED <<held, stopped>>
    /\ UNCHANGED <<lock, admitted, comings, queued, came>>

--------------------------------------------------------------------------------
\* The hub's status says a device takes this one's calls, or no longer does.
Comes(d) ==
    /\ d \notin admitted /\ came < MaxComings
    /\ admitted' = admitted \cup {d}
    /\ comings' = Append(comings, d)
    /\ came' = came + 1
    /\ UNCHANGED <<held, runs, stopped, lock, queued>>
Leaves(d) ==
    /\ d \in admitted
    /\ admitted' = admitted \ {d}
    /\ UNCHANGED <<held, runs, stopped, lock, comings, queued, came>>

\* An admission's turn: every entry that waits on the device is started.
Admit ==
    /\ Free /\ comings # <<>>
    /\ Started(held, runs, {s \in Sources : held[s] # Nobody
                                            /\ held[s].on = Head(comings)})
    /\ comings' = Tail(comings)
    /\ UNCHANGED <<stopped, lock, admitted, queued, came>>

--------------------------------------------------------------------------------
\* A process starts with none of it.
NoQueue ==
    /\ held = [s \in Sources |-> Nobody]
    /\ runs = [s \in Sources |-> Nobody]
    /\ stopped = {}
    /\ lock = Nobody
    /\ admitted = {}
    /\ comings = <<>>
QueueInit == NoQueue /\ queued = 0 /\ came = 0
QueueDies ==
    /\ held' = [s \in Sources |-> Nobody]
    /\ runs' = [s \in Sources |-> Nobody]
    /\ stopped' = {}
    /\ lock' = Nobody
    /\ admitted' = {}
    /\ comings' = <<>>
    /\ UNCHANGED <<queued, came>>

\* What goes on by itself.
QueueGoes == Queued \/ Dropped \/ Admit \/ \E s \in Sources : RunEnds(s)
QueueNext ==
    \/ QueueGoes \/ CutShort
    \/ \E s \in Sources, d \in Devices : Queue(s, d)
    \/ \E s \in Sources : Drop(s)
    \/ \E d \in Devices : Comes(d) \/ Leaves(d)

--------------------------------------------------------------------------------
QueueTypeOK ==
    /\ held \in [Sources -> Entries \cup {Nobody}]
    /\ runs \in [Sources -> Nat \cup {Nobody}]
    /\ stopped \subseteq Sources
    /\ lock \in Locks \cup {Nobody}
    /\ admitted \subseteq Devices
    /\ comings \in Seq(Devices)
    /\ queued \in 0..MaxQueued /\ came \in 0..MaxComings

\* A run is of the entry that is there, which reads as running, or of one that
\* was dropped, and is being stopped: a drop has the last word, and the outcome of
\* a run that was replaced is never its successor's. An entry that reads as running
\* has its run, unless that was stopped for a successor that has not come: its
\* queueing still waits, or was cut short, after which nothing settles the entry.
RunsAreListed ==
    \A s \in Sources :
        /\ runs[s] # Nobody =>
              \/ Status(s) = "running" /\ held[s].n = runs[s]
              \/ held[s] = Nobody /\ s \in stopped
        /\ Status(s) = "running" => runs[s] # Nobody \/ s \in stopped

\* A move that waits on a device that is there, and stays, is run: its coming
\* and the entry cannot pass each other by.
WaitingStarts ==
    \A s \in Sources, d \in Devices :
        Status(s) = "waiting" /\ held[s].on = d /\ d \in admitted ~>
            Status(s) # "waiting" \/ held[s].on # d \/ d \notin admitted
================================================================================
