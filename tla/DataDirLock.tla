------------------------------ MODULE DataDirLock ------------------------------
(***************************************************************************)
(* The lock that makes a move of the data folder the one change under way. *)
(*   packages/engine/src/DataDirLock.ts                                    *)
(*                                                                         *)
(* A database file beside the pointer file, held through SQLite's own      *)
(* locks: `shared`, `writer` and `level`, by connection, the kernel's, so  *)
(* they go with their process.  A process holds it shared once for all its *)
(* changes and counts them; what it counts is lost with it.  A move, or    *)
(* the recovery of one, holds it alone, and what it does to the folder is  *)
(* here two steps, the rename and the pointer (DataDirMove has them all).  *)
(***************************************************************************)
EXTENDS Integers, FiniteSets

CONSTANTS
    Procs, Changes, Movers,     \* processes, and what runs in them
    Owner,                      \* the process of each change and move
    Outer,                      \* the change each nested one runs in, or None
    Places, None,
    MaxAsks,                    \* the takes a process numbers
    MaxMoves, MaxCrashes, MaxFaults

ASSUME NoneAssumption ==
    /\ None \notin Procs /\ None \notin Changes
    /\ None \notin Movers /\ None \notin Places
ASSUME OwnerAssumption ==
    /\ Owner \in [Changes \cup Movers -> Procs]
    /\ Procs \cap Movers = {}
ASSUME OuterAssumption ==
    /\ Outer \in [Changes -> Changes \cup {None}]
    /\ \A c \in Changes : Outer[c] # None =>
         Outer[Outer[c]] = None /\ Owner[Outer[c]] = Owner[c]
ASSUME FiniteAssumption == IsFiniteSet(Changes) /\ IsFiniteSet(Movers)
ASSUME BoundsAssumption ==
    /\ MaxAsks \in Nat /\ MaxMoves \in Nat
    /\ MaxCrashes \in Nat /\ MaxFaults \in Nat

VARIABLES
    usable,             \* whether the lock's file can be held at all
    folder, pointer,    \* where the data folder is, and where the pointer says
    where,              \* where each process found it; None is one not running
    shared,             \* the connections with SQLite's shared lock
    writer, level,      \* the one with more, and how much more
    moving, holders,    \* a process's moves under way, and changes let in
    taking,             \* the change whose take has the process's permit
    takes, refused,     \* the number of its last take, of its last refused one
    pc, queuedFor,      \* a change, and the take it queued for
    late,               \* the change came after the last refused take ended
    mpc,                \* a move
    moves, crashes, faults

sqlite == <<shared, writer, level>>
counts == <<moving, holders, taking, takes, refused>>
changes == <<pc, queuedFor, late>>
place == <<folder, pointer, where>>
budgets == <<moves, crashes, faults>>
vars == <<usable, place, sqlite, counts, changes, mpc, budgets>>

Mine(p) == {c \in Changes : Owner[c] = p}
Running(p) == {c \in Mine(p) : pc[c] = "in"}

--------------------------------------------------------------------------------
(* SQLite, in exclusive locking mode: a connection keeps what it got. *)

\* A read is let in unless a writer waits at its commit or is past it.
ReadersKeptOut == level \in {"pending", "exclusive"}

\* The connection closed, and what it held with it.
Drop(k) ==
    /\ shared' = shared \ {k}
    /\ IF writer = k THEN writer' = None /\ level' = "none"
                     ELSE UNCHANGED <<writer, level>>

--------------------------------------------------------------------------------
(* A change: `held`, which `guard` holds for the change's run. *)

\* Slip: the take under way as it came passed over.
AskNext(c) ==
    LET p == Owner[c] IN
    /\ where[p] # None /\ pc[c] = "out"
    /\ Outer[c] # None => pc[Outer[c]] = "in"
    /\ takes[p] < MaxAsks
    /\ pc' = [pc EXCEPT ![c] = "queued"]
    /\ queuedFor' = [queuedFor EXCEPT ![c] = takes[p] + 1]
    /\ late' = [late EXCEPT ![c] = TRUE]
    /\ UNCHANGED <<usable, place, sqlite, counts, mpc, budgets>>

\* Takes are numbered as they start.  The first a change queued for is the
\* one under way as it came, else the next.
Ask(c) ==
    LET p == Owner[c] IN
    /\ where[p] # None /\ pc[c] = "out"
    /\ Outer[c] # None => pc[Outer[c]] = "in"
    /\ takes[p] < MaxAsks
    /\ pc' = [pc EXCEPT ![c] = "queued"]
    /\ queuedFor' = [queuedFor EXCEPT ![c] =
                       IF taking[p] # None THEN takes[p] ELSE takes[p] + 1]
    /\ late' = [late EXCEPT ![c] = TRUE]
    /\ UNCHANGED <<usable, place, sqlite, counts, mpc, budgets>>

Permitted(c) == pc[c] = "queued" /\ taking[Owner[c]] = None

\* Slip: nobody refused.
BarredNever(c) == FALSE

\* A move of this process's own, waiting for the changes under way, refuses
\* the others, but not one nested in a change that holds the lock.
Barred(c) == moving[Owner[c]] > 0 /\ Outer[c] = None

Turned(c) == pc' = [pc EXCEPT ![c] = "out"]

\* Out of the queue, its number there forgotten.
Dequeued(c) ==
    /\ queuedFor' = [queuedFor EXCEPT ![c] = 0]
    /\ late' = [late EXCEPT ![c] = FALSE]

RefuseMoving(c) ==
    /\ Permitted(c) /\ Barred(c)
    /\ Turned(c) /\ Dequeued(c)
    /\ UNCHANGED <<usable, place, sqlite, counts, mpc, budgets>>

\* The process's hold is there to be joined.
MayJoin(c) == Permitted(c) /\ ~Barred(c) /\ holders[Owner[c]] > 0

Join(c) ==
    /\ MayJoin(c)
    /\ holders' = [holders EXCEPT ![Owner[c]] = @ + 1]
    /\ pc' = [pc EXCEPT ![c] = "in"]
    /\ Dequeued(c)
    /\ UNCHANGED <<usable, place, sqlite, moving, taking, takes, refused,
                   mpc, budgets>>

\* The take it queued for, or a later one, was refused: so is it.
RefuseQueued(c) ==
    LET p == Owner[c] IN
    /\ Permitted(c) /\ ~Barred(c) /\ holders[p] = 0
    /\ refused[p] >= queuedFor[c]
    /\ Turned(c) /\ Dequeued(c)
    /\ UNCHANGED <<usable, place, sqlite, counts, mpc, budgets>>

StartTake(c) ==
    LET p == Owner[c] IN
    /\ Permitted(c) /\ ~Barred(c) /\ holders[p] = 0
    /\ refused[p] < queuedFor[c]
    /\ takes' = [takes EXCEPT ![p] = @ + 1]
    /\ taking' = [taking EXCEPT ![p] = c]
    /\ pc' = [pc EXCEPT ![c] = "taking"]
    /\ Dequeued(c)
    /\ UNCHANGED <<usable, place, sqlite, moving, holders, refused,
                   mpc, budgets>>

\* A lock this user can't write, or that is no lock, makes every move refuse
\* too, so the change goes on with nothing held.
Take(c) ==
    /\ pc[c] = "taking"
    /\ IF usable
         THEN ~ReadersKeptOut /\ shared' = shared \cup {Owner[c]}
         ELSE shared' = shared
    /\ pc' = [pc EXCEPT ![c] = "checking"]
    /\ UNCHANGED <<usable, place, writer, level, counts, queuedFor, late, mpc,
                   budgets>>

\* The take refused: its connection closed, and the refusal kept for those
\* that queued while it was asked for.
TakeRefused(c) ==
    LET p == Owner[c] IN
    /\ taking' = [taking EXCEPT ![p] = None]
    /\ refused' = [refused EXCEPT ![p] = takes[p]]
    /\ Turned(c)
    /\ late' = [d \in Changes |-> late[d] /\ Owner[d] # p]
    /\ Drop(p)
    /\ UNCHANGED <<usable, folder, where, moving, holders, takes, queuedFor,
                   mpc, moves, crashes>>

\* Two seconds of a lock held elsewhere, or a failure of this process's own.
Busy(c) ==
    /\ pc[c] = "taking" /\ usable
    /\ \/ ReadersKeptOut /\ UNCHANGED faults
       \/ faults < MaxFaults /\ faults' = faults + 1
    /\ TakeRefused(c)
    /\ UNCHANGED pointer

\* paths.current: a move a crash cut before its pointer is committed first,
\* which may fail.
Located ==
    \/ pointer' = folder /\ UNCHANGED faults
    \/ pointer # folder /\ faults < MaxFaults /\ faults' = faults + 1
       /\ UNCHANGED pointer

\* Slip: the folder found not looked for.
StillNamed(p) == pointer' = where[p]

\* The data dir still found, and there, where this process found it.
StillThere(p) == pointer' = where[p] /\ folder = where[p]

Enter(c) ==
    LET p == Owner[c] IN
    /\ pc[c] = "checking"
    /\ Located
    /\ StillThere(p)
    /\ taking' = [taking EXCEPT ![p] = None]
    /\ holders' = [holders EXCEPT ![p] = @ + 1]
    /\ pc' = [pc EXCEPT ![c] = "in"]
    /\ UNCHANGED <<usable, folder, where, sqlite, moving, takes, refused,
                   queuedFor, late, mpc, moves, crashes>>

RefuseMoved(c) ==
    /\ pc[c] = "checking"
    /\ Located
    /\ ~StillThere(Owner[c])
    /\ TakeRefused(c)

\* Slip: the first to end lets the process's hold go.
ExitFirst(c) ==
    LET p == Owner[c] IN
    /\ pc[c] = "in" /\ taking[p] = None
    /\ \A d \in Changes : Outer[d] = c => pc[d] = "out"
    /\ holders' = [holders EXCEPT ![p] = @ - 1]
    /\ Drop(p)
    /\ Turned(c)
    /\ UNCHANGED <<usable, place, moving, taking, takes, refused,
                   queuedFor, late, mpc, budgets>>

\* The last to end lets the process's hold go.
Exit(c) ==
    LET p == Owner[c] IN
    /\ pc[c] = "in" /\ taking[p] = None
    /\ \A d \in Changes : Outer[d] = c => pc[d] = "out"
    /\ holders' = [holders EXCEPT ![p] = @ - 1]
    /\ IF holders[p] = 1 THEN Drop(p) ELSE UNCHANGED sqlite
    /\ Turned(c)
    /\ UNCHANGED <<usable, place, moving, taking, takes, refused,
                   queuedFor, late, mpc, budgets>>

--------------------------------------------------------------------------------
(* A move or a recovery: `alone`. *)

BeginAlone(m) ==
    LET p == Owner[m] IN
    /\ where[p] # None /\ mpc[m] = "out"
    /\ moves < MaxMoves
    /\ moves' = moves + 1
    /\ moving' = [moving EXCEPT ![p] = @ + 1]
    /\ mpc' = [mpc EXCEPT ![m] = "asking"]
    /\ UNCHANGED <<usable, place, sqlite, holders, taking, takes, refused,
                   changes, crashes, faults>>

\* BEGIN IMMEDIATE: a read's lock first, then the one write reserved.
Read(m) ==
    /\ mpc[m] = "asking"
    /\ usable /\ ~ReadersKeptOut
    /\ shared' = shared \cup {m}
    /\ mpc' = [mpc EXCEPT ![m] = "reading"]
    /\ UNCHANGED <<usable, place, writer, level, counts, changes, budgets>>

Reserve(m) ==
    /\ mpc[m] = "reading" /\ writer = None
    /\ writer' = m /\ level' = "reserved"
    /\ mpc' = [mpc EXCEPT ![m] = "committing"]
    /\ UNCHANGED <<usable, place, shared, counts, changes, budgets>>

\* An attempt refused drops its connection, and asks again.
AskAgain(m) ==
    /\ mpc[m] = "reading" /\ writer # None
    /\ Drop(m)
    /\ mpc' = [mpc EXCEPT ![m] = "asking"]
    /\ UNCHANGED <<usable, place, counts, changes, budgets>>

\* Slip: the hold taken for had once the write is reserved.
CommitAtOnce(m) ==
    /\ mpc[m] = "committing"
    /\ level' = "exclusive" /\ mpc' = [mpc EXCEPT ![m] = "alone"]
    /\ UNCHANGED <<usable, place, shared, writer, counts, changes, budgets>>

\* COMMIT: it waits for the reads under way, and keeps new ones out meanwhile.
Commit(m) ==
    /\ mpc[m] = "committing"
    /\ IF shared = {m}
         THEN level' = "exclusive" /\ mpc' = [mpc EXCEPT ![m] = "alone"]
         ELSE level' = "pending" /\ UNCHANGED mpc
    /\ UNCHANGED <<usable, place, shared, writer, counts, changes, budgets>>

\* The hold let go, and then the move no longer counted.
EndAlone(m) ==
    /\ Drop(m)
    /\ moving' = [moving EXCEPT ![Owner[m]] = @ - 1]
    /\ mpc' = [mpc EXCEPT ![m] = "out"]
    /\ UNCHANGED <<usable, place, holders, taking, takes, refused, changes>>

\* ChangesRunning after `within`, or a lock that can't be held.
GiveUp(m) ==
    /\ \/ mpc[m] = "asking" /\ (usable => writer # None) /\ UNCHANGED faults
       \/ mpc[m] = "committing" /\ shared # {m} /\ UNCHANGED faults
       \/ mpc[m] \in {"asking", "reading", "committing"}
          /\ faults < MaxFaults /\ faults' = faults + 1
    /\ EndAlone(m)
    /\ UNCHANGED <<moves, crashes>>

\* The folder renamed, and its pointer committed after.
MoveFolder(m, to) ==
    /\ mpc[m] = "alone" /\ pointer = folder /\ to # folder
    /\ folder' = to
    /\ UNCHANGED <<usable, pointer, where, sqlite, counts, changes, mpc, budgets>>

CommitPointer(m) ==
    /\ mpc[m] = "alone" /\ pointer # folder
    /\ pointer' = folder
    /\ UNCHANGED <<usable, folder, where, sqlite, counts, changes, mpc, budgets>>

Done(m) ==
    /\ mpc[m] = "alone"
    /\ EndAlone(m)
    /\ UNCHANGED budgets

--------------------------------------------------------------------------------
(* A process. *)

\* Paths' locate, which commits the pointer of a folder that left.
Start(p) ==
    /\ where[p] = None
    /\ pointer' = folder
    /\ where' = [where EXCEPT ![p] = folder]
    /\ UNCHANGED <<usable, folder, sqlite, counts, changes, mpc, budgets>>

\* Nothing it runs has begun, or all has ended.
Quiet(p) ==
    /\ \A c \in Mine(p) : pc[c] = "out"
    /\ \A m \in Movers : Owner[m] = p => mpc[m] = "out"

\* It ends, or dies with what it runs, its locks released by the kernel.
Stop(p) ==
    LET gone == {p} \cup {m \in Movers : Owner[m] = p} IN
    /\ where[p] # None
    /\ IF Quiet(p) THEN UNCHANGED crashes
                   ELSE crashes < MaxCrashes /\ crashes' = crashes + 1
    /\ where' = [where EXCEPT ![p] = None]
    /\ shared' = shared \ gone
    /\ IF writer \in gone THEN writer' = None /\ level' = "none"
                          ELSE UNCHANGED <<writer, level>>
    /\ moving' = [moving EXCEPT ![p] = 0]
    /\ holders' = [holders EXCEPT ![p] = 0]
    /\ taking' = [taking EXCEPT ![p] = None]
    /\ takes' = [takes EXCEPT ![p] = 0]
    /\ refused' = [refused EXCEPT ![p] = 0]
    /\ pc' = [c \in Changes |-> IF Owner[c] = p THEN "out" ELSE pc[c]]
    /\ queuedFor' = [c \in Changes |-> IF Owner[c] = p THEN 0 ELSE queuedFor[c]]
    /\ late' = [c \in Changes |-> late[c] /\ Owner[c] # p]
    /\ mpc' = [m \in Movers |-> IF Owner[m] = p THEN "out" ELSE mpc[m]]
    /\ UNCHANGED <<usable, folder, pointer, moves, faults>>

--------------------------------------------------------------------------------

Init ==
    /\ usable \in BOOLEAN
    /\ folder \in Places /\ pointer = folder
    /\ where = [p \in Procs |-> None]
    /\ shared = {} /\ writer = None /\ level = "none"
    /\ moving = [p \in Procs |-> 0] /\ holders = [p \in Procs |-> 0]
    /\ taking = [p \in Procs |-> None]
    /\ takes = [p \in Procs |-> 0] /\ refused = [p \in Procs |-> 0]
    /\ pc = [c \in Changes |-> "out"]
    /\ queuedFor = [c \in Changes |-> 0] /\ late = [c \in Changes |-> FALSE]
    /\ mpc = [m \in Movers |-> "out"]
    /\ moves = 0 /\ crashes = 0 /\ faults = 0

Answer(c) == \/ RefuseMoving(c) \/ Join(c) \/ RefuseQueued(c) \/ StartTake(c)
             \/ Take(c) \/ Enter(c) \/ RefuseMoved(c)

Attempt(m) == Read(m) \/ Reserve(m) \/ AskAgain(m) \/ Commit(m)

Next ==
    \/ \E c \in Changes : Ask(c) \/ Answer(c) \/ Busy(c) \/ Exit(c)
    \/ \E m \in Movers : BeginAlone(m) \/ Attempt(m) \/ GiveUp(m)
                         \/ CommitPointer(m) \/ Done(m)
    \/ \E m \in Movers, to \in Places : MoveFolder(m, to)
    \/ \E p \in Procs : Start(p) \/ Stop(p)

Spec == Init /\ [][Next]_vars

(* Fairness: a change let in ends, whatever nests in it; an attempt is made *)
(* again every 50 ms; a move's body ends.  Nothing is fair about giving up,  *)
(* so a wait that only its time limit ends does not count as one that ends.  *)
Fairness ==
    /\ \A c \in Changes : WF_vars(Answer(c)) /\ SF_vars(Exit(c))
    /\ \A m \in Movers : /\ WF_vars(Attempt(m))
                         /\ WF_vars(CommitPointer(m)) /\ WF_vars(Done(m))

FairSpec == Spec /\ Fairness

--------------------------------------------------------------------------------
(* Properties. *)

TypeOK ==
    /\ usable \in BOOLEAN
    /\ folder \in Places /\ pointer \in Places
    /\ where \in [Procs -> Places \cup {None}]
    /\ shared \subseteq Procs \cup Movers
    /\ writer \in Movers \cup {None}
    /\ level \in {"none", "reserved", "pending", "exclusive"}
    /\ moving \in [Procs -> Nat] /\ holders \in [Procs -> Nat]
    /\ taking \in [Procs -> Changes \cup {None}]
    /\ takes \in [Procs -> Nat] /\ refused \in [Procs -> Nat]
    /\ pc \in [Changes -> {"out", "queued", "taking", "checking", "in"}]
    /\ queuedFor \in [Changes -> Nat] /\ late \in [Changes -> BOOLEAN]
    /\ mpc \in [Movers -> {"out", "asking", "reading", "committing", "alone"}]
    /\ moves \in Nat /\ crashes \in Nat /\ faults \in Nat

\* No change runs in any process while a move holds the lock alone, and no
\* two moves do, though a process's changes share one hold, join and leave
\* it at any time and may do so while the move waits.
Exclusion ==
    \A m \in Movers : mpc[m] = "alone" =>
        /\ \A c \in Changes : pc[c] # "in"
        /\ \A n \in Movers \ {m} : mpc[n] # "alone"

\* "No move can commit while it is held, so the check stays true": whatever
\* moved the folder before, a change that runs works in the folder where it
\* is, one that joined without a check of its own too.
CheckStaysTrue ==
    \A c \in Changes : pc[c] = "in" =>
        where[Owner[c]] = folder /\ pointer = folder

\* A change nested in one that holds the lock is let in even while a move of
\* its process waits, or the outer one would be left half done.
NestedLetIn ==
    \A c \in Changes : Outer[c] # None /\ pc[c] = "queued" => MayJoin(c)

\* A refused take refuses those that queued while it was asked for, rather
\* than each ask in turn, and nobody who came after it.
RefusalReachesTheQueued ==
    \A c \in Changes : pc[c] = "queued" =>
        (refused[Owner[c]] >= queuedFor[c]) = ~late[c]

\* Whoever has waited by the time a take is refused is refused with it, and a change
\* nested in one that holds the lock never is (held).
RefusesRightly == RefusalReachesTheQueued /\ NestedLetIn

\* A move waiting at its commit for changes of its own process alone gets in:
\* neither changes that keep coming nor the attempts of other moves keep it
\* out.
OwnMoveGetsIn ==
    \A m \in Movers :
        mpc[m] = "committing" /\ shared \cap Procs = {Owner[m]} /\ level = "pending"
            ~> mpc[m] \in {"alone", "out"}

\* A change that asks is answered: nobody waits for a permit whose taker
\* waits for a move that waits for it.
EveryAskAnswered ==
    \A c \in Changes : pc[c] = "queued" ~> pc[c] \in {"in", "out"}

\* Nobody waits for ever at the lock: neither a move of a process for the changes of
\* that process, nor a change at the permit (held, holdAlone).
EveryoneGetsIn == OwnMoveGetsIn /\ EveryAskAnswered

Promise == INSTANCE DataDirHold WITH
    place <- folder,
    inside <- [c \in Changes |-> IF pc[c] = "in" THEN where[Owner[c]] ELSE None],
    alone <- IF \E m \in Movers : mpc[m] = "alone"
               THEN CHOOSE m \in Movers : mpc[m] = "alone" ELSE None

\* The lock keeps its promise to those who hold it.
KeepsPromise == Promise!Spec

================================================================================
