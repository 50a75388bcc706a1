--------------------------- MODULE DataDirLockProofs ---------------------------
(***************************************************************************)
(* For any processes, changes, moves and bounds: a move that has the lock  *)
(* is alone, and a change that runs works in the folder where it is.       *)
(*                                                                         *)
(* Neither is inductive.  That a change's process still has its read       *)
(* (HoldInv) rests on the count of those let in being right (CountInv),    *)
(* that the move's write excludes it on SQLite's own locks (SqliteInv),    *)
(* and that a change that joined without a check works where the folder is *)
(* on the one whose hold it joined having been checked (PlaceInv).         *)
(*                                                                         *)
(* Who is refused is told by the numbers a take and a queued change carry  *)
(* (AskInv); and the lock keeps DataDirHold's promise.                     *)
(***************************************************************************)
EXTENDS DataDirLock, FiniteSetTheorems, TLAPS

Active(p) == {m \in Movers : Owner[m] = p /\ mpc[m] # "out"}

\* SQLite's locks: one writer, which has the read's lock too, and no other
\* connection has any once it is past its commit.
SqliteInv ==
    /\ (level = "none") = (writer = None)
    /\ writer # None => writer \in shared
    /\ level = "exclusive" => shared = {writer}
    /\ ~usable => shared = {}

\* What a move believes it holds.
MoverInv ==
    /\ \A m \in Movers : mpc[m] \in {"committing", "alone"} <=> writer = m
    /\ \A m \in Movers : mpc[m] = "reading" => m \in shared
    /\ \A m \in Movers : mpc[m] = "alone" <=> writer = m /\ level = "exclusive"

\* What a change believes its process holds.
HoldInv ==
    /\ \A c \in Changes :
         pc[c] \in {"taking", "checking"} <=> taking[Owner[c]] = c
    /\ \A p \in Procs : taking[p] # None =>
         Owner[taking[p]] = p /\ holders[p] = 0
    /\ \A c \in Changes : pc[c] \in {"checking", "in"} /\ usable =>
         Owner[c] \in shared

\* The counts are of what they count.
CountInv ==
    /\ \A p \in Procs : holders[p] = Cardinality(Running(p))
    /\ \A p \in Procs : moving[p] = Cardinality(Active(p))

PlaceInv == CheckStaysTrue

IInv == TypeOK /\ SqliteInv /\ MoverInv /\ HoldInv /\ CountInv /\ PlaceInv

--------------------------------------------------------------------------------
(* The counts. *)

\* The changes and the moves of a process are finitely many.
LEMMA Finite ==
    ASSUME NEW p \in Procs
    PROVE  IsFiniteSet(Running(p)) /\ IsFiniteSet(Active(p))
<1>1. Running(p) \subseteq Changes /\ Active(p) \subseteq Movers
  BY DEF Running, Mine, Active
<1>2. QED
  BY <1>1, FS_Subset, FiniteAssumption

\* A change let in is one more of its process's, and no other's.
LEMMA RunningIn ==
    ASSUME TypeOK, NEW c \in Changes, pc[c] # "in",
           pc' = [pc EXCEPT ![c] = "in"], NEW p \in Procs
    PROVE  Cardinality(Running(p)') =
             Cardinality(Running(p)) + IF p = Owner[c] THEN 1 ELSE 0
<1>1. CASE p = Owner[c]
  <2>1. Running(p)' = Running(p) \cup {c} /\ c \notin Running(p)
    BY <1>1 DEF Running, Mine, TypeOK
  <2>2. QED
    BY <1>1, <2>1, Finite, FS_AddElement
<1>2. CASE p # Owner[c]
  <2>1. Running(p)' = Running(p)
    BY <1>2 DEF Running, Mine, TypeOK
  <2>2. QED
    BY <1>2, <2>1, Finite, FS_CardinalityType
<1>3. QED
  BY <1>1, <1>2

\* A change that ends was one of its process's, and is one less.
LEMMA RunningOut ==
    ASSUME TypeOK, NEW c \in Changes, pc[c] = "in",
           pc' = [pc EXCEPT ![c] = "out"], NEW p \in Procs
    PROVE  /\ Cardinality(Running(p)') =
                Cardinality(Running(p)) - IF p = Owner[c] THEN 1 ELSE 0
           /\ Cardinality(Running(p)') \in Nat
<1>1. CASE p = Owner[c]
  <2>1. Running(p)' = Running(p) \ {c} /\ c \in Running(p)
    BY <1>1 DEF Running, Mine, TypeOK
  <2>2. IsFiniteSet(Running(p)')
    BY <2>1, Finite, FS_Subset
  <2>3. QED
    BY <1>1, <2>1, <2>2, Finite, FS_RemoveElement, FS_CardinalityType
<1>2. CASE p # Owner[c]
  <2>1. Running(p)' = Running(p)
    BY <1>2 DEF Running, Mine, TypeOK
  <2>2. QED
    BY <1>2, <2>1, Finite, FS_CardinalityType
<1>3. QED
  BY <1>1, <1>2

\* No change going in or out, none is counted in or out.
LEMMA RunningSame ==
    ASSUME NEW p \in Procs,
           \A c \in Changes : Owner[c] = p => (pc'[c] = "in") = (pc[c] = "in")
    PROVE  Running(p)' = Running(p)
  BY DEF Running, Mine

\* The same of moves.
LEMMA ActiveSame ==
    ASSUME NEW p \in Procs,
           \A m \in Movers :
             Owner[m] = p => (mpc'[m] = "out") = (mpc[m] = "out")
    PROVE  Active(p)' = Active(p)
  BY DEF Active

\* A move that begins is one more of its process's, and no other's.
LEMMA ActiveIn ==
    ASSUME TypeOK, NEW m \in Movers, mpc[m] = "out",
           mpc' = [mpc EXCEPT ![m] = "asking"], NEW p \in Procs
    PROVE  Cardinality(Active(p)') =
             Cardinality(Active(p)) + IF p = Owner[m] THEN 1 ELSE 0
<1>1. CASE p = Owner[m]
  <2>1. Active(p)' = Active(p) \cup {m} /\ m \notin Active(p)
    BY <1>1 DEF Active, TypeOK
  <2>2. QED
    BY <1>1, <2>1, Finite, FS_AddElement
<1>2. CASE p # Owner[m]
  <2>1. Active(p)' = Active(p)
    BY <1>2 DEF Active, TypeOK
  <2>2. QED
    BY <1>2, <2>1, Finite, FS_CardinalityType
<1>3. QED
  BY <1>1, <1>2

\* A move that ends was one of its process's, and is one less.
LEMMA ActiveOut ==
    ASSUME TypeOK, NEW m \in Movers, mpc[m] # "out",
           mpc' = [mpc EXCEPT ![m] = "out"], NEW p \in Procs
    PROVE  /\ Cardinality(Active(p)') =
                Cardinality(Active(p)) - IF p = Owner[m] THEN 1 ELSE 0
           /\ Cardinality(Active(p)') \in Nat
<1>1. CASE p = Owner[m]
  <2>1. Active(p)' = Active(p) \ {m} /\ m \in Active(p)
    BY <1>1 DEF Active, TypeOK
  <2>2. IsFiniteSet(Active(p)')
    BY <2>1, Finite, FS_Subset
  <2>3. QED
    BY <1>1, <2>1, <2>2, Finite, FS_RemoveElement, FS_CardinalityType
<1>2. CASE p # Owner[m]
  <2>1. Active(p)' = Active(p)
    BY <1>2 DEF Active, TypeOK
  <2>2. QED
    BY <1>2, <2>1, Finite, FS_CardinalityType
<1>3. QED
  BY <1>1, <1>2

\* Where a process counts a hold, a change of it runs.
LEMMA SomeoneRuns ==
    ASSUME TypeOK, CountInv, NEW p \in Procs, holders[p] > 0
    PROVE  \E c \in Changes : Owner[c] = p /\ pc[c] = "in"
<1>1. ASSUME Running(p) = {} PROVE FALSE
  BY <1>1, FS_EmptySet DEF CountInv
<1>2. QED
  BY <1>1 DEF Running, Mine

\* Where it counts none, none does.
LEMMA NobodyRuns ==
    ASSUME TypeOK, CountInv, NEW c \in Changes, holders[Owner[c]] = 0
    PROVE  pc[c] # "in"
<1> SUFFICES ASSUME pc[c] = "in" PROVE FALSE
  OBVIOUS
<1>1. Owner[c] \in Procs /\ c \in Running(Owner[c])
  BY OwnerAssumption DEF Running, Mine
<1>2. QED
  BY <1>1, Finite, FS_EmptySet DEF CountInv

--------------------------------------------------------------------------------
(* The steps. *)

USE NoneAssumption, OwnerAssumption
    DEF IInv, place, sqlite, counts, changes, budgets

\* A change asks: nothing is held yet.
LEMMA AskKeeps == ASSUME IInv, NEW c \in Changes, Ask(c) PROVE IInv'
<1> USE DEF Ask
<1>1. TypeOK'
  BY DEF TypeOK
<1>2. SqliteInv'
  BY DEF SqliteInv
<1>3. MoverInv'
  BY DEF MoverInv
<1>4. HoldInv'
  BY DEF HoldInv
<1>5. CountInv'
  BY DEF CountInv, Running, Mine, Active
<1>6. PlaceInv'
  BY DEF PlaceInv, CheckStaysTrue
<1>7. QED
  BY <1>1, <1>2, <1>3, <1>4, <1>5, <1>6

\* A change refused by its own process's move held nothing.
LEMMA RefuseMovingKeeps ==
    ASSUME IInv, NEW c \in Changes, RefuseMoving(c)
    PROVE  IInv'
<1> USE DEF RefuseMoving, Permitted, Turned, Dequeued
<1>1. TypeOK'
  BY DEF TypeOK
<1>2. SqliteInv'
  BY DEF SqliteInv
<1>3. MoverInv'
  BY DEF MoverInv
<1>4. HoldInv'
  BY DEF HoldInv
<1>5. CountInv'
  BY DEF CountInv, Running, Mine, Active
<1>6. PlaceInv'
  BY DEF PlaceInv, CheckStaysTrue
<1>7. QED
  BY <1>1, <1>2, <1>3, <1>4, <1>5, <1>6

\* A change that joins finds one running, whose read and whose check are
\* its own.
LEMMA JoinKeeps == ASSUME IInv, NEW c \in Changes, Join(c) PROVE IInv'
<1> USE DEF Join, MayJoin, Permitted, Dequeued
<1>1. TypeOK'
  BY DEF TypeOK
<1>2. SqliteInv'
  BY DEF SqliteInv
<1>3. MoverInv'
  BY DEF MoverInv
<1>4. HoldInv'
  <2>1. PICK d \in Changes : Owner[d] = Owner[c] /\ pc[d] = "in"
    BY SomeoneRuns
  <2> QED
    BY <2>1 DEF HoldInv, TypeOK
<1>5. CountInv'
  <2>1. \A p \in Procs : Cardinality(Running(p)') =
          Cardinality(Running(p)) + IF p = Owner[c] THEN 1 ELSE 0
    BY RunningIn
  <2>2. \A p \in Procs : Active(p)' = Active(p)
    BY ActiveSame
  <2> QED
    BY <2>1, <2>2 DEF CountInv, TypeOK
<1>6. PlaceInv'
  <2>1. PICK d \in Changes : Owner[d] = Owner[c] /\ pc[d] = "in"
    BY SomeoneRuns
  <2> QED
    BY <2>1 DEF PlaceInv, CheckStaysTrue, TypeOK
<1>7. QED
  BY <1>1, <1>2, <1>3, <1>4, <1>5, <1>6

\* A change refused with the take it queued for held nothing.
LEMMA RefuseQueuedKeeps ==
    ASSUME IInv, NEW c \in Changes, RefuseQueued(c)
    PROVE  IInv'
<1> USE DEF RefuseQueued, Permitted, Turned, Dequeued
<1>1. TypeOK'
  BY DEF TypeOK
<1>2. SqliteInv'
  BY DEF SqliteInv
<1>3. MoverInv'
  BY DEF MoverInv
<1>4. HoldInv'
  BY DEF HoldInv
<1>5. CountInv'
  BY DEF CountInv, Running, Mine, Active
<1>6. PlaceInv'
  BY DEF PlaceInv, CheckStaysTrue
<1>7. QED
  BY <1>1, <1>2, <1>3, <1>4, <1>5, <1>6

\* A take starts where nothing is held.
LEMMA StartTakeKeeps ==
    ASSUME IInv, NEW c \in Changes, StartTake(c)
    PROVE  IInv'
<1> USE DEF StartTake, Permitted, Dequeued
<1>1. TypeOK'
  BY DEF TypeOK
<1>2. SqliteInv'
  BY DEF SqliteInv
<1>3. MoverInv'
  BY DEF MoverInv
<1>4. HoldInv'
  BY DEF HoldInv, TypeOK
<1>5. CountInv'
  BY DEF CountInv, Running, Mine, Active
<1>6. PlaceInv'
  BY DEF PlaceInv, CheckStaysTrue
<1>7. QED
  BY <1>1, <1>2, <1>3, <1>4, <1>5, <1>6

\* The read is let in while no write is past its commit.
LEMMA TakeKeeps == ASSUME IInv, NEW c \in Changes, Take(c) PROVE IInv'
<1> USE DEF Take, ReadersKeptOut
<1>1. TypeOK'
  BY DEF TypeOK
<1>2. SqliteInv'
  BY DEF SqliteInv
<1>3. MoverInv'
  BY DEF MoverInv
<1>4. HoldInv'
  BY DEF HoldInv
<1>5. CountInv'
  BY DEF CountInv, Running, Mine, Active
<1>6. PlaceInv'
  BY DEF PlaceInv, CheckStaysTrue
<1>7. QED
  BY <1>1, <1>2, <1>3, <1>4, <1>5, <1>6

\* A take refused drops a read that no change of its process rests on.
LEMMA BusyKeeps == ASSUME IInv, NEW c \in Changes, Busy(c) PROVE IInv'
<1> USE DEF Busy, TakeRefused, Turned, Drop
<1>1. TypeOK'
  BY DEF TypeOK
<1>2. SqliteInv'
  BY DEF SqliteInv
<1>3. MoverInv'
  BY DEF MoverInv
<1>4. HoldInv'
  <2>1. taking[Owner[c]] = c /\ holders[Owner[c]] = 0
    BY DEF HoldInv, TypeOK
  <2>2. \A d \in Changes : Owner[d] = Owner[c] => pc[d] # "in"
    BY <2>1, NobodyRuns
  <2>3. \A d \in Changes \ {c} :
          Owner[d] = Owner[c] => pc[d] \notin {"taking", "checking"}
    BY <2>1 DEF HoldInv
  <2> QED
    BY <2>1, <2>2, <2>3 DEF HoldInv, TypeOK
<1>5. CountInv'
  BY DEF CountInv, Running, Mine, Active
<1>6. PlaceInv'
  BY DEF PlaceInv, CheckStaysTrue
<1>7. QED
  BY <1>1, <1>2, <1>3, <1>4, <1>5, <1>6

\* A change let in was checked under its process's read.
LEMMA EnterKeeps == ASSUME IInv, NEW c \in Changes, Enter(c) PROVE IInv'
<1> USE DEF Enter, Located, StillThere
<1>1. TypeOK'
  BY DEF TypeOK
<1>2. SqliteInv'
  BY DEF SqliteInv
<1>3. MoverInv'
  BY DEF MoverInv
<1>4. HoldInv'
  BY DEF HoldInv, TypeOK
<1>5. CountInv'
  <2>1. \A p \in Procs : Cardinality(Running(p)') =
          Cardinality(Running(p)) + IF p = Owner[c] THEN 1 ELSE 0
    BY RunningIn
  <2>2. \A p \in Procs : Active(p)' = Active(p)
    BY ActiveSame
  <2> QED
    BY <2>1, <2>2 DEF CountInv, TypeOK
<1>6. PlaceInv'
  BY DEF PlaceInv, CheckStaysTrue
<1>7. QED
  BY <1>1, <1>2, <1>3, <1>4, <1>5, <1>6

\* A change whose folder moved drops a read that none rests on.
LEMMA RefuseMovedKeeps ==
    ASSUME IInv, NEW c \in Changes, RefuseMoved(c)
    PROVE  IInv'
<1> USE DEF RefuseMoved, Located, TakeRefused, Turned, Drop
<1>1. TypeOK'
  BY DEF TypeOK
<1>2. SqliteInv'
  BY DEF SqliteInv
<1>3. MoverInv'
  BY DEF MoverInv
<1>4. HoldInv'
  <2>1. taking[Owner[c]] = c /\ holders[Owner[c]] = 0
    BY DEF HoldInv, TypeOK
  <2>2. \A d \in Changes : Owner[d] = Owner[c] => pc[d] # "in"
    BY <2>1, NobodyRuns
  <2>3. \A d \in Changes \ {c} :
          Owner[d] = Owner[c] => pc[d] \notin {"taking", "checking"}
    BY <2>1 DEF HoldInv
  <2> QED
    BY <2>1, <2>2, <2>3 DEF HoldInv, TypeOK
<1>5. CountInv'
  BY DEF CountInv, Running, Mine, Active
<1>6. PlaceInv'
  BY DEF PlaceInv, CheckStaysTrue
<1>7. QED
  BY <1>1, <1>2, <1>3, <1>4, <1>5, <1>6

\* The last change to end, and it alone, lets the read go.
LEMMA ExitKeeps == ASSUME IInv, NEW c \in Changes, Exit(c) PROVE IInv'
<1> USE DEF Exit, Turned, Drop
<1>a. \A p \in Procs :
        /\ Cardinality(Running(p)') =
             Cardinality(Running(p)) - IF p = Owner[c] THEN 1 ELSE 0
        /\ Cardinality(Running(p)') \in Nat
  BY RunningOut
<1>1. TypeOK'
  <2>1. holders' \in [Procs -> Nat]
    BY <1>a DEF TypeOK, CountInv
  <2> QED
    BY <2>1 DEF TypeOK
<1>2. SqliteInv'
  BY DEF SqliteInv
<1>3. MoverInv'
  BY DEF MoverInv
<1>4. HoldInv'
  <2>1. \A d \in Changes \ {c} :
          pc[d] = "in" /\ Owner[d] = Owner[c] => holders[Owner[c]] # 1
    <3> SUFFICES ASSUME NEW d \in Changes \ {c}, pc[d] = "in",
                        Owner[d] = Owner[c], holders[Owner[c]] = 1
                 PROVE  FALSE
      OBVIOUS
    <3>1. d \in Running(Owner[c])'
      BY DEF Running, Mine, TypeOK
    <3>2. Cardinality(Running(Owner[c])') = 0
      BY <1>a DEF CountInv
    <3>3. IsFiniteSet(Running(Owner[c])')
      <4>1. Running(Owner[c])' \subseteq Changes
        BY DEF Running, Mine
      <4> QED
        BY <4>1, FS_Subset, FiniteAssumption
    <3> QED
      BY <3>1, <3>2, <3>3, FS_EmptySet
  <2> QED
    BY <2>1 DEF HoldInv, TypeOK, SqliteInv
<1>5. CountInv'
  <2>1. \A p \in Procs : Active(p)' = Active(p)
    BY ActiveSame
  <2> QED
    BY <1>a, <2>1 DEF CountInv, TypeOK
<1>6. PlaceInv'
  BY DEF PlaceInv, CheckStaysTrue
<1>7. QED
  BY <1>1, <1>2, <1>3, <1>4, <1>5, <1>6

\* A move that begins is counted, and holds nothing.
LEMMA BeginAloneKeeps ==
    ASSUME IInv, NEW m \in Movers, BeginAlone(m)
    PROVE  IInv'
<1> USE DEF BeginAlone
<1>1. TypeOK'
  BY DEF TypeOK
<1>2. SqliteInv'
  BY DEF SqliteInv
<1>3. MoverInv'
  BY DEF MoverInv
<1>4. HoldInv'
  BY DEF HoldInv
<1>5. CountInv'
  <2>1. \A p \in Procs : Cardinality(Active(p)') =
          Cardinality(Active(p)) + IF p = Owner[m] THEN 1 ELSE 0
    BY ActiveIn
  <2>2. \A p \in Procs : Running(p)' = Running(p)
    BY RunningSame
  <2> QED
    BY <2>1, <2>2 DEF CountInv, TypeOK
<1>6. PlaceInv'
  BY DEF PlaceInv, CheckStaysTrue
<1>7. QED
  BY <1>1, <1>2, <1>3, <1>4, <1>5, <1>6

\* A move's attempt reads like any other.
LEMMA ReadKeeps == ASSUME IInv, NEW m \in Movers, Read(m) PROVE IInv'
<1> USE DEF Read, ReadersKeptOut
<1>1. TypeOK'
  BY DEF TypeOK
<1>2. SqliteInv'
  BY DEF SqliteInv
<1>3. MoverInv'
  BY DEF MoverInv
<1>4. HoldInv'
  BY DEF HoldInv
<1>5. CountInv'
  BY DEF CountInv, Running, Mine, Active
<1>6. PlaceInv'
  BY DEF PlaceInv, CheckStaysTrue
<1>7. QED
  BY <1>1, <1>2, <1>3, <1>4, <1>5, <1>6

\* One write is reserved at a time.
LEMMA ReserveKeeps == ASSUME IInv, NEW m \in Movers, Reserve(m) PROVE IInv'
<1> USE DEF Reserve
<1>1. TypeOK'
  BY DEF TypeOK
<1>2. SqliteInv'
  BY DEF SqliteInv, TypeOK, MoverInv
<1>3. MoverInv'
  BY DEF MoverInv, TypeOK
<1>4. HoldInv'
  BY DEF HoldInv
<1>5. CountInv'
  BY DEF CountInv, Running, Mine, Active
<1>6. PlaceInv'
  BY DEF PlaceInv, CheckStaysTrue
<1>7. QED
  BY <1>1, <1>2, <1>3, <1>4, <1>5, <1>6

\* An attempt refused drops the read it took.
LEMMA AskAgainKeeps == ASSUME IInv, NEW m \in Movers, AskAgain(m) PROVE IInv'
<1> USE DEF AskAgain, Drop
<1>1. TypeOK'
  BY DEF TypeOK
<1>2. SqliteInv'
  BY DEF SqliteInv
<1>3. MoverInv'
  BY DEF MoverInv, TypeOK
<1>4. HoldInv'
  BY DEF HoldInv
<1>5. CountInv'
  BY DEF CountInv, Running, Mine, Active
<1>6. PlaceInv'
  BY DEF PlaceInv, CheckStaysTrue
<1>7. QED
  BY <1>1, <1>2, <1>3, <1>4, <1>5, <1>6

\* A commit goes through when no other read is left.
LEMMA CommitKeeps == ASSUME IInv, NEW m \in Movers, Commit(m) PROVE IInv'
<1> USE DEF Commit
<1>1. TypeOK'
  BY DEF TypeOK
<1>2. SqliteInv'
  BY DEF SqliteInv, TypeOK, MoverInv
<1>3. MoverInv'
  BY DEF MoverInv, TypeOK
<1>4. HoldInv'
  BY DEF HoldInv
<1>5. CountInv'
  BY RunningSame, ActiveSame DEF CountInv, TypeOK
<1>6. PlaceInv'
  BY DEF PlaceInv, CheckStaysTrue
<1>7. QED
  BY <1>1, <1>2, <1>3, <1>4, <1>5, <1>6

\* A move that gives up is no longer counted, nor in the lock.
LEMMA GiveUpKeeps == ASSUME IInv, NEW m \in Movers, GiveUp(m) PROVE IInv'
<1> USE DEF GiveUp, EndAlone, Drop
<1>a. \A p \in Procs :
        /\ Cardinality(Active(p)') =
             Cardinality(Active(p)) - IF p = Owner[m] THEN 1 ELSE 0
        /\ Cardinality(Active(p)') \in Nat
  BY ActiveOut
<1>1. TypeOK'
  <2>1. moving' \in [Procs -> Nat]
    BY <1>a DEF TypeOK, CountInv
  <2> QED
    BY <2>1 DEF TypeOK
<1>2. SqliteInv'
  BY DEF SqliteInv
<1>3. MoverInv'
  BY DEF MoverInv, TypeOK
<1>4. HoldInv'
  BY DEF HoldInv
<1>5. CountInv'
  <2>1. \A p \in Procs : Running(p)' = Running(p)
    BY RunningSame
  <2> QED
    BY <1>a, <2>1 DEF CountInv, TypeOK
<1>6. PlaceInv'
  BY DEF PlaceInv, CheckStaysTrue
<1>7. QED
  BY <1>1, <1>2, <1>3, <1>4, <1>5, <1>6

\* The folder moves under no running change.
LEMMA MoveFolderKeeps ==
    ASSUME IInv, NEW m \in Movers, NEW to \in Places, MoveFolder(m, to)
    PROVE  IInv'
<1> USE DEF MoveFolder
<1>1. TypeOK'
  BY DEF TypeOK
<1>2. SqliteInv'
  BY DEF SqliteInv
<1>3. MoverInv'
  BY DEF MoverInv
<1>4. HoldInv'
  BY DEF HoldInv
<1>5. CountInv'
  BY DEF CountInv, Running, Mine, Active
<1>6. PlaceInv'
  BY DEF PlaceInv, CheckStaysTrue, TypeOK, MoverInv, SqliteInv, HoldInv
<1>7. QED
  BY <1>1, <1>2, <1>3, <1>4, <1>5, <1>6

\* The pointer follows under no running change.
LEMMA CommitPointerKeeps ==
    ASSUME IInv, NEW m \in Movers, CommitPointer(m)
    PROVE  IInv'
<1> USE DEF CommitPointer
<1>1. TypeOK'
  BY DEF TypeOK
<1>2. SqliteInv'
  BY DEF SqliteInv
<1>3. MoverInv'
  BY DEF MoverInv
<1>4. HoldInv'
  BY DEF HoldInv
<1>5. CountInv'
  BY DEF CountInv, Running, Mine, Active
<1>6. PlaceInv'
  BY DEF PlaceInv, CheckStaysTrue
<1>7. QED
  BY <1>1, <1>2, <1>3, <1>4, <1>5, <1>6

\* A move that is done is no longer counted, nor in the lock.
LEMMA DoneKeeps == ASSUME IInv, NEW m \in Movers, Done(m) PROVE IInv'
<1> USE DEF Done, EndAlone, Drop
<1>a. \A p \in Procs :
        /\ Cardinality(Active(p)') =
             Cardinality(Active(p)) - IF p = Owner[m] THEN 1 ELSE 0
        /\ Cardinality(Active(p)') \in Nat
  BY ActiveOut
<1>1. TypeOK'
  <2>1. moving' \in [Procs -> Nat]
    BY <1>a DEF TypeOK, CountInv
  <2> QED
    BY <2>1 DEF TypeOK
<1>2. SqliteInv'
  BY DEF SqliteInv
<1>3. MoverInv'
  BY DEF MoverInv, TypeOK
<1>4. HoldInv'
  BY DEF HoldInv
<1>5. CountInv'
  <2>1. \A p \in Procs : Running(p)' = Running(p)
    BY RunningSame
  <2> QED
    BY <1>a, <2>1 DEF CountInv, TypeOK
<1>6. PlaceInv'
  BY DEF PlaceInv, CheckStaysTrue
<1>7. QED
  BY <1>1, <1>2, <1>3, <1>4, <1>5, <1>6

\* A start finds the folder where it is.
LEMMA StartKeeps == ASSUME IInv, NEW p \in Procs, Start(p) PROVE IInv'
<1> USE DEF Start
<1>1. TypeOK'
  BY DEF TypeOK
<1>2. SqliteInv'
  BY DEF SqliteInv
<1>3. MoverInv'
  BY DEF MoverInv
<1>4. HoldInv'
  BY DEF HoldInv
<1>5. CountInv'
  BY DEF CountInv, Running, Mine, Active
<1>6. PlaceInv'
  BY DEF PlaceInv, CheckStaysTrue
<1>7. QED
  BY <1>1, <1>2, <1>3, <1>4, <1>5, <1>6

\* A process that dies takes its holds and its counts with it.
LEMMA StopKeeps == ASSUME IInv, NEW p \in Procs, Stop(p) PROVE IInv'
<1> USE DEF Stop
<1>1. TypeOK'
  BY DEF TypeOK
<1>2. SqliteInv'
  BY DEF SqliteInv
<1>3. MoverInv'
  BY DEF MoverInv
<1>4. HoldInv'
  BY DEF HoldInv, TypeOK
<1>5. CountInv'
  <2>1. Running(p)' = {} /\ Active(p)' = {}
    BY DEF Running, Mine, Active, TypeOK
  <2>2. \A q \in Procs \ {p} :
          Running(q)' = Running(q) /\ Active(q)' = Active(q)
    BY DEF Running, Mine, Active, TypeOK
  <2> QED
    BY <2>1, <2>2, FS_EmptySet DEF CountInv, TypeOK
<1>6. PlaceInv'
  BY DEF PlaceInv, CheckStaysTrue
<1>7. QED
  BY <1>1, <1>2, <1>3, <1>4, <1>5, <1>6

--------------------------------------------------------------------------------

\* Nothing runs at first, and nothing is held.
LEMMA InitHolds == Init => IInv
<1> SUFFICES ASSUME Init PROVE IInv
  OBVIOUS
<1> USE DEF Init
<1>1. TypeOK /\ SqliteInv /\ MoverInv /\ HoldInv /\ PlaceInv
  BY DEF TypeOK, SqliteInv, MoverInv, HoldInv, PlaceInv, CheckStaysTrue
<1>2. \A p \in Procs : Running(p) = {} /\ Active(p) = {}
  BY DEF Running, Mine, Active
<1>3. CountInv
  BY <1>2, FS_EmptySet DEF CountInv
<1>4. QED
  BY <1>1, <1>3

\* Every step keeps the invariant, and so does a step of something else.
LEMMA NextKeeps == IInv /\ [Next]_vars => IInv'
<1> SUFFICES ASSUME IInv, [Next]_vars PROVE IInv'
  OBVIOUS
<1>1. ASSUME NEW c \in Changes, Ask(c) \/ Answer(c) \/ Busy(c) \/ Exit(c)
      PROVE  IInv'
  BY <1>1, AskKeeps, RefuseMovingKeeps, JoinKeeps, RefuseQueuedKeeps,
     StartTakeKeeps, TakeKeeps, EnterKeeps, RefuseMovedKeeps, BusyKeeps,
     ExitKeeps DEF Answer
<1>2. ASSUME NEW m \in Movers,
             \/ BeginAlone(m) \/ Attempt(m) \/ GiveUp(m)
             \/ CommitPointer(m) \/ Done(m)
      PROVE  IInv'
  BY <1>2, BeginAloneKeeps, ReadKeeps, ReserveKeeps, AskAgainKeeps, CommitKeeps,
     GiveUpKeeps, CommitPointerKeeps, DoneKeeps DEF Attempt
<1>3. ASSUME NEW m \in Movers, NEW to \in Places, MoveFolder(m, to) PROVE IInv'
  BY <1>3, MoveFolderKeeps
<1>4. ASSUME NEW p \in Procs, Start(p) \/ Stop(p) PROVE IInv'
  BY <1>4, StartKeeps, StopKeeps
<1>5. CASE UNCHANGED vars
  <2> USE <1>5 DEF vars
  <2>1. TypeOK' /\ SqliteInv' /\ MoverInv' /\ HoldInv' /\ PlaceInv'
    BY DEF TypeOK, SqliteInv, MoverInv, HoldInv, PlaceInv, CheckStaysTrue
  <2>2. CountInv'
    BY DEF CountInv, Running, Mine, Active
  <2> QED
    BY <2>1, <2>2
<1>6. QED
  BY <1>1, <1>2, <1>3, <1>4, <1>5 DEF Next

\* The invariant says that whoever is alone is: the change's process would
\* have its read in `shared`, where the move's write is by itself.
LEMMA InvExcludes == IInv => Exclusion
<1> SUFFICES ASSUME IInv, NEW m \in Movers, mpc[m] = "alone"
             PROVE  /\ \A c \in Changes : pc[c] # "in"
                    /\ \A n \in Movers \ {m} : mpc[n] # "alone"
  BY DEF Exclusion
<1>1. writer = m /\ shared = {m} /\ usable
  BY DEF MoverInv, SqliteInv, TypeOK
<1>2. ASSUME NEW c \in Changes, pc[c] = "in" PROVE FALSE
  <2>1. Owner[c] \in shared
    BY <1>1, <1>2 DEF HoldInv
  <2> QED
    BY <1>1, <2>1
<1>3. ASSUME NEW n \in Movers \ {m} PROVE mpc[n] # "alone"
  BY <1>1, <1>3 DEF MoverInv
<1>4. QED
  BY <1>2, <1>3

\* The strengthening holds in every reachable state.
LEMMA Inductive == Spec => []IInv
<1>1. Init => IInv
  BY InitHolds
<1>2. IInv /\ [Next]_vars => IInv'
  BY NextKeeps
<1>3. QED
  BY <1>1, <1>2, PTL DEF Spec

\* Every variable keeps its type; no count of holds or of moves goes below
\* zero, whatever joins, is refused, ends or dies.
THEOREM TypeCorrect == Spec => []TypeOK
<1>1. IInv => TypeOK
  OBVIOUS
<1>2. QED
  BY <1>1, Inductive, PTL

\* A move or a recovery that has the lock is alone: no change runs in any
\* process and no other move does (DataDirLock, `alone`).
THEOREM MutualExclusion == Spec => []Exclusion
<1>1. QED
  BY InvExcludes, Inductive, PTL

\* A change that runs works where the data folder is, for as long as it runs
\* (DataDirLock, takeShared: "so the check stays true").
THEOREM RunsWhereTheFolderIs == Spec => []CheckStaysTrue
<1>1. IInv => CheckStaysTrue
  BY DEF PlaceInv
<1>2. QED
  BY <1>1, Inductive, PTL

--------------------------------------------------------------------------------
(* Who is refused, and who is let in.                                          *)

\* A take refused so far is one there was, and not the one under way; whoever
\* is queued did so for that one, one before it, or the next.
TakeInv ==
    \A p \in Procs :
       /\ refused[p] <= takes[p]
       /\ taking[p] # None => refused[p] < takes[p]
QueueInv ==
    \A c \in Changes : pc[c] = "queued" =>
       queuedFor[c] <= takes[Owner[c]] + IF taking[Owner[c]] = None THEN 1 ELSE 0

\* A change that is asked for, or runs, does so in one that runs.
NestInv ==
    \A c \in Changes : Outer[c] # None /\ pc[c] # "out" => pc[Outer[c]] = "in"

AskInv == TakeInv /\ QueueInv /\ NestInv /\ RefusalReachesTheQueued

\* What a step leaves alone, it leaves true.
LEMMA AskSame ==
    ASSUME AskInv, UNCHANGED <<pc, queuedFor, late, taking, takes, refused>>
    PROVE  AskInv'
  BY DEF AskInv, TakeInv, QueueInv, NestInv, RefusalReachesTheQueued

\* A change that asks queues for a take that was not refused yet.
LEMMA AskAsks ==
    ASSUME IInv, AskInv, NEW c \in Changes, Ask(c)
    PROVE  AskInv'
<1>1. Owner[c] \in Procs
  BY OwnerAssumption
<1>2. TakeInv'
  BY DEF Ask, AskInv, TakeInv, counts
<1>3. QueueInv'
  BY <1>1 DEF Ask, AskInv, QueueInv, counts, TypeOK
<1>4. NestInv'
  BY DEF Ask, AskInv, NestInv, TypeOK
<1>5. RefusalReachesTheQueued'
  BY <1>1
  DEF Ask, AskInv, TakeInv, RefusalReachesTheQueued, counts, TypeOK
<1>6. QED
  BY <1>2, <1>3, <1>4, <1>5 DEF AskInv

\* A change that leaves the queue or goes on leaves the others queued.
LEMMA AnswerAsks ==
    ASSUME IInv, AskInv, NEW c \in Changes,
           \/ RefuseMoving(c) \/ Join(c) \/ RefuseQueued(c) \/ StartTake(c)
           \/ Take(c) \/ Enter(c)
    PROVE  AskInv'
<1>1. /\ Owner \in [Changes \cup Movers -> Procs]
      /\ \A d \in Changes : Outer[d] # None => Outer[d] \in Changes
  BY OwnerAssumption, OuterAssumption
<1>2. CASE RefuseMoving(c) \/ Join(c) \/ RefuseQueued(c)
  <2>1. /\ pc[c] = "queued" /\ pc' = [pc EXCEPT ![c] = pc'[c]]
        /\ pc'[c] \in {"out", "in"}
        /\ \A d \in Changes \ {c} : queuedFor'[d] = queuedFor[d]
                                    /\ late'[d] = late[d]
        /\ UNCHANGED <<taking, takes, refused>>
    BY <1>2
    DEF RefuseMoving, Join, RefuseQueued, MayJoin, Permitted, Turned, Dequeued,
        counts, TypeOK
  <2>2. TakeInv' /\ QueueInv'
    BY <1>1, <2>1 DEF AskInv, TakeInv, QueueInv, TypeOK
  <2>3. NestInv'
    BY <1>1, <2>1 DEF AskInv, NestInv, TypeOK
  <2>4. RefusalReachesTheQueued'
    BY <1>1, <2>1 DEF AskInv, RefusalReachesTheQueued, TypeOK
  <2>5. QED
    BY <2>2, <2>3, <2>4 DEF AskInv
<1>3. CASE StartTake(c)
  <2>1. /\ pc[c] = "queued" /\ pc' = [pc EXCEPT ![c] = "taking"]
        /\ \A d \in Changes \ {c} : queuedFor'[d] = queuedFor[d]
                                    /\ late'[d] = late[d]
        /\ taking[Owner[c]] = None /\ holders[Owner[c]] = 0
        /\ taking' = [taking EXCEPT ![Owner[c]] = c]
        /\ takes' = [takes EXCEPT ![Owner[c]] = @ + 1]
        /\ refused' = refused
    BY <1>3 DEF StartTake, Permitted, Dequeued, TypeOK
  <2>2. TakeInv'
    BY <1>1, <2>1, NoneAssumption DEF AskInv, TakeInv, TypeOK
  <2>3. QueueInv'
    BY <1>1, <2>1, NoneAssumption DEF AskInv, QueueInv, TypeOK
  <2>4. NestInv'
    BY <1>1, <2>1 DEF AskInv, NestInv, TypeOK
  <2>5. RefusalReachesTheQueued'
    BY <1>1, <2>1 DEF AskInv, RefusalReachesTheQueued, TypeOK
  <2>6. QED
    BY <2>2, <2>3, <2>4, <2>5 DEF AskInv
<1>4. CASE Take(c)
  BY <1>1, <1>4
  DEF Take, AskInv, TakeInv, QueueInv, NestInv, RefusalReachesTheQueued,
      counts, TypeOK
<1>5. CASE Enter(c)
  <2>1. /\ pc[c] = "checking" /\ pc' = [pc EXCEPT ![c] = "in"]
        /\ taking' = [taking EXCEPT ![Owner[c]] = None]
        /\ UNCHANGED <<queuedFor, late, takes, refused>>
    BY <1>5 DEF Enter
  <2>2. TakeInv' /\ QueueInv'
    BY <1>1, <2>1 DEF AskInv, TakeInv, QueueInv, TypeOK
  <2>3. NestInv' /\ RefusalReachesTheQueued'
    BY <1>1, <2>1 DEF AskInv, NestInv, RefusalReachesTheQueued, TypeOK
  <2>4. QED
    BY <2>2, <2>3 DEF AskInv
<1>6. QED
  BY <1>2, <1>3, <1>4, <1>5

\* A refused take reaches everyone queued in its process: each came before it
\* ended, for it or for one before it.
LEMMA RefusedAsks ==
    ASSUME IInv, AskInv, NEW c \in Changes, Busy(c) \/ RefuseMoved(c)
    PROVE  AskInv'
<1>1. /\ Owner \in [Changes \cup Movers -> Procs]
      /\ \A d \in Changes : Outer[d] # None => Outer[d] \in Changes
  BY OwnerAssumption, OuterAssumption
<1>2. /\ pc[c] \in {"taking", "checking"} /\ pc' = [pc EXCEPT ![c] = "out"]
      /\ taking' = [taking EXCEPT ![Owner[c]] = None]
      /\ refused' = [refused EXCEPT ![Owner[c]] = takes[Owner[c]]]
      /\ late' = [d \in Changes |-> late[d] /\ Owner[d] # Owner[c]]
      /\ UNCHANGED <<queuedFor, takes>>
  BY DEF Busy, RefuseMoved, TakeRefused, Turned
<1>3. taking[Owner[c]] # None
  BY <1>2, NoneAssumption DEF HoldInv
<1>4. TakeInv' /\ QueueInv'
  BY <1>1, <1>2 DEF AskInv, TakeInv, QueueInv, TypeOK
<1>5. NestInv'
  BY <1>1, <1>2 DEF AskInv, NestInv, TypeOK
<1>6. RefusalReachesTheQueued'
  <2>1. ASSUME NEW d \in Changes, pc'[d] = "queued", Owner[d] = Owner[c]
        PROVE  refused'[Owner[d]] >= queuedFor'[d] /\ ~late'[d]
    <3>1. pc[d] = "queued"
      BY <1>2, <2>1 DEF TypeOK
    <3>2. queuedFor[d] <= takes[Owner[c]]
      BY <1>1, <1>3, <2>1, <3>1 DEF AskInv, QueueInv, TypeOK
    <3>3. refused'[Owner[d]] = takes[Owner[c]] /\ queuedFor' = queuedFor
          /\ ~late'[d]
      BY <1>1, <1>2, <2>1 DEF TypeOK
    <3>4. QED
      BY <1>1, <3>2, <3>3 DEF TypeOK
  <2>2. ASSUME NEW d \in Changes, pc'[d] = "queued", Owner[d] # Owner[c]
        PROVE  (refused'[Owner[d]] >= queuedFor'[d]) = ~late'[d]
    <3>1. pc[d] = "queued" /\ refused'[Owner[d]] = refused[Owner[d]]
          /\ queuedFor' = queuedFor /\ late'[d] = late[d]
      BY <1>1, <1>2, <2>2 DEF TypeOK
    <3>2. QED
      BY <3>1 DEF AskInv, RefusalReachesTheQueued
  <2>3. QED
    BY <2>1, <2>2 DEF RefusalReachesTheQueued
<1>7. QED
  BY <1>4, <1>5, <1>6 DEF AskInv

\* A change ends after those it holds, and a process with all it runs.
LEMMA EndAsks ==
    ASSUME IInv, AskInv,
           (\E c \in Changes : Exit(c)) \/ (\E p \in Procs : Stop(p))
    PROVE  AskInv'
<1>1. /\ Owner \in [Changes \cup Movers -> Procs]
      /\ \A d \in Changes : Outer[d] # None =>
           Outer[d] \in Changes /\ Owner[Outer[d]] = Owner[d]
  BY OwnerAssumption, OuterAssumption
<1>2. ASSUME NEW c \in Changes, Exit(c) PROVE AskInv'
  <2>1. /\ pc[c] = "in" /\ pc' = [pc EXCEPT ![c] = "out"]
        /\ \A d \in Changes : Outer[d] = c => pc[d] = "out"
        /\ UNCHANGED <<queuedFor, late, taking, takes, refused>>
    BY <1>2 DEF Exit, Turned
  <2>2. TakeInv' /\ QueueInv' /\ RefusalReachesTheQueued'
    BY <1>1, <2>1
    DEF AskInv, TakeInv, QueueInv, RefusalReachesTheQueued, TypeOK
  <2>3. NestInv'
    BY <1>1, <2>1 DEF AskInv, NestInv, TypeOK
  <2>4. QED
    BY <2>2, <2>3 DEF AskInv
<1>3. ASSUME NEW p \in Procs, Stop(p) PROVE AskInv'
  <2>1. /\ taking' = [taking EXCEPT ![p] = None]
        /\ takes' = [takes EXCEPT ![p] = 0]
        /\ refused' = [refused EXCEPT ![p] = 0]
        /\ pc' = [c \in Changes |-> IF Owner[c] = p THEN "out" ELSE pc[c]]
        /\ queuedFor' = [c \in Changes |->
                           IF Owner[c] = p THEN 0 ELSE queuedFor[c]]
        /\ late' = [c \in Changes |-> late[c] /\ Owner[c] # p]
    BY <1>3 DEF Stop
  <2>2. TakeInv' /\ QueueInv'
    BY <1>1, <2>1 DEF AskInv, TakeInv, QueueInv, TypeOK
  <2>3. NestInv' /\ RefusalReachesTheQueued'
    BY <1>1, <2>1 DEF AskInv, NestInv, RefusalReachesTheQueued, TypeOK
  <2>4. QED
    BY <2>2, <2>3 DEF AskInv
<1>4. QED
  BY <1>2, <1>3

\* Everything else leaves the queue alone.
LEMMA NextAsks == IInv /\ AskInv /\ [Next]_vars => AskInv'
<1> SUFFICES ASSUME IInv, AskInv, [Next]_vars PROVE AskInv'
  OBVIOUS
<1>1. ASSUME NEW m \in Movers,
             \/ BeginAlone(m) \/ Attempt(m) \/ GiveUp(m)
             \/ CommitPointer(m) \/ Done(m)
             \/ \E to \in Places : MoveFolder(m, to)
      PROVE  AskInv'
  <2>1. UNCHANGED <<pc, queuedFor, late, taking, takes, refused>>
    BY <1>1
    DEF BeginAlone, Attempt, Read, Reserve, AskAgain, Commit, GiveUp, EndAlone,
        CommitPointer, Done, MoveFolder, counts, changes
  <2>2. QED
    BY <2>1, AskSame
<1>2. ASSUME NEW p \in Procs, Start(p) PROVE AskInv'
  BY <1>2, AskSame DEF Start, counts, changes
<1>3. CASE UNCHANGED vars
  BY <1>3, AskSame DEF vars, counts, changes
<1>4. QED
  BY <1>1, <1>2, <1>3, AskAsks, AnswerAsks, RefusedAsks, EndAsks
  DEF Next, Answer

\* A take refused refuses those that queued while it was asked for and nobody
\* who came after, and a change nested in one that holds the lock is let in,
\* though a move of its own process waits (DataDirLock, held).
THEOREM RefusesOnlyTheQueued == Spec => []RefusesRightly
<1>1. Init => AskInv
  BY DEF Init, AskInv, TakeInv, QueueInv, NestInv, RefusalReachesTheQueued
<1>2. IInv /\ AskInv => RefusesRightly
  <2> SUFFICES ASSUME IInv, AskInv PROVE NestedLetIn
    BY DEF AskInv, RefusesRightly
  <2>1. ASSUME NEW c \in Changes, Outer[c] # None, pc[c] = "queued"
        PROVE  MayJoin(c)
    <3>1. /\ Outer[c] \in Changes /\ Owner[Outer[c]] = Owner[c]
          /\ Owner[c] \in Procs
      BY <2>1, OwnerAssumption, OuterAssumption
    <3>2. pc[Outer[c]] = "in"
      BY <2>1, <3>1 DEF AskInv, NestInv
    <3>3. holders[Owner[c]] > 0
      BY <3>1, <3>2, NobodyRuns DEF TypeOK
    <3>4. taking[Owner[c]] = None
      BY <3>1, <3>3 DEF HoldInv
    <3>5. QED
      BY <2>1, <3>3, <3>4 DEF MayJoin, Permitted, Barred
  <2>2. QED
    BY <2>1 DEF NestedLetIn
<1>3. QED
  BY <1>1, <1>2, NextAsks, Inductive, PTL DEF Spec

--------------------------------------------------------------------------------
(* The lock implements DataDirHold. *)

Inside == [c \in Changes |-> IF pc[c] = "in" THEN where[Owner[c]] ELSE None]
Alone == IF \E m \in Movers : mpc[m] = "alone"
           THEN CHOOSE m \in Movers : mpc[m] = "alone" ELSE None

\* The mapped holder is the one move that is alone, if there is one.
LEMMA AloneIs ==
    ASSUME IInv
    PROVE  /\ \A m \in Movers : mpc[m] = "alone" => Alone = m
           /\ (\A m \in Movers : mpc[m] # "alone") => Alone = None
<1>1. ASSUME NEW m \in Movers, mpc[m] = "alone" PROVE Alone = m
  <2>1. \A n \in Movers : mpc[n] = "alone" => n = m
    BY <1>1, InvExcludes DEF Exclusion
  <2> QED
    BY <1>1, <2>1 DEF Alone
<1>2. ASSUME \A m \in Movers : mpc[m] # "alone" PROVE Alone = None
  BY <1>2 DEF Alone
<1>3. QED
  BY <1>1, <1>2

\* The first state maps to a first state.
LEMMA InitMaps == Init => Promise!Init
<1> SUFFICES ASSUME Init PROVE Promise!Init
  OBVIOUS
<1>1. Inside = [c \in Changes |-> None] /\ Alone = None
  BY DEF Init, Inside, Alone
<1>2. QED
  BY <1>1 DEF Init, Promise!Init, Promise!Idle, Inside, Alone

\* Steps that let no change in or out, make no move alone and move no folder
\* map to a stutter.
LEMMA Stutters ==
    ASSUME IInv, IInv', folder' = folder,
           \A c \in Changes : (pc'[c] = "in") = (pc[c] = "in"),
           \A m \in Movers : (mpc'[m] = "alone") = (mpc[m] = "alone")
    PROVE  UNCHANGED <<folder, Inside, Alone>>
<1>1. \A c \in Changes : pc[c] = "in" => where'[Owner[c]] = where[Owner[c]]
  BY DEF PlaceInv, CheckStaysTrue
<1>2. Inside' = Inside
  BY <1>1 DEF Inside
<1>3. Alone' = Alone
  <2>1. CASE \E m \in Movers : mpc[m] = "alone"
    <3>1. PICK m \in Movers : mpc[m] = "alone" /\ mpc'[m] = "alone"
      BY <2>1
    <3>2. Alone = m
      BY <3>1, AloneIs
    <3>3. \A n \in Movers : mpc'[n] = "alone" => n = m
      BY <3>1, InvExcludes DEF Exclusion
    <3>4. Alone' = m
      BY <3>1, <3>3 DEF Alone
    <3> QED
      BY <3>2, <3>4
  <2>2. CASE \A m \in Movers : mpc[m] # "alone"
    BY <2>2 DEF Alone
  <2> QED
    BY <2>1, <2>2
<1>4. QED
  BY <1>2, <1>3

\* The same after a step.
LEMMA NextExcludes == IInv' => Exclusion'
  BY InvExcludes, PTL

\* A change let in: no move is alone before, nor after.
LEMMA EnterMaps ==
    ASSUME IInv, IInv', NEW c \in Changes, Join(c) \/ Enter(c)
    PROVE  Promise!Enter(c)
<1>1. /\ pc[c] # "in" /\ pc' = [pc EXCEPT ![c] = "in"]
      /\ mpc' = mpc /\ folder' = folder /\ where' = where
  BY DEF Join, MayJoin, Permitted, Enter, place
<1>2. pc'[c] = "in" /\ where[Owner[c]] = folder
  BY <1>1 DEF TypeOK, PlaceInv, CheckStaysTrue
<1>3. \A m \in Movers : mpc[m] # "alone"
  BY <1>1, <1>2, NextExcludes DEF Exclusion
<1>4. Alone = None /\ Alone' = None
  BY <1>1, <1>3 DEF Alone
<1>5. Inside[c] = None /\ Inside' = [Inside EXCEPT ![c] = folder]
  BY <1>1, <1>2 DEF Inside, TypeOK
<1>6. QED
  BY <1>1, <1>4, <1>5 DEF Promise!Enter, Inside, Alone

\* Changes that end, or a move that does: those of a process that died.
LEMMA LeaveMaps ==
    ASSUME IInv, IInv', folder' = folder,
           \A c \in Changes : pc'[c] = "in" => pc[c] = "in",
           \A m \in Movers : mpc'[m] = "alone" => mpc[m] = "alone"
    PROVE  Promise!Leave
<1>1. \A c \in Changes : pc'[c] = "in" => where'[Owner[c]] = where[Owner[c]]
  BY DEF PlaceInv, CheckStaysTrue
<1> DEFINE gone == {c \in Changes : pc'[c] # "in"}
<1>2. Inside' = [c \in Changes |-> IF c \in gone THEN None ELSE Inside[c]]
  BY <1>1 DEF Inside
<1>3. Alone' \in {Alone, None}
  <2>1. CASE \E m \in Movers : mpc'[m] = "alone"
    <3>1. PICK m \in Movers : mpc'[m] = "alone" /\ mpc[m] = "alone"
      BY <2>1
    <3>2. \A n \in Movers : mpc'[n] = "alone" => n = m
      BY <3>1, InvExcludes DEF Exclusion
    <3>3. Alone' = m
      BY <3>1, <3>2 DEF Alone
    <3> QED
      BY <3>1, <3>3, AloneIs
  <2>2. CASE \A m \in Movers : mpc'[m] # "alone"
    BY <2>2 DEF Alone
  <2> QED
    BY <2>1, <2>2
<1>4. gone \in SUBSET Changes
  OBVIOUS
<1>5. QED
  BY <1>2, <1>3, <1>4 DEF Promise!Leave, Inside, Alone

\* A move that gets the lock: nothing runs.
LEMMA CommitMaps ==
    ASSUME IInv, IInv', NEW m \in Movers, Commit(m), mpc'[m] = "alone"
    PROVE  Promise!Seize(m)
<1>1. /\ pc' = pc /\ folder' = folder /\ where' = where
      /\ mpc[m] = "committing" /\ \A n \in Movers \ {m} : mpc'[n] = mpc[n]
  BY DEF Commit, place, changes, TypeOK
<1>2. /\ \A c \in Changes : pc[c] # "in"
      /\ \A n \in Movers \ {m} : mpc'[n] # "alone"
  BY <1>1, NextExcludes DEF Exclusion
<1>3. \A n \in Movers : mpc[n] # "alone"
  BY <1>1, <1>2
<1>4. Inside = [c \in Changes |-> None] /\ Inside' = Inside
  BY <1>1, <1>2 DEF Inside
<1>5. Alone = None
  BY <1>3 DEF Alone
<1>6. Alone' = m
  BY <1>2 DEF Alone
<1>7. QED
  BY <1>1, <1>4, <1>5, <1>6 DEF Promise!Seize, Promise!Idle, Inside, Alone

\* The folder moves under the one that is alone.
LEMMA MoveMaps ==
    ASSUME IInv, IInv', NEW m \in Movers, NEW to \in Places, MoveFolder(m, to)
    PROVE  Promise!Relocate
<1>1. /\ folder' \in Places /\ mpc[m] = "alone"
      /\ pc' = pc /\ where' = where /\ mpc' = mpc
  BY DEF MoveFolder, changes
<1>2. Inside' = Inside /\ Alone' = Alone
  BY <1>1 DEF Inside, Alone
<1>3. Alone # None
  BY <1>1, AloneIs
<1>4. QED
  BY <1>1, <1>2, <1>3 DEF Promise!Relocate, Inside, Alone

\* Every step maps to one of the promise's, or to a stutter.
LEMMA NextMaps ==
    ASSUME IInv, IInv', [Next]_vars
    PROVE  [Promise!Next]_(Promise!vars)
<1> DEFINE Maps == Promise!Next \/ UNCHANGED <<folder, Inside, Alone>>
<1> USE DEF place, changes
<1>1. ASSUME NEW c \in Changes, Ask(c) \/ Answer(c) \/ Busy(c) \/ Exit(c)
      PROVE  Maps
  <2>1. CASE Join(c) \/ Enter(c)
    BY <2>1, EnterMaps DEF Promise!Next
  <2>2. CASE Exit(c)
    <3>1. /\ folder' = folder /\ mpc' = mpc
          /\ \A d \in Changes : pc'[d] = "in" => pc[d] = "in"
      BY <2>2 DEF Exit, Turned, TypeOK
    <3> QED
      BY <3>1, LeaveMaps DEF Promise!Next
  <2>3. CASE \/ Ask(c) \/ RefuseMoving(c) \/ RefuseQueued(c) \/ StartTake(c)
             \/ Take(c) \/ RefuseMoved(c) \/ Busy(c)
    <3>1. /\ folder' = folder /\ mpc' = mpc
          /\ \A d \in Changes : (pc'[d] = "in") = (pc[d] = "in")
      BY <2>3 DEF Ask, RefuseMoving, RefuseQueued, StartTake, Take, RefuseMoved,
             Busy, Turned, Permitted, TakeRefused, TypeOK
    <3> QED
      BY <3>1, Stutters
  <2> QED
    BY <1>1, <2>1, <2>2, <2>3 DEF Answer
<1>2. ASSUME NEW m \in Movers,
             \/ BeginAlone(m) \/ Attempt(m) \/ GiveUp(m)
             \/ CommitPointer(m) \/ Done(m)
      PROVE  Maps
  <2>1. CASE Commit(m) /\ mpc'[m] = "alone"
    BY <2>1, CommitMaps DEF Promise!Next
  <2>2. CASE Done(m)
    <3>1. /\ folder' = folder /\ pc' = pc
          /\ \A n \in Movers : mpc'[n] = "alone" => mpc[n] = "alone"
      BY <2>2 DEF Done, EndAlone, TypeOK
    <3> QED
      BY <3>1, LeaveMaps DEF Promise!Next
  <2>3. CASE \/ BeginAlone(m) \/ Read(m) \/ Reserve(m) \/ AskAgain(m)
             \/ Commit(m) /\ mpc'[m] # "alone"
             \/ GiveUp(m) \/ CommitPointer(m)
    <3>1. /\ folder' = folder /\ pc' = pc
          /\ \A n \in Movers : (mpc'[n] = "alone") = (mpc[n] = "alone")
      BY <2>3 DEF BeginAlone, Read, Reserve, AskAgain, Commit, GiveUp, EndAlone,
             CommitPointer, TypeOK
    <3> QED
      BY <3>1, Stutters
  <2> QED
    BY <1>2, <2>1, <2>2, <2>3 DEF Attempt
<1>3. ASSUME NEW m \in Movers, NEW to \in Places, MoveFolder(m, to) PROVE Maps
  BY <1>3, MoveMaps DEF Promise!Next
<1>4. ASSUME NEW p \in Procs, Start(p) PROVE Maps
  <2>1. folder' = folder /\ pc' = pc /\ mpc' = mpc
    BY <1>4 DEF Start
  <2> QED
    BY <2>1, Stutters
<1>5. ASSUME NEW p \in Procs, Stop(p) PROVE Maps
  <2>1. /\ folder' = folder
        /\ \A c \in Changes : pc'[c] = "in" => pc[c] = "in"
        /\ \A m \in Movers : mpc'[m] = "alone" => mpc[m] = "alone"
    BY <1>5 DEF Stop
  <2> QED
    BY <2>1, LeaveMaps DEF Promise!Next
<1>6. ASSUME UNCHANGED vars PROVE Maps
  <2>1. /\ folder' = folder
        /\ \A c \in Changes : (pc'[c] = "in") = (pc[c] = "in")
        /\ \A m \in Movers : (mpc'[m] = "alone") = (mpc[m] = "alone")
    BY <1>6 DEF vars
  <2> QED
    BY <2>1, Stutters
<1>7. Maps
  <2> HIDE DEF Maps, IInv
  <2> QED
    BY <1>1, <1>2, <1>3, <1>4, <1>5, <1>6 DEF Next
<1>8. QED
  BY <1>7 DEF Promise!vars, Inside, Alone

\* The lock keeps DataDirHold's promise: a change works in the folder where it
\* is, any number at once, and the folder moves only while none does.
THEOREM ImplementsHold == Spec => KeepsPromise
<1>1. Init => Promise!Init
  BY InitMaps
<1>2. IInv /\ IInv' /\ [Next]_vars => [Promise!Next]_(Promise!vars)
  BY NextMaps
<1>3. QED
  BY <1>1, <1>2, Inductive, PTL DEF Spec, KeepsPromise, Promise!Spec

================================================================================
