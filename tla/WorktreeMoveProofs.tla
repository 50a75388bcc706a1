--------------------------- MODULE WorktreeMoveProofs ---------------------------
(* What is proved of WorktreeMove, for any worktrees, places, processes and     *)
(* fibers: a record has one worker. A worker's record is there, in its own      *)
(* process's name, and marked as under way in it; who takes one over has seen   *)
(* that its owner is gone, or that it is its own process's and not marked.      *)
EXTENDS WorktreeMove, TLAPS

InHand == Steps \ {"idle", "asked", "again", "next", "adding", "made"}
AtWork == InHand \ {"dead"}
Asked == [link : Worktrees, from : Places \cup {None}, to : Places]
Fibers == [at : Steps, rec : Records \cup {None}, own : BOOLEAN, todo : SUBSET Records,
           move : Asked \cup {None}, captured : BOOLEAN]

\* A fiber has a record in its hand as its step says, and what it was asked for.
Shaped(f) ==
    /\ f.at \in InHand <=> f.rec # None
    /\ f.at \in {"asked", "again"} => f.move \in Asked /\ f.move.from \in Places
    /\ f.at \in {"adding", "made"} => f.move \in Asked
    /\ f.at \notin {"adding", "made"} /\ f.move # None => f.move.from \in Places
FiberInv == task \in [Tasks -> Fibers] /\ \A t \in Tasks : Shaped(task[t])

RecordInv ==
    /\ moving \in [Places -> Records \cup {None}]
    /\ \A p \in Places : moving[p] # None => moving[p].from = p
    /\ underWay \in [Procs -> SUBSET Places]

Usage == [moves : Nat, crashes : Nat, faults : Nat, made : Nat, notes : Nat]

\* A process's starts are counted, and no record is of one that is to come.
Past(r) == r.owner.born <= born[r.owner.proc]
BornInv ==
    /\ born \in [Procs -> Nat] /\ used \in Usage /\ used.crashes <= MaxCrashes
    /\ \A p \in Procs : born[p] <= used.crashes
    /\ \A p \in Places : moving[p] # None => Past(moving[p])
    /\ \A t \in Tasks : /\ task[t].rec # None => Past(task[t].rec)
                        /\ \A r \in task[t].todo : Past(r)

Held(t) ==
    LET p == task[t].rec.from
    IN /\ p \in underWay[Proc[t]]
       /\ moving[p] # None /\ moving[p].owner = Self(t)
HandInv == \A t \in Tasks : Working(t) => Held(t)
DeadInv ==
    \A t \in Tasks : At(t, "dead") =>
        task[t].rec.owner = Self(t) \/ task[t].rec.owner \notin Running

IInv == FiberInv /\ RecordInv /\ BornInv /\ HandInv /\ DeadInv /\ OneWorker

LEMMA InitHolds == Init => IInv
<1> SUFFICES ASSUME Init PROVE IInv
  OBVIOUS
<1>1. FiberInv
  BY DEF Init, FiberInv, Fibers, Shaped, Idle, InHand, Steps
<1>2. RecordInv
  BY DEF Init, RecordInv
<1>3. BornInv
  BY BoundAssumption DEF Init, BornInv, Usage, Idle
<1>4. HandInv /\ OneWorker
  BY DEF Init, HandInv, OneWorker, Working, Idle
<1>5. DeadInv
  BY DEF Init, DeadInv, At, Idle
<1>. QED  BY <1>1, <1>2, <1>3, <1>4, <1>5 DEF IInv

--------------------------------------------------------------------------------
(* The steps of a worker on its record.                                        *)

\* The record in hand may be marked, and so its row, whose owner stays.
Goes1(t) ==
    /\ task[t].at \in AtWork /\ task' = [task EXCEPT ![t] = task'[t]]
    /\ task'[t] \in Fibers /\ task'[t].at \in AtWork
    /\ task'[t].todo = task[t].todo /\ task'[t].move = task[t].move
    /\ task'[t].rec # None
    /\ task'[t].rec.from = task[t].rec.from /\ task'[t].rec.owner = task[t].rec.owner
    /\ UNCHANGED <<underWay, born>>
    /\ used' \in Usage /\ used'.crashes = used.crashes
    /\ \A p \in Places :
          /\ moving[p] = None <=> moving'[p] = None
          /\ moving[p] # None => /\ moving'[p].from = moving[p].from
                                 /\ moving'[p].owner = moving[p].owner
    /\ moving' \in [Places -> Records \cup {None}]

LEMMA WorkKeeps ==
    ASSUME IInv, NEW t \in Tasks, Goes1(t)
    PROVE  IInv'
<1> USE DEF Goes1, IInv
<1>1. \A u \in Tasks \ {t} : task'[u] = task[u]
  BY DEF FiberInv
<1>2. FiberInv'
  <2>1. task' \in [Tasks -> Fibers]
    BY DEF FiberInv
  <2>2. Shaped(task'[t])
    BY DEF FiberInv, Shaped, AtWork, InHand, Steps
  <2>. QED  BY <1>1, <2>1, <2>2 DEF FiberInv, Shaped
<1>3. RecordInv'
  BY DEF RecordInv
<1>4. BornInv'
  <2>1. (\A p \in Places : moving[p] # None => Past(moving[p]))'
    BY DEF BornInv, Past
  <2>2. (\A u \in Tasks : /\ task[u].rec # None => Past(task[u].rec)
                          /\ \A r \in task[u].todo : Past(r))'
    <3>1. task[t].rec # None
      BY DEF FiberInv, Shaped, AtWork
    <3>. QED  BY <1>1, <3>1 DEF BornInv, Past
  <2>. QED  BY <2>1, <2>2 DEF BornInv
<1>5. \A u \in Tasks : /\ Working(u) <=> Working(u)'
                       /\ task'[u].rec.from = task[u].rec.from \/ ~Working(u)
                       /\ Self(u)' = Self(u)
  BY <1>1 DEF Working, At, AtWork, Self, FiberInv, Shaped
<1>6. \A u \in Tasks : Working(u) => task[u].rec.from \in Places
  BY DEF FiberInv, Fibers, Working, Records
<1>7. HandInv'
  BY <1>5, <1>6 DEF HandInv, Held
<1>8. DeadInv'
  <2>1. \A u \in Tasks : At(u, "dead")' => u # t
    BY DEF At, AtWork
  <2>. QED  BY <1>1, <1>5, <2>1 DEF DeadInv, At, Running
<1>9. OneWorker'
  BY <1>5 DEF OneWorker
<1>. QED  BY <1>2, <1>3, <1>4, <1>7, <1>8, <1>9

LEMMA SpentMore ==
    ASSUME IInv, NEW kind \in {"moves", "faults", "made", "notes"}, Spent(kind)
    PROVE  used' \in Usage /\ used'.crashes = used.crashes
  BY DEF IInv, BornInv, Usage, Spent

LEMMA InHandOf ==
    ASSUME IInv, NEW t \in Tasks, task[t].at \in AtWork
    PROVE  /\ task[t] \in Fibers /\ task[t].rec \in Records /\ task[t].rec # None
           /\ task[t].rec.from \in Places /\ Held(t) /\ Working(t)
<1>1. task[t] \in Fibers /\ task[t].rec # None
  BY DEF IInv, FiberInv, Shaped, AtWork
<1>2. task[t].rec \in Records
  BY <1>1 DEF Fibers
<1>3. Working(t)
  BY <1>1 DEF Working, At, AtWork
<1>. QED  BY <1>1, <1>2, <1>3 DEF IInv, HandInv, Records

\* A step of its own on the folders, the rows or the ref, and no more.
LEMMA GoWorks ==
    ASSUME IInv, NEW t \in Tasks, task[t].at \in AtWork,
           NEW step \in AtWork, Go(t, step), UNCHANGED <<moving, underWay, born>>,
           used' \in Usage, used'.crashes = used.crashes
    PROVE  Goes1(t)
<1>1. task[t] \in Fibers /\ task[t].rec # None
  BY InHandOf
<1>2. /\ task'[t] = [task[t] EXCEPT !.at = step]
      /\ task' = [task EXCEPT ![t] = task'[t]]
  BY DEF IInv, FiberInv, Go
<1>3. task'[t] \in Fibers /\ task'[t].at = step /\ task'[t].rec = task[t].rec
      /\ task'[t].todo = task[t].todo /\ task'[t].move = task[t].move
  BY <1>1, <1>2 DEF Fibers, AtWork, InHand
<1>. QED  BY <1>1, <1>2, <1>3 DEF Goes1, IInv, RecordInv

LEMMA GitWorks ==
    ASSUME IInv, NEW t \in Tasks,
           GitRenames(t) \/ GitRecords(t) \/ GitNests(t) \/ GitFails(t) \/ Relink(t)
    PROVE  Goes1(t)
<1>1. task[t].at \in AtWork
  BY DEF GitRenames, GitRecords, GitNests, GitFails, Relink, At, AtWork, InHand, Steps
<1>2. PICK step \in AtWork : Go(t, step)
  BY DEF GitRenames, GitRecords, GitNests, GitFails, Relink, At, AtWork, InHand, Steps
<1>3. /\ UNCHANGED <<moving, underWay, born>>
      /\ UNCHANGED used \/ Spent("faults")
  BY DEF GitRenames, GitRecords, GitNests, GitFails, Relink, disks, kept
<1>4. used' \in Usage /\ used'.crashes = used.crashes
  BY <1>3, SpentMore DEF IInv, BornInv
<1>. QED  BY <1>1, <1>2, <1>3, <1>4, GoWorks

LEMMA CopyWorks ==
    ASSUME IInv, NEW t \in Tasks,
           CopyFails(t) \/ PutIn(t) \/ Repair(t) \/ RepairFails(t) \/ Undo(t) \/ Judge(t)
    PROVE  Goes1(t)
<1> USE DEF CopyFails, PutIn, Repair, RepairFails, Undo, Judge
<1>1. task[t].at \in AtWork
  BY DEF At, AtWork, InHand, Steps
<1>2. PICK step \in AtWork : Go(t, step)
  BY DEF At, AtWork, InHand, Steps
<1>3. /\ UNCHANGED <<moving, underWay, born>>
      /\ UNCHANGED used \/ Spent("faults")
  BY DEF disks, kept
<1>4. used' \in Usage /\ used'.crashes = used.crashes
  BY <1>3, SpentMore DEF IInv, BornInv
<1>. QED  BY <1>1, <1>2, <1>3, <1>4, GoWorks

\* The record, in hand and kept, marked: its place and its owner stay.
LEMMA CrossWorks ==
    ASSUME IInv, NEW t \in Tasks, Cross(t)
    PROVE  Goes1(t)
<1> DEFINE r == task[t].rec
<1>1. task[t].at = "claimed" /\ task[t].at \in AtWork
  BY DEF Cross, At, AtWork, InHand, Steps
<1>2. /\ task[t] \in Fibers /\ r \in Records /\ r # None /\ r.from \in Places
  BY <1>1, InHandOf
<1>3. /\ task'[t] = [task[t] EXCEPT !.at = "copying", !.rec.partial = TRUE]
      /\ task' = [task EXCEPT ![t] = task'[t]]
  BY DEF IInv, FiberInv, Cross
<1>4. task'[t].rec = [r EXCEPT !.partial = TRUE] /\ task'[t].rec \in Records
  <2>1. task'[t].rec = [r EXCEPT !.partial = TRUE]
    BY <1>2, <1>3 DEF Fibers
  <2>. QED  BY <1>2, <2>1 DEF Records
<1>5. /\ task'[t] \in Fibers /\ task'[t].at = "copying" /\ task'[t].rec # None
      /\ task'[t].todo = task[t].todo /\ task'[t].move = task[t].move
      /\ task'[t].rec.from = r.from /\ task'[t].rec.owner = r.owner
  BY <1>2, <1>3, <1>4, NoneAssumption DEF Fibers, Records, Steps
<1>6. /\ moving' \in [Places -> Records \cup {None}]
      /\ \A p \in Places :
            /\ moving[p] = None <=> moving'[p] = None
            /\ moving[p] # None => /\ moving'[p].from = moving[p].from
                                   /\ moving'[p].owner = moving[p].owner
  BY <1>2, NoneAssumption DEF Cross, IInv, RecordInv, Records
<1>7. UNCHANGED <<underWay, born, used>>
  BY DEF Cross
<1>. QED
  BY <1>1, <1>3, <1>5, <1>6, <1>7
  DEF Goes1, IInv, BornInv, AtWork, InHand, Steps

LEMMA CarryWorks ==
    ASSUME IInv, NEW t \in Tasks, Carry(t)
    PROVE  Goes1(t)
<1>1. task[t].at \in AtWork
  BY DEF Carry, At, AtWork, InHand, Steps
<1>2. task[t] \in Fibers /\ task[t].rec # None /\ task[t].rec.from \in Places
  BY <1>1, InHandOf
<1>3. /\ task'[t] = [task[t] EXCEPT !.at = "ref"]
      /\ task' = [task EXCEPT ![t] = task'[t]]
  BY DEF IInv, FiberInv, Carry, Go
<1>4. /\ task'[t] \in Fibers /\ task'[t].at = "ref" /\ task'[t].rec = task[t].rec
      /\ task'[t].todo = task[t].todo /\ task'[t].move = task[t].move
  BY <1>2, <1>3 DEF Fibers, Steps
<1>5. /\ moving' \in [Places -> Records \cup {None}]
      /\ \A p \in Places :
            /\ moving[p] = None <=> moving'[p] = None
            /\ moving[p] # None => /\ moving'[p].from = moving[p].from
                                   /\ moving'[p].owner = moving[p].owner
  <2>1. \/ UNCHANGED moving
        \/ moving' = [moving EXCEPT ![task[t].rec.from] =
                         IF @ = None THEN None ELSE [@ EXCEPT !.carried = TRUE]]
    BY Zenon DEF Carry
  <2>2. moving \in [Places -> Records \cup {None}]
    BY DEF IInv, RecordInv
  <2> DEFINE row == moving[task[t].rec.from]
             mark == [row EXCEPT !.carried = TRUE]
  <2>3. CASE UNCHANGED moving
    BY <2>2, <2>3
  <2>4. CASE moving' = [moving EXCEPT ![task[t].rec.from] =
                           IF @ = None THEN None ELSE [@ EXCEPT !.carried = TRUE]]
    <3>1. row # None => /\ mark \in Records /\ mark # None
                        /\ mark.from = row.from /\ mark.owner = row.owner
      BY <1>2, <2>2, NoneAssumption DEF Records
    <3>2. moving' = [moving EXCEPT ![task[t].rec.from] =
                        IF row = None THEN None ELSE mark]
      BY <1>2, <2>2, <2>4
    <3>. QED  BY <1>2, <2>2, <3>1, <3>2
  <2>. QED  BY <2>1, <2>3, <2>4
<1>6. UNCHANGED <<underWay, born, used>>
  BY DEF Carry
<1>. QED
  BY <1>1, <1>2, <1>3, <1>4, <1>5, <1>6
  DEF Goes1, IInv, BornInv, AtWork, InHand, Steps

LEMMA RefWorks ==
    ASSUME IInv, NEW t \in Tasks, RefFollows(t) \/ RefDrops(t) \/ RefFails(t)
    PROVE  Goes1(t)
<1> USE DEF RefFollows, RefDrops, RefFails
<1>1. task[t].at \in AtWork
  BY DEF At, AtWork, InHand, Steps
<1>2. task[t] \in Fibers /\ task[t].rec # None
  BY <1>1, InHandOf
<1>3. \/ Go(t, "refdrop")
      \/ \E captured \in BOOLEAN : AfterRef(t, captured)
  <2>1. TRUE \in BOOLEAN /\ FALSE \in BOOLEAN
    OBVIOUS
  <2>2. (ref[task[t].rec.from] \in {None, ref[task[t].rec.to]}) \in BOOLEAN
    OBVIOUS
  <2>3. CASE RefFollows(t)
    BY <2>1, <2>3 DEF RefFollows
  <2>4. CASE RefDrops(t)
    BY <2>2, <2>4, Zenon DEF RefDrops
  <2>5. CASE RefFails(t)
    BY <2>1, <2>5 DEF RefFails
  <2>. QED  BY <2>3, <2>4, <2>5
<1>4. /\ UNCHANGED <<moving, underWay, born>>
      /\ UNCHANGED used \/ Spent("faults")
  BY DEF disks, kept
<1>5. used' \in Usage /\ used'.crashes = used.crashes
  BY <1>4, SpentMore DEF IInv, BornInv
<1>6. CASE Go(t, "refdrop")
  BY <1>1, <1>4, <1>5, <1>6, GoWorks DEF AtWork, InHand, Steps
<1>7. ASSUME NEW captured \in BOOLEAN, AfterRef(t, captured)
      PROVE  Goes1(t)
  <2>1. PICK step \in {"wipefrom", "forget"} :
           task' = [task EXCEPT ![t].captured = captured, ![t].at = step]
    BY <1>7 DEF AfterRef
  <2>2. /\ task'[t] = [task[t] EXCEPT !.captured = captured, !.at = step]
        /\ task' = [task EXCEPT ![t] = task'[t]]
    BY <2>1 DEF IInv, FiberInv
  <2>3. /\ task'[t] \in Fibers /\ task'[t].at = step /\ task'[t].rec = task[t].rec
        /\ task'[t].todo = task[t].todo /\ task'[t].move = task[t].move
    BY <1>2, <2>2 DEF Fibers, Steps
  <2>. QED
    BY <1>1, <1>2, <1>4, <1>5, <2>2, <2>3
    DEF Goes1, IInv, RecordInv, AtWork, InHand, Steps
<1>. QED  BY <1>3, <1>6, <1>7

LEMMA WipeWorks ==
    ASSUME IInv, NEW t \in Tasks, Wipe(t)
    PROVE  Goes1(t)
<1>1. task[t].at \in AtWork
  BY DEF Wipe, At, AtWork, InHand, Steps
<1>2. Go(t, "forget") \/ UNCHANGED task
  BY DEF Wipe
<1>3. /\ UNCHANGED <<moving, underWay, born>>
      /\ UNCHANGED used \/ Spent("faults")
  BY DEF Wipe, disks, kept
<1>4. used' \in Usage /\ used'.crashes = used.crashes
  BY <1>3, SpentMore DEF IInv, BornInv
<1>5. CASE Go(t, "forget")
  BY <1>1, <1>3, <1>4, <1>5, GoWorks DEF AtWork, InHand, Steps
<1>6. CASE UNCHANGED task
  <2>1. task[t] \in Fibers /\ task[t].rec # None /\ task = [task EXCEPT ![t] = task[t]]
    BY <1>1, InHandOf DEF IInv, FiberInv
  <2>. QED
    BY <1>1, <1>3, <1>4, <1>6, <2>1 DEF Goes1, IInv, RecordInv
<1>. QED  BY <1>2, <1>5, <1>6

LEMMA WorkerKeeps ==
    ASSUME IInv, NEW t \in Tasks,
           \/ GitRenames(t) \/ GitRecords(t) \/ GitNests(t) \/ GitFails(t) \/ Relink(t)
           \/ Cross(t) \/ CopyFails(t) \/ PutIn(t) \/ Repair(t) \/ RepairFails(t)
           \/ Undo(t) \/ Judge(t) \/ Carry(t)
           \/ RefFollows(t) \/ RefDrops(t) \/ RefFails(t) \/ Wipe(t)
    PROVE  IInv'
<1>1. Goes1(t)
  BY GitWorks, CopyWorks, CrossWorks, CarryWorks, RefWorks, WipeWorks
<1>. QED  BY <1>1, WorkKeeps

--------------------------------------------------------------------------------
(* The end of a worker, and the steps of a fiber with nothing in its hand.     *)

\* What was in hand put down, with its row or without it.
PutsDown(t) ==
    /\ task[t].at \in AtWork /\ PutDown(t) /\ UNCHANGED born
    /\ used' \in Usage /\ used'.crashes = used.crashes
    /\ UNCHANGED moving \/ moving' = [moving EXCEPT ![task[t].rec.from] = None]

LEMMA PutDownKeeps ==
    ASSUME IInv, NEW t \in Tasks, PutsDown(t)
    PROVE  IInv'
<1> DEFINE r == task[t].rec
<1>0. /\ task[t] \in Fibers /\ r \in Records /\ r # None /\ r.from \in Places
      /\ Working(t)
  BY InHandOf DEF PutsDown
<1>1. /\ \A u \in Tasks \ {t} : task'[u] = task[u]
      /\ task' \in [Tasks -> Fibers] /\ task'[t].rec = None
      /\ task'[t].todo = {} \/ task'[t].todo = task[t].todo
      /\ task'[t].move = None \/ task'[t].move = task[t].move
      /\ task'[t].at \in {"idle", "next"}
  BY <1>0 DEF PutsDown, PutDown, IInv, FiberInv, Fibers, Idle, Steps
<1>2. FiberInv'
  <2>1. Shaped(task'[t])
    BY <1>1 DEF IInv, FiberInv, Shaped, InHand, PutsDown, AtWork
  <2>. QED  BY <1>1, <2>1 DEF IInv, FiberInv, Shaped
<1>3. /\ UNCHANGED born
      /\ underWay' = [underWay EXCEPT ![Proc[t]] = @ \ {r.from}]
      /\ \A p \in Places \ {r.from} : moving'[p] = moving[p]
      /\ moving'[r.from] \in {moving[r.from], None}
      /\ moving' \in [Places -> Records \cup {None}]
  BY <1>0 DEF PutsDown, PutDown, IInv, RecordInv
<1>4. RecordInv'
  BY <1>3, TaskAssumption DEF IInv, RecordInv
<1>5. BornInv'
  <2>1. (\A p \in Places : moving[p] # None => Past(moving[p]))'
    BY <1>3 DEF IInv, BornInv, Past
  <2>2. (\A u \in Tasks : /\ task[u].rec # None => Past(task[u].rec)
                          /\ \A q \in task[u].todo : Past(q))'
    BY <1>1, <1>3 DEF IInv, BornInv, Past
  <2>. QED  BY <2>1, <2>2, <1>3 DEF IInv, BornInv, PutsDown
<1>6. \A u \in Tasks : /\ Working(u)' => u # t /\ Working(u) /\ task'[u] = task[u]
                       /\ Self(u)' = Self(u)
  BY <1>1, <1>3 DEF Working, At, Self
<1>7. HandInv'
  <2> SUFFICES ASSUME NEW u \in Tasks, Working(u)' PROVE Held(u)'
    BY DEF HandInv
  <2>1. u # t /\ Working(u) /\ task'[u] = task[u] /\ Self(u)' = Self(u)
    BY <1>6
  <2>2. task[u].rec.from # r.from
    BY <1>0, <2>1 DEF IInv, OneWorker
  <2>3. Held(u) /\ task[u].rec.from \in Places
    BY <2>1 DEF IInv, HandInv, FiberInv, Fibers, Records, Working
  <2>. QED  BY <1>3, <2>1, <2>2, <2>3, TaskAssumption DEF Held, IInv, RecordInv
<1>8. DeadInv'
  BY <1>1, <1>3, <1>6 DEF IInv, DeadInv, At, Running
<1>9. OneWorker'
  BY <1>6 DEF IInv, OneWorker
<1>. QED  BY <1>2, <1>4, <1>5, <1>7, <1>8, <1>9 DEF IInv

LEMMA PutsDownKeep ==
    ASSUME IInv, NEW t \in Tasks,
           RelinkFails(t) \/ PutInDies(t) \/ CarryFails(t) \/ Forget(t)
    PROVE  IInv'
<1>1. /\ task[t].at \in AtWork /\ PutDown(t) /\ UNCHANGED born
      /\ UNCHANGED moving \/ moving' = [moving EXCEPT ![task[t].rec.from] = None]
      /\ UNCHANGED used \/ Spent("faults")
  BY DEF RelinkFails, PutInDies, CarryFails, Forget, At, AtWork, InHand, Steps,
         disks, kept
<1>2. used' \in Usage /\ used'.crashes = used.crashes
  BY <1>1, SpentMore DEF IInv, BornInv
<1>. QED  BY <1>1, <1>2, PutDownKeeps DEF PutsDown

\* Nothing in hand before the step or after it.
Plain(t) ==
    /\ task[t].rec = None /\ task' = [task EXCEPT ![t] = task'[t]]
    /\ task'[t] \in Fibers /\ Shaped(task'[t]) /\ task'[t].rec = None
    /\ \A r \in task'[t].todo : Past(r)
    /\ UNCHANGED <<moving, underWay, born>>
    /\ used' \in Usage /\ used'.crashes = used.crashes

LEMMA PlainKeeps ==
    ASSUME IInv, NEW t \in Tasks, Plain(t)
    PROVE  IInv'
<1>1. /\ \A u \in Tasks \ {t} : task'[u] = task[u]
      /\ task' \in [Tasks -> Fibers] /\ Shaped(task'[t]) /\ task'[t].rec = None
      /\ \A r \in task'[t].todo : Past(r)
      /\ UNCHANGED <<moving, underWay, born>>
  BY DEF Plain, IInv, FiberInv
<1>2. FiberInv'
  BY <1>1 DEF IInv, FiberInv, Shaped
<1>3. RecordInv'
  BY <1>1 DEF IInv, RecordInv
<1>4. BornInv'
  <2>1. (\A p \in Places : moving[p] # None => Past(moving[p]))'
    BY <1>1 DEF IInv, BornInv, Past
  <2>2. (\A u \in Tasks : /\ task[u].rec # None => Past(task[u].rec)
                          /\ \A r \in task[u].todo : Past(r))'
    BY <1>1 DEF IInv, BornInv, Past
  <2>. QED  BY <2>1, <2>2, <1>1 DEF IInv, BornInv, Plain
<1>5. \A u \in Tasks : /\ Working(u)' => Working(u) /\ task'[u] = task[u]
                       /\ At(u, "dead")' => task'[u] = task[u]
                       /\ Self(u)' = Self(u)
  <2>1. task'[t].at # "dead"
    BY <1>1 DEF Shaped, InHand, Steps
  <2>. QED  BY <1>1, <2>1 DEF Working, At, Self
<1>6. HandInv'
  BY <1>1, <1>5 DEF IInv, HandInv, Held
<1>7. DeadInv'
  BY <1>1, <1>5 DEF IInv, DeadInv, At, Running
<1>8. OneWorker'
  BY <1>5 DEF IInv, OneWorker
<1>. QED  BY <1>2, <1>3, <1>4, <1>6, <1>7, <1>8 DEF IInv

LEMMA IdleIsPlain ==
    /\ Idle \in Fibers /\ Shaped(Idle) /\ Idle.rec = None
    /\ Idle.todo = {} /\ Idle.move = None
  BY DEF Idle, Fibers, Shaped, InHand, Steps

LEMMA Empty ==
    ASSUME IInv, NEW t \in Tasks,
           task[t].at \in {"idle", "asked", "again", "next", "adding", "made"}
    PROVE  /\ task[t] \in Fibers /\ Shaped(task[t]) /\ task[t].rec = None
           /\ \A r \in task[t].todo : r \in Records /\ Past(r)
  BY DEF IInv, FiberInv, Shaped, InHand, Fibers, BornInv

LEMMA AskKeeps ==
    ASSUME IInv, NEW t \in Tasks, NEW w \in Worktrees, NEW p \in Places,
           Ask(t, w, p) \/ CreateLooks(t, w, p)
    PROVE  IInv'
<1>1. task[t].rec = None
  BY Empty DEF Ask, CreateLooks, At
<1>2. /\ UNCHANGED <<moving, underWay, born>>
      /\ Spent("moves") \/ Spent("made")
  BY DEF Ask, CreateLooks, disks, kept
<1>3. used' \in Usage /\ used'.crashes = used.crashes
  BY <1>2, SpentMore
<1>4. CASE Ask(t, w, p)
  <2> DEFINE f == [Idle EXCEPT !.at = "asked",
                       !.move = [link |-> w, from |-> entry[w], to |-> p]]
  <2>1. task' = [task EXCEPT ![t] = f] /\ task'[t] = f /\ entry[w] \in Places
    BY <1>4 DEF Ask, IInv, FiberInv
  <2>2. /\ f \in Fibers /\ Shaped(f) /\ f.rec = None /\ f.todo = {}
    BY <2>1 DEF Idle, Fibers, Shaped, InHand, Steps, Asked
  <2>. HIDE DEF f
  <2>. QED  BY <1>1, <1>2, <1>3, <2>1, <2>2, PlainKeeps DEF Plain
<1>5. CASE CreateLooks(t, w, p)
  <2> DEFINE m == [link |-> w, from |-> None, to |-> p]
  <2>0. m \in Asked
    BY DEF Asked
  <2>1. task' = [task EXCEPT ![t].at = "adding", ![t].move = m] /\ task[t].at = "idle"
    BY <1>5 DEF CreateLooks, At
  <2>. HIDE DEF m
  <2>2. /\ task'[t] = [task[t] EXCEPT !.at = "adding", !.move = m]
        /\ task' = [task EXCEPT ![t] = task'[t]]
    BY <2>1 DEF IInv, FiberInv
  <2>3. /\ task[t] \in Fibers /\ \A r \in task[t].todo : Past(r)
    BY <2>1, Empty
  <2>4. /\ task'[t] \in Fibers /\ task'[t].rec = None /\ task'[t].at = "adding"
        /\ task'[t].todo = task[t].todo
    BY <1>1, <2>0, <2>2, <2>3 DEF Fibers, Steps
  <2>5. task'[t].move \in Asked
    BY <2>0, <2>2, <2>3 DEF Fibers
  <2>6. Shaped(task'[t])
    BY <2>4, <2>5 DEF Shaped, InHand, Steps
  <2>. QED  BY <1>1, <1>2, <1>3, <2>2, <2>3, <2>4, <2>6, PlainKeeps DEF Plain
<1>. QED  BY <1>4, <1>5

LEMMA EndsKeep ==
    ASSUME IInv, NEW t \in Tasks,
           ClaimRefused(t) \/ CreateAdds(t) \/ CreateForgets(t)
    PROVE  IInv'
<1> USE DEF ClaimRefused, CreateAdds, CreateForgets
<1>1. task[t].at \in {"again", "adding", "made"}
  BY DEF At
<1>2. UNCHANGED <<moving, underWay, born, used>>
  BY DEF disks, kept
<1>3. \/ task' = [task EXCEPT ![t] = Idle]
      \/ At(t, "adding") /\ Go(t, "made")
  <2>1. CASE ClaimRefused(t) \/ CreateForgets(t)
    BY <2>1, Zenon
  <2>2. CASE CreateAdds(t)
    BY <2>2, Zenon
  <2>. QED  BY <2>1, <2>2
<1>4. used' \in Usage /\ used'.crashes = used.crashes
  BY <1>2 DEF IInv, BornInv
<1>5. CASE task' = [task EXCEPT ![t] = Idle]
  <2>1. task'[t] = Idle /\ task' = [task EXCEPT ![t] = task'[t]]
    BY <1>5 DEF IInv, FiberInv
  <2>. QED  BY <1>1, <1>2, <1>4, <2>1, Empty, IdleIsPlain, PlainKeeps DEF Plain
<1>6. CASE At(t, "adding") /\ Go(t, "made")
  <2>1. /\ task'[t] = [task[t] EXCEPT !.at = "made"]
        /\ task' = [task EXCEPT ![t] = task'[t]]
    BY <1>6 DEF IInv, FiberInv, Go
  <2>2. task[t] \in Fibers /\ task[t].rec = None /\ \A r \in task[t].todo : Past(r)
    BY <1>1, Empty
  <2>3. /\ task'[t] \in Fibers /\ task'[t].rec = None /\ task'[t].at = "made"
        /\ task'[t].todo = task[t].todo /\ task'[t].move = task[t].move
    BY <2>1, <2>2 DEF Fibers, Steps
  <2>4. task[t].move \in Asked
    BY <1>6 DEF At, IInv, FiberInv, Shaped
  <2>5. Shaped(task'[t])
    BY <2>3, <2>4 DEF Shaped, InHand, Steps
  <2>. QED  BY <1>2, <1>4, <2>1, <2>2, <2>3, <2>5, PlainKeeps DEF Plain
<1>. QED  BY <1>3, <1>5, <1>6

LEMMA ReadKeeps ==
    ASSUME IInv, NEW t \in Tasks,
           ClaimWaits(t) \/ Resume(t) \/ Looked(t)
    PROVE  IInv'
<1>1. task[t].at \in {"idle", "asked", "next"}
  BY DEF ClaimWaits, Resume, Looked, At
<1>2. /\ UNCHANGED <<moving, underWay, born, used>>
      /\ used' \in Usage /\ used'.crashes = used.crashes
  BY DEF ClaimWaits, Resume, Looked, disks, kept, IInv, BornInv
<1>3. /\ task[t] \in Fibers /\ Shaped(task[t]) /\ task[t].rec = None
      /\ \A r \in task[t].todo : r \in Records /\ Past(r)
  BY <1>1, Empty
<1>4. CASE ClaimWaits(t) \/ Resume(t)
  <2>1. PICK todo \in SUBSET ({moving[p] : p \in Places} \ {None}) :
           task' = [task EXCEPT ![t].at = "next", ![t].todo = todo]
    <3>1. CASE ClaimWaits(t)
      <4> DEFINE todo == {moving[p] : p \in Others(task[t].move)}
      <4>1. task' = [task EXCEPT ![t].at = "next", ![t].todo = todo]
        BY <3>1 DEF ClaimWaits
      <4>2. todo \in SUBSET ({moving[p] : p \in Places} \ {None})
        BY DEF Others, Named
      <4>. QED  BY <4>1, <4>2
    <3>2. CASE Resume(t)
      BY <3>2 DEF Resume
    <3>. QED  BY <1>4, <3>1, <3>2
  <2>2. \A r \in todo : r \in Records /\ Past(r)
    BY DEF IInv, RecordInv, BornInv
  <2>3. /\ task'[t] = [task[t] EXCEPT !.at = "next", !.todo = todo]
        /\ task' = [task EXCEPT ![t] = task'[t]]
    BY <2>1 DEF IInv, FiberInv
  <2>4. /\ task'[t] \in Fibers /\ task'[t].rec = None /\ task'[t].at = "next"
        /\ task'[t].todo = todo /\ task'[t].move = task[t].move
    BY <1>3, <2>2, <2>3 DEF Fibers, Steps
  <2>5. Shaped(task'[t])
    BY <1>1, <1>3, <2>4 DEF Shaped, InHand, Steps
  <2>. QED  BY <1>2, <1>3, <2>2, <2>3, <2>4, <2>5, PlainKeeps DEF Plain
<1>5. CASE Looked(t) /\ task[t].move = None
  <2>1. task'[t] = Idle /\ task' = [task EXCEPT ![t] = task'[t]]
    BY <1>5 DEF Looked, IInv, FiberInv
  <2>. QED  BY <1>2, <1>3, <2>1, IdleIsPlain, PlainKeeps DEF Plain
<1>6. CASE Looked(t) /\ task[t].move # None
  <2>1. /\ task'[t] = [task[t] EXCEPT !.at = "again"]
        /\ task' = [task EXCEPT ![t] = task'[t]] /\ task[t].at = "next"
    BY <1>6 DEF Looked, IInv, FiberInv, At
  <2>2. /\ task'[t] \in Fibers /\ task'[t].rec = None /\ task'[t].at = "again"
        /\ task'[t].todo = task[t].todo /\ task'[t].move = task[t].move
    BY <1>3, <2>1 DEF Fibers, Steps
  <2>3. task[t].move \in Asked /\ task[t].move.from \in Places
    BY <1>3, <1>6, <2>1 DEF Fibers, Shaped
  <2>4. Shaped(task'[t])
    BY <2>2, <2>3 DEF Shaped, InHand, Steps
  <2>. QED  BY <1>2, <1>3, <2>1, <2>2, <2>4, PlainKeeps DEF Plain
<1>. QED  BY <1>4, <1>5, <1>6

--------------------------------------------------------------------------------
(* A record looked at, and taken in hand.                                      *)

LEMMA LookKeeps ==
    ASSUME IInv, NEW t \in Tasks, Look(t)
    PROVE  IInv'
<1>1. /\ task[t].at = "next" /\ task[t] \in Fibers /\ Shaped(task[t])
      /\ task[t].rec = None /\ \A r \in task[t].todo : r \in Records /\ Past(r)
  BY Empty DEF Look, At
<1>2. /\ UNCHANGED <<moving, underWay, born, used>>
      /\ used' \in Usage /\ used'.crashes = used.crashes
  BY DEF Look, IInv, BornInv
<1>3. PICK r \in task[t].todo, row \in Records \cup {None}, pass \in BOOLEAN :
         /\ row # None => Past(row)
         /\ pass \/ (row # None /\ ~Live(t, row))
         /\ task' = [task EXCEPT ![t].todo = @ \ {r},
                        ![t].rec = IF pass THEN None ELSE row,
                        ![t].at = IF pass THEN "next" ELSE "dead"]
  <2>1. PICK r \in task[t].todo :
           LET row == IF LateTurn THEN r ELSE moving[r.from]
               pass == row # None => Live(t, row)
           IN task' = [task EXCEPT ![t].todo = @ \ {r},
                          ![t].rec = IF pass THEN None ELSE row,
                          ![t].at = IF pass THEN "next" ELSE "dead"]
    BY DEF Look
  <2> DEFINE row == IF LateTurn THEN r ELSE moving[r.from]
             pass == row # None => Live(t, row)
  <2>2. row \in Records \cup {None} /\ (row # None => Past(row))
    BY <1>1 DEF IInv, RecordInv, BornInv, Records
  <2>3. pass \in BOOLEAN /\ (pass \/ (row # None /\ ~Live(t, row)))
    BY Zenon
  <2>4. task' = [task EXCEPT ![t].todo = @ \ {r},
                    ![t].rec = IF pass THEN None ELSE row,
                    ![t].at = IF pass THEN "next" ELSE "dead"]
    BY <2>1
  <2>. HIDE DEF row, pass
  <2>. QED  BY <2>2, <2>3, <2>4
<1> DEFINE rec == IF pass THEN None ELSE row
           at == IF pass THEN "next" ELSE "dead"
<1>4. /\ task'[t] = [task[t] EXCEPT !.todo = @ \ {r}, !.rec = rec, !.at = at]
      /\ task' = [task EXCEPT ![t] = task'[t]]
  BY <1>3 DEF IInv, FiberInv
<1>5. /\ task'[t] \in Fibers /\ task'[t].rec = rec /\ task'[t].at = at
      /\ task'[t].todo = task[t].todo \ {r} /\ task'[t].move = task[t].move
  <2>1. rec \in Records \cup {None} /\ at \in Steps
    BY DEF Steps
  <2>. HIDE DEF rec, at
  <2>2. ASSUME NEW f \in Fibers, NEW g, g = [f EXCEPT !.todo = @ \ {r}, !.rec = rec, !.at = at]
        PROVE  /\ g \in Fibers /\ g.rec = rec /\ g.at = at
               /\ g.todo = f.todo \ {r} /\ g.move = f.move
    BY <2>1, <2>2 DEF Fibers
  <2>. QED  BY <1>1, <1>4, <2>2
<1>6. Shaped(task'[t])
  <2>1. task'[t].at \in {"next", "dead"} /\ (task'[t].at = "dead" <=> task'[t].rec # None)
    BY <1>3, <1>5
  <2>2. task[t].move # None => task[t].move.from \in Places
    BY <1>1 DEF Shaped
  <2>. QED  BY <1>5, <2>1, <2>2 DEF Shaped, InHand, Steps
<1>7. CASE pass
  BY <1>1, <1>2, <1>4, <1>5, <1>6, <1>7, PlainKeeps DEF Plain
<1>8. CASE ~pass
  <2>1. /\ \A u \in Tasks \ {t} : task'[u] = task[u]
        /\ task' \in [Tasks -> Fibers]
        /\ task'[t].rec = row /\ task'[t].at = "dead" /\ row # None /\ ~Live(t, row)
    BY <1>3, <1>4, <1>5, <1>8 DEF IInv, FiberInv
  <2>2. FiberInv'
    BY <1>6, <2>1 DEF IInv, FiberInv, Shaped
  <2>3. RecordInv'
    BY <1>2 DEF IInv, RecordInv
  <2>4. BornInv'
    <3>1. (\A p \in Places : moving[p] # None => Past(moving[p]))'
      BY <1>2 DEF IInv, BornInv, Past
    <3>2. (\A u \in Tasks : /\ task[u].rec # None => Past(task[u].rec)
                            /\ \A q \in task[u].todo : Past(q))'
      BY <1>1, <1>2, <1>3, <1>5, <2>1 DEF IInv, BornInv, Past
    <3>. QED  BY <1>2, <3>1, <3>2 DEF IInv, BornInv
  <2>5. \A u \in Tasks : /\ Working(u)' => Working(u) /\ task'[u] = task[u]
                         /\ Self(u)' = Self(u)
    BY <1>2, <2>1 DEF Working, At, Self
  <2>6. HandInv'
    BY <1>2, <2>5 DEF IInv, HandInv, Held
  <2>7. DeadInv'
    <3>1. row.owner = Self(t) \/ row.owner \notin Running
      BY <2>1 DEF Live
    <3>. QED  BY <1>2, <2>1, <2>5, <3>1 DEF IInv, DeadInv, At, Running
  <2>8. OneWorker'
    BY <2>5 DEF IInv, OneWorker
  <2>. QED  BY <2>2, <2>3, <2>4, <2>6, <2>7, <2>8 DEF IInv
<1>. QED  BY <1>7, <1>8

\* A record of its own in a fiber's hand, which no other fiber is at work on.
TakesHold(t, rec) ==
    /\ rec \in Records /\ rec.owner = Self(t)
    /\ task' = [task EXCEPT ![t] = task'[t]]
    /\ task'[t] \in Fibers /\ Shaped(task'[t])
    /\ task'[t].rec = rec /\ task'[t].at \in AtWork
    /\ \A q \in task'[t].todo : Past(q)
    /\ underWay' = [underWay EXCEPT ![Proc[t]] = @ \cup {rec.from}]
    /\ \E row \in Records : /\ row.from = rec.from /\ row.owner = Self(t)
                            /\ moving' = [moving EXCEPT ![rec.from] = row]
    /\ \A u \in Tasks \ {t} : Working(u) => task[u].rec.from # rec.from
    /\ UNCHANGED <<born, used>>

LEMMA TakesHoldKeeps ==
    ASSUME IInv, NEW t \in Tasks, NEW rec, TakesHold(t, rec)
    PROVE  IInv'
<1>0. rec # None /\ rec.from \in Places
  BY NoneAssumption DEF TakesHold, Records
<1>1. /\ \A u \in Tasks \ {t} : task'[u] = task[u]
      /\ task' \in [Tasks -> Fibers]
      /\ UNCHANGED <<born, used>>
      /\ underWay' = [underWay EXCEPT ![Proc[t]] = @ \cup {rec.from}]
  BY DEF TakesHold, IInv, FiberInv
<1>2. PICK row \in Records : /\ row.from = rec.from /\ row.owner = Self(t)
                             /\ moving' = [moving EXCEPT ![rec.from] = row]
  BY DEF TakesHold
<1>3. FiberInv'
  BY <1>1 DEF IInv, FiberInv, Shaped, TakesHold
<1>4. RecordInv'
  BY <1>0, <1>1, <1>2, TaskAssumption DEF IInv, RecordInv
<1>5. Past(rec) /\ Past(row)
  <2>1. Proc[t] \in Procs /\ born[Proc[t]] \in Nat
    BY TaskAssumption DEF IInv, BornInv
  <2>. QED  BY <1>2, <2>1 DEF Past, Self, TakesHold
<1>6. BornInv'
  <2>1. (\A p \in Places : moving[p] # None => Past(moving[p]))'
    BY <1>0, <1>1, <1>2, <1>5 DEF IInv, BornInv, RecordInv, Past
  <2>2. (\A u \in Tasks : /\ task[u].rec # None => Past(task[u].rec)
                          /\ \A q \in task[u].todo : Past(q))'
    BY <1>1, <1>5 DEF IInv, BornInv, Past, TakesHold
  <2>. QED  BY <1>1, <2>1, <2>2 DEF IInv, BornInv
<1>7. /\ \A u \in Tasks : Self(u)' = Self(u)
      /\ \A u \in Tasks \ {t} : Working(u)' <=> Working(u)
  BY <1>1 DEF Working, At, Self
<1>8. HandInv'
  <2> SUFFICES ASSUME NEW u \in Tasks, Working(u)' PROVE Held(u)'
    BY DEF HandInv
  <2>1. CASE u = t
    <3>1. /\ task'[t].rec.from = rec.from /\ moving'[rec.from] = row
          /\ rec.from \in underWay'[Proc[t]] /\ row # None
      BY <1>0, <1>1, <1>2, TaskAssumption, NoneAssumption
      DEF TakesHold, IInv, RecordInv
    <3>. QED  BY <1>2, <1>7, <2>1, <3>1 DEF Held
  <2>2. CASE u # t
    <3>1. /\ Working(u) /\ task'[u] = task[u] /\ Self(u)' = Self(u)
          /\ task[u].rec.from # rec.from
      BY <1>1, <1>7, <2>2 DEF TakesHold
    <3>2. Held(u) /\ task[u].rec.from \in Places
      BY <3>1 DEF IInv, HandInv, FiberInv, Fibers, Records, Working
    <3>. QED
      BY <1>1, <1>2, <3>1, <3>2, TaskAssumption DEF Held, IInv, RecordInv
  <2>. QED  BY <2>1, <2>2
<1>9. DeadInv'
  <2>1. \A u \in Tasks : At(u, "dead")' => u # t
    BY DEF At, AtWork, TakesHold
  <2>. QED  BY <1>1, <1>7, <2>1 DEF IInv, DeadInv, At, Running
<1>10. OneWorker'
  BY <1>1, <1>7 DEF IInv, OneWorker, TakesHold
<1>. QED  BY <1>3, <1>4, <1>6, <1>8, <1>9, <1>10 DEF IInv

LEMMA SelfOwns ==
    ASSUME IInv, NEW t \in Tasks
    PROVE  Self(t) \in Owners /\ Self(t) \in Running /\ Self(t).proc = Proc[t]
<1>1. Proc[t] \in Procs
  BY TaskAssumption
<1>2. born[Proc[t]] \in 0..MaxCrashes
  BY <1>1, BoundAssumption DEF IInv, BornInv, Usage
<1>. QED  BY <1>1, <1>2 DEF Self, Owners, Running

\* No record is of the folder moved from, so nobody is at work on one.
LEMMA ClaimKeeps ==
    ASSUME IInv, NEW t \in Tasks, Claim(t)
    PROVE  IInv'
<1> DEFINE m == task[t].move
           link == IF Holds(m.from, m.link) THEN m.link ELSE None
           rec == [from |-> m.from, to |-> m.to, link |-> link, carried |-> FALSE,
                   partial |-> FALSE, owner |-> Self(t)]
           f == [Idle EXCEPT !.at = "claimed", !.rec = rec, !.own = TRUE]
<1>1. /\ task[t].at \in {"asked", "again"} /\ Others(m) = {}
      /\ moving' = [moving EXCEPT ![m.from] = rec]
      /\ underWay' = [underWay EXCEPT ![Proc[t]] = @ \cup {m.from}]
      /\ task' = [task EXCEPT ![t] = f] /\ UNCHANGED <<born, used>>
  BY DEF Claim
<1>2. m \in Asked /\ m.from \in Places
  BY <1>1 DEF IInv, FiberInv, Shaped
<1>3. rec \in Records /\ rec.owner = Self(t) /\ rec.from = m.from
  BY <1>2, SelfOwns DEF Records, Asked
<1>4. rec # None
  BY <1>3, NoneAssumption
<1>. HIDE DEF rec
<1>5. f \in Fibers /\ Shaped(f) /\ f.rec = rec /\ f.at \in AtWork /\ f.todo = {}
  BY <1>3, <1>4 DEF Idle, Fibers, Shaped, AtWork, InHand, Steps
<1>6. \A u \in Tasks \ {t} : Working(u) => task[u].rec.from # rec.from
  <2>1. moving[m.from] = None
    BY <1>1, <1>2 DEF Others, Named
  <2>. QED  BY <1>3, <2>1 DEF IInv, HandInv, Held
<1>7. task'[t] = f /\ task' = [task EXCEPT ![t] = task'[t]]
  BY <1>1 DEF IInv, FiberInv
<1>. HIDE DEF f, m
<1>8. /\ task'[t] \in Fibers /\ Shaped(task'[t]) /\ task'[t].rec = rec
      /\ task'[t].at \in AtWork /\ \A q \in task'[t].todo : Past(q)
  BY <1>5, <1>7
<1>9. \E row \in Records : /\ row.from = rec.from /\ row.owner = Self(t)
                           /\ moving' = [moving EXCEPT ![rec.from] = row]
  BY <1>1, <1>3
<1>10. TakesHold(t, rec)
  BY <1>1, <1>3, <1>6, <1>7, <1>8, <1>9 DEF TakesHold
<1>. QED  BY <1>10, TakesHoldKeeps

\* The record is still as it was looked at, so whoever is at work on it is its
\* owner, who is gone, or a fiber of this process, which would have marked it.
LEMMA TakeOverKeeps ==
    ASSUME ~SlowTurn, IInv, NEW t \in Tasks, TakeOver(t)
    PROVE  IInv'
<1> DEFINE r == task[t].rec
           row == moving[r.from]
           mine == [row EXCEPT !.owner = Self(t)]
           rec == [r EXCEPT !.owner = Self(t)]
<1>1. At(t, "dead") /\ task[t].at = "dead" /\ task[t].at \in InHand
  BY DEF TakeOver, At, InHand, Steps
<1>2. /\ task[t] \in Fibers /\ Shaped(task[t]) /\ r \in Records /\ r # None
      /\ r.from \in Places /\ \A q \in task[t].todo : Past(q)
  <2>1. task[t] \in Fibers /\ Shaped(task[t]) /\ r # None
    BY <1>1 DEF IInv, FiberInv, Shaped
  <2>. QED  BY <2>1 DEF Fibers, Records, IInv, BornInv
<1>3. CASE UNCHANGED <<moving, underWay>>
           /\ task' = [task EXCEPT ![t].at = "next", ![t].rec = None]
  <2>1. /\ task'[t] = [task[t] EXCEPT !.at = "next", !.rec = None]
        /\ \A u \in Tasks \ {t} : task'[u] = task[u]
        /\ UNCHANGED <<born, used, moving, underWay>>
    BY <1>3 DEF IInv, FiberInv, TakeOver
  <2>2. /\ task'[t] \in Fibers /\ task'[t].rec = None /\ task'[t].at = "next"
        /\ task'[t].todo = task[t].todo /\ task'[t].move = task[t].move
    BY <1>2, <2>1 DEF Fibers, Steps
  <2>3. FiberInv'
    <3>1. Shaped(task'[t])
      BY <1>1, <1>2, <2>2 DEF Shaped, InHand, Steps
    <3>2. task' \in [Tasks -> Fibers]
      BY <1>3, <2>1, <2>2 DEF IInv, FiberInv
    <3>. QED  BY <2>1, <3>1, <3>2 DEF IInv, FiberInv, Shaped
  <2>4. RecordInv'
    BY <2>1 DEF IInv, RecordInv
  <2>5. BornInv'
    <3>1. (\A p \in Places : moving[p] # None => Past(moving[p]))'
      BY <2>1 DEF IInv, BornInv, Past
    <3>2. (\A u \in Tasks : /\ task[u].rec # None => Past(task[u].rec)
                            /\ \A q \in task[u].todo : Past(q))'
      BY <1>2, <2>1, <2>2 DEF IInv, BornInv, Past
    <3>. QED  BY <2>1, <3>1, <3>2 DEF IInv, BornInv
  <2>6. \A u \in Tasks : /\ Working(u)' => Working(u) /\ task'[u] = task[u]
                         /\ At(u, "dead")' => At(u, "dead") /\ task'[u] = task[u]
                         /\ Self(u)' = Self(u)
    BY <2>1, <2>2 DEF Working, At, Self
  <2>. QED
    BY <2>1, <2>3, <2>4, <2>5, <2>6
    DEF IInv, HandInv, Held, DeadInv, Running, OneWorker
<1>4. CASE /\ row # None /\ row.owner = r.owner
           /\ ~(r.owner = Self(t) /\ r.from \in underWay[Proc[t]])
           /\ moving' = [moving EXCEPT ![r.from] = mine]
           /\ underWay' = [underWay EXCEPT ![Proc[t]] = @ \cup {r.from}]
           /\ task' = [task EXCEPT ![t].at = "taken", ![t].rec.owner = mine.owner]
  <2>1. /\ row \in Records /\ mine \in Records /\ mine.from = r.from
        /\ mine.owner = Self(t) /\ rec \in Records /\ rec.owner = Self(t)
        /\ rec.from = r.from /\ rec # None
    <3>1. row \in Records /\ row.from = r.from
      BY <1>2, <1>4 DEF IInv, RecordInv
    <3>2. Self(t) \in Owners
      BY SelfOwns
    <3>. QED  BY <1>2, <3>1, <3>2, NoneAssumption DEF Records
  <2>2. /\ task'[t] = [task[t] EXCEPT !.at = "taken", !.rec.owner = Self(t)]
        /\ task' = [task EXCEPT ![t] = task'[t]]
    <3>1. task' = [task EXCEPT ![t].at = "taken", ![t].rec.owner = Self(t)]
      BY <1>4, <2>1
    <3>. QED  BY <3>1 DEF IInv, FiberInv
  <2>3. task'[t].rec = rec
    BY <1>2, <2>2 DEF Fibers
  <2>4. task'[t] = [task[t] EXCEPT !.at = "taken", !.rec = rec]
    BY <1>2, <2>2 DEF Fibers
  <2>. HIDE DEF rec
  <2>5. /\ task'[t] \in Fibers /\ task'[t].at = "taken"
        /\ task'[t].todo = task[t].todo /\ task'[t].move = task[t].move
    BY <1>2, <2>1, <2>4 DEF Fibers, Steps
  <2>6. Shaped(task'[t]) /\ task'[t].at \in AtWork
    BY <1>1, <1>2, <2>1, <2>3, <2>5 DEF Shaped, AtWork, InHand, Steps
  <2>7. ASSUME NEW u \in Tasks \ {t}, Working(u), task[u].rec.from = r.from
        PROVE  FALSE
    <3>1. /\ row.owner = Self(u) /\ r.from \in underWay[Proc[u]]
      BY <2>7 DEF IInv, HandInv, Held
    <3>2. Self(u) \in Running /\ Self(u).proc = Proc[u] /\ Self(t).proc = Proc[t]
      BY SelfOwns
    <3>3. r.owner = Self(t)
      BY <1>1, <1>4, <3>1, <3>2 DEF IInv, DeadInv
    <3>. QED  BY <1>4, <3>1, <3>2, <3>3
  <2>8. UNCHANGED <<born, used>>
    BY DEF TakeOver
  <2>9. TakesHold(t, rec)
    BY <1>2, <1>4, <2>1, <2>2, <2>3, <2>5, <2>6, <2>7, <2>8 DEF TakesHold
  <2>. QED  BY <2>9, TakesHoldKeeps
<1>. QED  BY <1>3, <1>4 DEF TakeOver

--------------------------------------------------------------------------------
(* A process's end, the steps of others, and the theorem.                      *)

\* The next start of a process is none that a record names.
LEMMA CrashKeeps ==
    ASSUME IInv, NEW p \in Procs, Crash(p)
    PROVE  IInv'
<1>1. /\ used.crashes < MaxCrashes /\ Spent("crashes")
      /\ born' = [born EXCEPT ![p] = @ + 1]
      /\ underWay' = [underWay EXCEPT ![p] = {}]
      /\ task' = [t \in Tasks |-> IF Proc[t] = p THEN Idle ELSE task[t]]
      /\ UNCHANGED moving
  BY DEF Crash
<1>2. /\ used' \in Usage /\ used'.crashes = used.crashes + 1
      /\ used'.crashes <= MaxCrashes
  BY <1>1, BoundAssumption DEF IInv, BornInv, Usage, Spent
<1>3. /\ born' \in [Procs -> Nat] /\ born'[p] = born[p] + 1
      /\ \A q \in Procs \ {p} : born'[q] = born[q]
  BY <1>1 DEF IInv, BornInv
<1>4. FiberInv'
  BY <1>1, IdleIsPlain DEF IInv, FiberInv, Shaped
<1>5. RecordInv'
  BY <1>1 DEF IInv, RecordInv
<1>6. \A r \in Records : Past(r) => Past(r)'
  <2> SUFFICES ASSUME NEW r \in Records, Past(r) PROVE Past(r)'
    OBVIOUS
  <2>1. r.owner.proc \in Procs /\ r.owner.born \in Nat
    BY DEF Records, Owners
  <2>. QED  BY <1>3, <2>1 DEF Past, IInv, BornInv
<1>7. BornInv'
  <2>1. (\A q \in Places : moving[q] # None => Past(moving[q]))'
    BY <1>1, <1>6 DEF IInv, BornInv, RecordInv, Past
  <2>2. (\A u \in Tasks : /\ task[u].rec # None => Past(task[u].rec)
                          /\ \A r \in task[u].todo : Past(r))'
    <3> SUFFICES ASSUME NEW u \in Tasks
                 PROVE  (/\ task[u].rec # None => Past(task[u].rec)
                         /\ \A r \in task[u].todo : Past(r))'
      OBVIOUS
    <3>1. task[u].rec \in Records \cup {None} /\ task[u].todo \subseteq Records
      BY DEF IInv, FiberInv, Fibers
    <3>2. /\ task[u].rec # None => Past(task[u].rec)
          /\ \A r \in task[u].todo : Past(r)
      BY DEF IInv, BornInv
    <3>3. task'[u] = task[u] \/ (task'[u].rec = None /\ task'[u].todo = {})
      BY <1>1, IdleIsPlain
    <3>. QED  BY <1>6, <3>1, <3>2, <3>3 DEF Past
  <2>3. \A q \in Procs : born'[q] <= used'.crashes
    BY <1>2, <1>3 DEF IInv, BornInv, Usage
  <2>. QED  BY <1>2, <1>3, <2>1, <2>2, <2>3 DEF BornInv
<1>8. \A u \in Tasks : /\ Working(u)' \/ At(u, "dead")'
                            => Proc[u] # p /\ task'[u] = task[u]
                       /\ Proc[u] # p => /\ Self(u)' = Self(u) /\ Proc[u] \in Procs
                                         /\ underWay'[Proc[u]] = underWay[Proc[u]]
  <2>1. Idle.rec = None /\ Idle.at # "dead"
    BY DEF Idle
  <2>. QED
    BY <1>1, <1>3, <2>1, TaskAssumption DEF Working, At, Self, IInv, RecordInv
<1>9. HandInv'
  BY <1>1, <1>8 DEF IInv, HandInv, Held, Working, At
<1>10. DeadInv'
  <2> SUFFICES ASSUME NEW u \in Tasks, At(u, "dead")'
               PROVE  (task[u].rec.owner = Self(u) \/ task[u].rec.owner \notin Running)'
    BY DEF DeadInv
  <2> DEFINE o == task[u].rec.owner
  <2>1. /\ task'[u] = task[u] /\ At(u, "dead") /\ Self(u)' = Self(u)
    BY <1>8 DEF At
  <2>2. o = Self(u) \/ o \notin Running
    BY <2>1 DEF IInv, DeadInv
  <2>3. o \in Owners /\ o.born <= born[o.proc]
    <3>1. task[u].rec # None /\ task[u].rec \in Records
      BY <2>1 DEF At, IInv, FiberInv, Fibers, Shaped, InHand, Steps
    <3>. QED  BY <3>1 DEF IInv, BornInv, Past, Records
  <2>4. o \notin Running => o \notin Running'
    <3> SUFFICES ASSUME NEW q \in Procs, o = [proc |-> q, born |-> born'[q]]
                 PROVE  o \in Running
      BY DEF Running
    <3>1. o.proc = q /\ o.born = born'[q]
      OBVIOUS
    <3>2. q # p
      BY <1>3, <2>3, <3>1 DEF IInv, BornInv
    <3>. QED  BY <1>3, <3>2 DEF Running
  <2>. QED  BY <2>1, <2>2, <2>4
<1>11. OneWorker'
  BY <1>8 DEF IInv, OneWorker, Working, At
<1>. QED  BY <1>4, <1>5, <1>7, <1>9, <1>10, <1>11 DEF IInv

\* Nothing of the records or of a fiber changes.
LEMMA ApartKeeps ==
    ASSUME IInv, UNCHANGED <<moving, underWay, born, task>>,
           used' \in Usage, used'.crashes = used.crashes
    PROVE  IInv'
<1>1. FiberInv' /\ RecordInv'
  BY DEF IInv, FiberInv, RecordInv, Shaped
<1>2. BornInv'
  BY DEF IInv, BornInv, Past
<1>3. HandInv' /\ DeadInv' /\ OneWorker'
  BY DEF IInv, HandInv, Held, DeadInv, OneWorker, Working, At, Self, Running
<1>. QED  BY <1>1, <1>2, <1>3 DEF IInv

LEMMA GoesKeeps ==
    ASSUME ~SlowTurn, IInv, NEW t \in Tasks, Goes(t) \/ Resume(t)
    PROVE  IInv'
<1>1. CASE ClaimStep(t)
  BY <1>1, ClaimKeeps, ReadKeeps, EndsKeep DEF ClaimStep
<1>2. CASE GitStep(t)
  BY <1>2, WorkerKeeps, PutsDownKeep DEF GitStep
<1>3. CASE CopyStep(t)
  BY <1>3, WorkerKeeps, PutsDownKeep DEF CopyStep
<1>4. CASE CarryStep(t)
  BY <1>4, WorkerKeeps, PutsDownKeep DEF CarryStep
<1>5. CASE ResumeStep(t) \/ Resume(t)
  BY <1>5, LookKeeps, ReadKeeps, TakeOverKeeps, WorkerKeeps DEF ResumeStep
<1>6. CASE CreateStep(t)
  BY <1>6, EndsKeep DEF CreateStep
<1>. QED  BY <1>1, <1>2, <1>3, <1>4, <1>5, <1>6 DEF Goes

LEMMA StepKeeps == ~SlowTurn /\ IInv /\ [Next]_vars => IInv'
<1> SUFFICES ASSUME ~SlowTurn, IInv, [Next]_vars PROVE IInv'
  OBVIOUS
<1>1. CASE UNCHANGED vars
  BY <1>1, ApartKeeps DEF vars, IInv, BornInv
<1>2. CASE Rest
  BY <1>1, <1>2 DEF Rest
<1>3. ASSUME NEW t \in Tasks, Goes(t) \/ Resume(t) PROVE IInv'
  BY <1>3, GoesKeeps
<1>4. ASSUME NEW t \in Tasks, NEW w \in Worktrees, NEW p \in Places,
             Ask(t, w, p) \/ CreateLooks(t, w, p)
      PROVE  IInv'
  BY <1>4, AskKeeps
<1>5. ASSUME NEW p \in Places, Make(p) PROVE IInv'
  <2>1. UNCHANGED <<moving, underWay, born, task>> /\ Spent("made")
    BY <1>5 DEF Make
  <2>. QED  BY <2>1, SpentMore, ApartKeeps
<1>6. ASSUME NEW w \in Worktrees, Note(w) PROVE IInv'
  <2>1. UNCHANGED <<moving, underWay, born, task>> /\ Spent("notes")
    BY <1>6 DEF Note
  <2>. QED  BY <2>1, SpentMore, ApartKeeps
<1>7. ASSUME NEW p \in Procs, Crash(p) PROVE IInv'
  BY <1>7, CrashKeeps
<1>. QED  BY <1>1, <1>2, <1>3, <1>4, <1>5, <1>6, <1>7 DEF Next

(* However many processes and fibers move worktrees and resume each other's     *)
(* moves, crash and start again, no two are ever at work on one record: what    *)
(* `takeOver` finds still as it was looked at is one fiber's alone (moving.ts   *)
(* 153-162, 509-511), where of a process's own fibers that find one of its own  *)
(* records the first marks it before the next looks (~SlowTurn).                *)
THEOREM OneWorkerHolds == ASSUME ~SlowTurn PROVE Spec => []OneWorker
<1>1. Init => IInv
  BY InitHolds
<1>2. IInv /\ [Next]_vars => IInv'
  BY StepKeeps
<1>3. IInv => OneWorker
  BY DEF IInv
<1>. QED  BY <1>1, <1>2, <1>3, PTL DEF Spec
================================================================================
