----------------------------- MODULE WorktreeMove ------------------------------
(* A worktree moved to another folder, and what is kept under its id carried   *)
(* along (packages/engine/src/worktrees/moving.ts, kept.ts): the record, git's *)
(* move or a copy across volumes, the rows' re-key, the capture's ref, and the *)
(* resume of a move a crash cut short, by any process that starts.             *)
(*                                                                             *)
(* What is abstracted.                                                         *)
(*  - A worktree is the entry git keeps of it, which is what the link in a     *)
(*    checkout's `.git` names; it is read alike whether written relative or    *)
(*    absolute. An id is a hash of a path and is named by the place.           *)
(*  - What is kept under an id is one fact in the store and one capture, each  *)
(*    known by the worktree it is about.                                       *)
(*  - The sibling a copy fills is in no other step's way, and is the mark      *)
(*    `partial` of its record. People leave a worktree alone while it is moved.*)
(*  - A git command that outlives its process ends before anyone looks. The    *)
(*    leases of ports, empty parent folders and script output are left out.    *)
EXTENDS Naturals, FiniteSets, FiniteSetsExt

CONSTANTS
    Worktrees,      \* git's entries
    Places,         \* paths a worktree is at or is asked to go to
    Nested,         \* the folder git makes inside one that is in its way
    Far,            \* the places of another volume
    Home,           \* where each worktree is at first, None for one made later
    Procs, Tasks, Proc,  \* processes, their fibers, and whose each is
    Alien,          \* what is in a folder that is no worktree's
    None,
    Squatters,      \* whether a folder may appear where git lists a checkout gone
    LateTurn,       \* whether a row may change between a resume's read and its turn
    SlowTurn,       \* whether two fibers of a process may resume a record of its own
    MaxMoves, MaxCrashes, MaxFaults, MaxMade, MaxNotes

Spots == Places \cup {Nested}

ASSUME PlaceAssumption ==
    /\ Nested \notin Places /\ None \notin Spots /\ Far \subseteq Places
    /\ None \notin Worktrees /\ Alien \notin Worktrees /\ Alien # None
ASSUME TaskAssumption ==
    /\ Proc \in [Tasks -> Procs]
    /\ Home \in [Worktrees -> Places \cup {None}]
    /\ \A v, w \in Worktrees : Home[v] = Home[w] /\ Home[v] # None => v = w
ASSUME BoundAssumption ==
    /\ {LateTurn, SlowTurn, Squatters} \subseteq BOOLEAN
    /\ {MaxMoves, MaxCrashes, MaxFaults, MaxMade, MaxNotes} \subseteq Nat

VARIABLES
    disk,           \* what is in each folder
    entry,          \* where git lists each worktree
    rows, ref,      \* whose fact, and whose capture, is under each place's id
    wtMoves,        \* the moves recorded as made, by the place they left
    moving,         \* the records of moves under way, by the place they leave
    underWay,       \* the places a process is moving or resuming
    born,           \* how often each process was started
    task,           \* what each fiber is at
    used,           \* how much of each bound is spent
    left            \* ghost: the worktree whose carry last left each id

disks == <<disk, entry>>
kept == <<rows, ref, wtMoves, left>>
vars == <<disks, kept, moving, underWay, born, task, used>>

--------------------------------------------------------------------------------
(* The records and the fibers.                                                 *)

Owners == [proc : Procs, born : 0..MaxCrashes]
Records == [from : Places, to : Places, link : Worktrees \cup {None}, carried : BOOLEAN,
            partial : BOOLEAN, owner : Owners]
Folders == [of : Worktrees \cup {Alien}, whole : BOOLEAN]
ASSUME NoneAssumption ==
    /\ None \notin Records /\ None \notin Folders
    /\ None \notin [link : Worktrees, from : Places, to : Places]
Steps == {"idle", "asked", "again", "claimed", "renamed", "relink", "copying",
          "placed", "undo", "undoplaced", "next", "dead",
          "taken", "judge", "carry", "ref", "refdrop", "wipefrom", "wipeto",
          "forget", "adding", "made"}

\* A fiber: its step, the record in its hand and whether that is its own move's,
\* the records it has still to resume, and whether the capture followed.
Idle == [at |-> "idle", rec |-> None, own |-> FALSE, todo |-> {},
         move |-> None, captured |-> TRUE]

Self(t) == [proc |-> Proc[t], born |-> born[Proc[t]]]
Running == {[proc |-> p, born |-> born[p]] : p \in Procs}
Named(p) == {q \in Places : moving[q] # None /\ p \in {q, moving[q].to}}
Spent(kind) == used' = [used EXCEPT ![kind] = @ + 1]

Holds(p, w) == disk[p] # None /\ w # None /\ disk[p].of = w
Listed(p) == \E w \in Worktrees : entry[w] = p
MovedOnDisk(r) == disk[r.from] = None /\ Holds(r.to, r.link)
\* git pointed at the checkout in a folder.
Repaired(p) == [w \in Worktrees |-> IF Holds(p, w) THEN p ELSE entry[w]]

Go(t, step) == task' = [task EXCEPT ![t].at = step]
At(t, step) == task[t].at = step

\* What is in a fiber's hand put down, its record kept or not.
PutDown(t) ==
    /\ underWay' = [underWay EXCEPT ![Proc[t]] = @ \ {task[t].rec.from}]
    /\ task' = [task EXCEPT ![t] =
          IF task[t].own THEN Idle
          ELSE [@ EXCEPT !.at = "next", !.rec = None, !.captured = TRUE]]

--------------------------------------------------------------------------------
(* The recorded moves (kept.ts).                                               *)

\* A row for each place that was left, numbered as it was written.
Rows == [to : Places, row : Nat]
ASSUME RowAssumption == None \notin Rows

\* A later move left the place this one went to.
Onward(moves, p) ==
    LET next == moves[moves[p].to] IN next # None /\ next.row > moves[p].row

\* Where the folder that left each place is now: the moves applied in order.
Placed(moves) ==
    LET now[p \in Places] == IF moves[p] = None THEN p
                             ELSE IF Onward(moves, p) THEN now[moves[p].to]
                             ELSE moves[p].to
    IN now

\* A folder made at a place, or moved there, ends the record of what left it;
\* an earlier move into the place is pointed past it first.
Claimed(moves, places) ==
    LET past == [p \in Places |->
                    IF moves[p] # None /\ moves[p].to \in places /\ Onward(moves, p)
                    THEN [moves[p] EXCEPT !.to = moves[@].to]
                    ELSE moves[p]]
    IN [p \in Places |-> IF p \in places THEN None ELSE past[p]]

RowsOf(moves) == {moves[p].row : p \in {q \in Places : moves[q] # None}}
RecordMove(moves, from, to) ==
    LET others == Claimed(moves, {from, to})
    IN [others EXCEPT ![from] = [to |-> to, row |-> Max(RowsOf(others) \cup {0}) + 1]]

ForgetMovesInto(moves, place) ==
    [p \in Places |-> IF Placed(moves)[p] = place THEN None ELSE moves[p]]

--------------------------------------------------------------------------------
(* A move: the record (claimMove).                                             *)

\* A move of a worktree is asked for: nothing is at its destination.
Ask(t, w, to) ==
    /\ At(t, "idle") /\ used.moves < MaxMoves
    /\ entry[w] \in Places \ {to} /\ disk[to] = None
    /\ task' = [task EXCEPT ![t] = [Idle EXCEPT !.at = "asked",
                    !.move = [link |-> w, from |-> entry[w], to |-> to]]]
    /\ Spent("moves")
    /\ UNCHANGED <<disks, kept, moving, underWay, born>>

Others(m) == Named(m.from) \cup Named(m.to)

\* Slip: the record kept by the folder moved to.
ClaimByTo(t) ==
    LET m == task[t].move
        rec == [from |-> m.from, to |-> m.to, carried |-> FALSE, partial |-> FALSE,
                link |-> m.link, owner |-> Self(t)]
    IN /\ task[t].at \in {"asked", "again"} /\ Others(m) = {}
       /\ moving' = [moving EXCEPT ![m.to] = rec]
       /\ underWay' = [underWay EXCEPT ![Proc[t]] = @ \cup {m.from}]
       /\ task' = [task EXCEPT ![t] =
                      [Idle EXCEPT !.at = "claimed", !.rec = rec, !.own = TRUE]]
       /\ UNCHANGED <<disks, kept, born, used>>
\* One transaction: no record names either folder, and this one is written.
Claim(t) ==
    LET m == task[t].move
        link == IF Holds(m.from, m.link) THEN m.link ELSE None
        rec == [from |-> m.from, to |-> m.to, link |-> link, carried |-> FALSE,
                partial |-> FALSE, owner |-> Self(t)]
    IN /\ task[t].at \in {"asked", "again"} /\ Others(m) = {}
       /\ moving' = [moving EXCEPT ![m.from] = rec]
       /\ underWay' = [underWay EXCEPT ![Proc[t]] = @ \cup {m.from}]
       /\ task' = [task EXCEPT ![t] =
                      [Idle EXCEPT !.at = "claimed", !.rec = rec, !.own = TRUE]]
       /\ UNCHANGED <<disks, kept, born, used>>

\* Other records name them: they are resumed, where their process is gone, and
\* the claim is made once more.
ClaimWaits(t) ==
    LET others == Others(task[t].move)
    IN /\ At(t, "asked") /\ others # {}
       /\ task' = [task EXCEPT ![t].at = "next",
                               ![t].todo = {moving[p] : p \in others}]
       /\ UNCHANGED <<disks, kept, moving, underWay, born, used>>

ClaimRefused(t) ==
    /\ At(t, "again") /\ Others(task[t].move) # {}
    /\ task' = [task EXCEPT ![t] = Idle]
    /\ UNCHANGED <<disks, kept, moving, underWay, born, used>>

--------------------------------------------------------------------------------
(* A move: git's rename, and the copy across volumes (move, moveAcrossVolumes).*)

Crosses(r) == (r.from \in Far) # (r.to \in Far)
GitCan(r) == /\ Holds(r.from, r.link) /\ entry[r.link] = r.from
             /\ ~Listed(r.to)
Carries(from, to) == disk' = [disk EXCEPT ![from] = None, ![to] = disk[from]]

\* git renames the checkout, and then writes where it is.
GitRenames(t) ==
    LET r == task[t].rec
    IN /\ At(t, "claimed") /\ GitCan(r) /\ ~Crosses(r) /\ disk[r.to] = None
       /\ Carries(r.from, r.to)
       /\ Go(t, "renamed")
       /\ UNCHANGED <<entry, kept, moving, underWay, born, used>>

GitRecords(t) ==
    /\ At(t, "renamed")
    /\ entry' = [entry EXCEPT ![task[t].rec.link] = task[t].rec.to]
    /\ Go(t, "carry")
    /\ UNCHANGED <<disk, kept, moving, underWay, born, used>>

\* A folder appeared at the destination since it was looked at: git moves the
\* checkout into it.
GitNests(t) ==
    LET r == task[t].rec
    IN /\ At(t, "claimed") /\ GitCan(r) /\ ~Crosses(r)
       /\ disk[r.to] # None /\ disk[Nested] = None
       /\ Carries(r.from, Nested)
       /\ entry' = [entry EXCEPT ![r.link] = Nested]
       /\ Go(t, "carry")
       /\ UNCHANGED <<kept, moving, underWay, born, used>>

\* Slip: git failed, so nothing moved.
GitFailsUnmoved(t) ==
    /\ \/ At(t, "claimed") /\ ~GitCan(task[t].rec) /\ UNCHANGED used
       \/ /\ task[t].at \in {"claimed", "renamed"}
          /\ used.faults < MaxFaults /\ Spent("faults")
    /\ Go(t, "forget")
    /\ UNCHANGED <<disks, kept, moving, underWay, born>>
\* git fails, before its rename or after it: which of the two the disk tells.
GitFails(t) ==
    /\ \/ At(t, "claimed") /\ ~GitCan(task[t].rec) /\ UNCHANGED used
       \/ /\ task[t].at \in {"claimed", "renamed"}
          /\ used.faults < MaxFaults /\ Spent("faults")
    /\ Go(t, IF MovedOnDisk(task[t].rec) THEN "relink" ELSE "forget")
    /\ UNCHANGED <<disks, kept, moving, underWay, born>>

Unlinked(r) == ~Listed(r.to) /\ MovedOnDisk(r)
\* git pointed at the checkout it renamed; a failure leaves the record.
Relink(t) ==
    /\ task[t].at \in {"relink", "taken"}
    /\ At(t, "taken") => Unlinked(task[t].rec)
    /\ entry' = Repaired(task[t].rec.to)
    /\ Go(t, IF At(t, "taken") THEN "judge" ELSE "carry")
    /\ UNCHANGED <<disk, kept, moving, underWay, born, used>>
RelinkFails(t) ==
    /\ task[t].at \in {"relink", "taken"}
    /\ At(t, "taken") => Unlinked(task[t].rec)
    /\ used.faults < MaxFaults /\ Spent("faults")
    /\ PutDown(t)
    /\ UNCHANGED <<disks, kept, moving, born>>

\* git can't rename across volumes, and says so: the sibling is recorded.
Cross(t) ==
    LET r == task[t].rec
    IN /\ At(t, "claimed") /\ GitCan(r) /\ Crosses(r)
       /\ moving' = [moving EXCEPT ![r.from] =
                        IF @ = None THEN None ELSE [@ EXCEPT !.partial = TRUE]]
       /\ task' = [task EXCEPT ![t].at = "copying", ![t].rec.partial = TRUE]
       /\ UNCHANGED <<disks, kept, underWay, born, used>>

\* The copy fails, or the move is cancelled in it.
CopyFails(t) ==
    /\ At(t, "copying")
    /\ used.faults < MaxFaults /\ Spent("faults")
    /\ Go(t, "undo")
    /\ UNCHANGED <<disks, kept, moving, underWay, born>>

\* The copy made, and renamed in once whole.
PutIn(t) ==
    LET r == task[t].rec
    IN /\ At(t, "copying") /\ Holds(r.from, r.link) /\ disk[r.to] = None
       /\ disk' = [disk EXCEPT ![r.to] = [of |-> r.link, whole |-> TRUE]]
       /\ Go(t, "placed")
       /\ UNCHANGED <<entry, kept, moving, underWay, born, used>>
\* A folder is in its way: a defect, which leaves the record.
PutInDies(t) ==
    /\ At(t, "copying") /\ disk[task[t].rec.to] # None
    /\ PutDown(t)
    /\ UNCHANGED <<disks, kept, moving, born, used>>

Repair(t) ==
    /\ At(t, "placed")
    /\ entry' = Repaired(task[t].rec.to)
    /\ Go(t, "carry")
    /\ UNCHANGED <<disk, kept, moving, underWay, born, used>>
\* The repair, or the listing after it, fails.
RepairFails(t) ==
    /\ At(t, "placed")
    /\ used.faults < MaxFaults /\ Spent("faults")
    /\ entry' \in {entry, Repaired(task[t].rec.to)}
    /\ Go(t, "undoplaced")
    /\ UNCHANGED <<disk, kept, moving, underWay, born>>

\* git pointed back at the original before the copy goes.
Undo(t) ==
    /\ task[t].at \in {"undo", "undoplaced"}
    /\ \/ entry' = Repaired(task[t].rec.from) /\ UNCHANGED used
       \/ used.faults < MaxFaults /\ Spent("faults") /\ UNCHANGED entry
    /\ Go(t, IF At(t, "undo") THEN "forget" ELSE "wipeto")
    /\ UNCHANGED <<disk, kept, moving, underWay, born>>

--------------------------------------------------------------------------------
(* The carry, the original's delete and the end of the record.                 *)

\* Slip: a resume carries again what was carried.
CarryAgain(t) ==
    LET r == task[t].rec
    IN /\ At(t, "carry") /\ Listed(r.to)
       /\ rows' = IF rows[r.from] = None THEN rows
                  ELSE [rows EXCEPT ![r.to] = rows[r.from], ![r.from] = None]
       /\ moving' = [moving EXCEPT ![r.from] =
                        IF @ = None THEN None ELSE [@ EXCEPT !.carried = TRUE]]
       /\ Go(t, "ref")
       /\ UNCHANGED <<disks, ref, wtMoves, left, underWay, born, used>>
\* Re-keyed and recorded as made in one transaction, and once only.
Carry(t) ==
    LET r == task[t].rec
    IN /\ At(t, "carry") /\ Listed(r.to)
       /\ IF r.carried THEN UNCHANGED <<rows, wtMoves, left, moving>>
          ELSE /\ rows' = IF rows[r.from] = None THEN rows
                          ELSE [rows EXCEPT ![r.to] = rows[r.from],
                                            ![r.from] = None]
               /\ wtMoves' = RecordMove(wtMoves, r.from, r.to)
               /\ left' = [left EXCEPT ![r.from] =
                              CHOOSE w \in Worktrees : entry[w] = r.to]
               /\ moving' = [moving EXCEPT ![r.from] =
                     IF @ = None THEN None ELSE [@ EXCEPT !.carried = TRUE]]
       /\ Go(t, "ref")
       /\ UNCHANGED <<disks, ref, underWay, born, used>>
\* git lists nothing there, or the store fails: the record stays.
CarryFails(t) ==
    /\ At(t, "carry")
    /\ \/ ~Listed(task[t].rec.to) /\ UNCHANGED used
       \/ used.faults < MaxFaults /\ Spent("faults")
    /\ PutDown(t)
    /\ UNCHANGED <<disks, kept, moving, born>>

\* What comes after the capture's ref: the original a copy left, then the end.
AfterRef(t, captured) ==
    LET r == task[t].rec
    IN task' = [task EXCEPT ![t].captured = captured,
                  ![t].at = IF r.partial /\ (task[t].own \/ Holds(r.from, r.link))
                            THEN "wipefrom" ELSE "forget"]

\* The ref written under the new id, where there is none, and then taken from
\* under the old one. Another one there, or a failure, and it doesn't follow.
RefFollows(t) ==
    LET r == task[t].rec
    IN /\ At(t, "ref")
       /\ \/ ref[r.from] = None /\ AfterRef(t, TRUE) /\ UNCHANGED ref
          \/ /\ ref[r.from] # None /\ ref[r.to] \notin {None, ref[r.from]}
             /\ AfterRef(t, FALSE) /\ UNCHANGED ref
          \/ /\ ref[r.from] # None /\ ref[r.to] \in {None, ref[r.from]}
             /\ ref' = [ref EXCEPT ![r.to] = ref[r.from]]
             /\ Go(t, "refdrop")
       /\ UNCHANGED <<disks, rows, wtMoves, left, moving, underWay, born, used>>
RefDrops(t) ==
    LET r == task[t].rec
    IN /\ At(t, "refdrop")
       /\ ref' = IF ref[r.from] = ref[r.to] THEN [ref EXCEPT ![r.from] = None]
                 ELSE ref
       /\ AfterRef(t, ref[r.from] \in {None, ref[r.to]})
       /\ UNCHANGED <<disks, rows, wtMoves, left, moving, underWay, born, used>>
RefFails(t) ==
    /\ task[t].at \in {"ref", "refdrop"}
    /\ used.faults < MaxFaults /\ Spent("faults")
    /\ AfterRef(t, FALSE)
    /\ UNCHANGED <<disks, kept, moving, underWay, born>>

\* A folder deleted with its `.git` last, or cut short.
Wipe(t) ==
    LET r == task[t].rec
        dir == IF At(t, "wipefrom") THEN r.from ELSE r.to
    IN /\ task[t].at \in {"wipefrom", "wipeto"}
       /\ \/ /\ disk[dir] # None /\ disk[dir].whole
             /\ disk' = [disk EXCEPT ![dir].whole = FALSE]
             /\ UNCHANGED <<task, used>>
          \/ /\ disk[dir] # None => ~disk[dir].whole
             /\ disk' = [disk EXCEPT ![dir] = None]
             /\ Go(t, "forget") /\ UNCHANGED used
          \/ /\ used.faults < MaxFaults /\ Spent("faults")
             /\ Go(t, "forget") /\ UNCHANGED disk
       /\ UNCHANGED <<entry, kept, moving, underWay, born>>

\* The record's end, by its holder alone, once the capture followed.
Forget(t) ==
    LET r == task[t].rec
    IN /\ At(t, "forget")
       /\ moving' = IF task[t].captured /\ moving[r.from] # None
                       /\ moving[r.from].owner = Self(t)
                    THEN [moving EXCEPT ![r.from] = None] ELSE moving
       /\ PutDown(t)
       /\ UNCHANGED <<disks, kept, born, used>>

--------------------------------------------------------------------------------
(* The resume of moves cut short (resumeMoves, resumeOne).                     *)

\* A start, or the doctor, reads every record.
Resume(t) ==
    /\ At(t, "idle") /\ \E p \in Places : moving[p] # None
    /\ task' = [task EXCEPT ![t].at = "next",
                    ![t].todo = {moving[p] : p \in Places} \ {None}]
    /\ UNCHANGED <<disks, kept, moving, underWay, born, used>>

Live(t, r) == IF r.owner = Self(t) THEN r.from \in underWay[Proc[t]]
              ELSE r.owner \in Running

\* The next of them, as it was read with the others; one under way is left.
Look(t) ==
    /\ At(t, "next")
    /\ \E r \in task[t].todo :
          LET row == IF LateTurn THEN r ELSE moving[r.from]
              pass == row # None => Live(t, row)
          IN task' = [task EXCEPT ![t].todo = @ \ {r},
                        ![t].rec = IF pass THEN None ELSE row,
                        ![t].at = IF pass THEN "next" ELSE "dead"]
    /\ UNCHANGED <<disks, kept, moving, underWay, born, used>>
Looked(t) ==
    /\ At(t, "next") /\ task[t].todo = {}
    /\ task' = [task EXCEPT ![t] = IF @.move = None THEN Idle
                                   ELSE [@ EXCEPT !.at = "again"]]
    /\ UNCHANGED <<disks, kept, moving, underWay, born, used>>

\* Slip: a record taken over by whoever finds it.
TakeOverAny(t) ==
    LET r == task[t].rec
    IN /\ At(t, "dead") /\ moving[r.from] # None
       /\ moving' = [moving EXCEPT ![r.from].owner = Self(t)]
       /\ underWay' = [underWay EXCEPT ![Proc[t]] = @ \cup {r.from}]
       /\ Go(t, "taken")
       /\ UNCHANGED <<disks, kept, born, used>>
\* A dead process's record taken over, by one process alone; of two of its own
\* fibers the one that comes first marks it, if the other looks after that.
TakeOver(t) ==
    LET r == task[t].rec
        row == moving[r.from]
        same == /\ row # None /\ row.owner = r.owner
                /\ SlowTurn \/ ~(r.owner = Self(t) /\ r.from \in underWay[Proc[t]])
        mine == [row EXCEPT !.owner = Self(t)]
    IN /\ At(t, "dead")
       /\ IF same
          THEN /\ moving' = [moving EXCEPT ![r.from] = mine]
               /\ underWay' = [underWay EXCEPT ![Proc[t]] = @ \cup {r.from}]
               /\ task' = [task EXCEPT ![t].at = "taken",
                              ![t].rec.owner = mine.owner]
          ELSE /\ task' = [task EXCEPT ![t].at = "next", ![t].rec = None]
               /\ UNCHANGED <<moving, underWay>>
       /\ UNCHANGED <<disks, kept, born, used>>

Mine(p, link) == link = None \/ Holds(p, link)
AtSource(r) == Listed(r.from) /\ Mine(r.from, r.link)
Landed(r) == ~AtSource(r) /\ Listed(r.to) /\ Mine(r.to, r.link)

\* Slip: what is at the destination goes, whatever it is.
JudgeByPartial(t) ==
    LET r == task[t].rec
    IN /\ At(t, "judge") \/ (At(t, "taken") /\ ~Unlinked(r))
       /\ Go(t, CASE Landed(r) -> "carry"
                  [] AtSource(r) /\ r.partial -> "wipeto"
                  [] OTHER -> "forget")
       /\ UNCHANGED <<disks, kept, moving, underWay, born, used>>
\* It landed and is finished, or it is undone: a folder is deleted only when it
\* holds the move's link.
Judge(t) ==
    LET r == task[t].rec
    IN /\ At(t, "judge") \/ (At(t, "taken") /\ ~Unlinked(r))
       /\ Go(t, CASE Landed(r) -> "carry"
                  [] AtSource(r) /\ r.partial /\ ~Listed(r.to)
                     /\ Holds(r.to, r.link) -> "wipeto"
                  [] OTHER -> "forget")
       /\ UNCHANGED <<disks, kept, moving, underWay, born, used>>

--------------------------------------------------------------------------------
(* Worktrees made, and what is kept of them.                                   *)

Unmade(w) == entry[w] = None /\ \A p \in Spots : ~Holds(p, w)
Adds(w, p) ==
    /\ disk' = [disk EXCEPT ![p] = [of |-> w, whole |-> TRUE]]
    /\ entry' = [entry EXCEPT ![w] = p]

\* A create here: refused where a folder is, or where a record names the place.
CreateLooks(t, w, p) ==
    /\ At(t, "idle") /\ Unmade(w) /\ used.made < MaxMade
    /\ disk[p] = None /\ Named(p) = {}
    /\ task' = [task EXCEPT ![t].at = "adding",
                            ![t].move = [link |-> w, from |-> None, to |-> p]]
    /\ Spent("made")
    /\ UNCHANGED <<disks, kept, moving, underWay, born>>
CreateAdds(t) ==
    LET m == task[t].move
    IN /\ At(t, "adding")
       /\ IF disk[m.to] = None /\ ~Listed(m.to) /\ Unmade(m.link)
          THEN Adds(m.link, m.to) /\ Go(t, "made")
          ELSE task' = [task EXCEPT ![t] = Idle] /\ UNCHANGED disks
       /\ UNCHANGED <<kept, moving, underWay, born, used>>
\* What one removed from there left under the id isn't its own.
CreateForgets(t) ==
    LET p == task[t].move.to
    IN /\ At(t, "made")
       /\ rows' = [rows EXCEPT ![p] = None]
       /\ wtMoves' = Claimed(ForgetMovesInto(wtMoves, p), {p})
       /\ task' = [task EXCEPT ![t] = Idle]
       /\ UNCHANGED <<disks, ref, left, moving, underWay, born, used>>

\* Another tool makes a worktree, or a folder, where there is none.
Make(p) ==
    /\ used.made < MaxMade /\ disk[p] = None
    /\ \/ \E w \in Worktrees : Unmade(w) /\ ~Listed(p) /\ Adds(w, p)
       \/ /\ Squatters \/ ~Listed(p)
          /\ disk' = [disk EXCEPT ![p] = [of |-> Alien, whole |-> TRUE]]
          /\ UNCHANGED entry
    /\ Spent("made")
    /\ UNCHANGED <<kept, moving, underWay, born, task>>

\* The app keeps a fact of a worktree, or a capture of it, under its id. An id
\* is a record's until its rows are carried, and its capture until the end.
Note(w) ==
    LET p == entry[w]
    IN /\ p \in Places /\ used.notes < MaxNotes /\ Holds(p, w)
       /\ \/ /\ \A q \in Named(p) : moving[q].link # w /\ moving[q].carried
             /\ rows' = [rows EXCEPT ![p] = w] /\ UNCHANGED ref
          \/ /\ Named(p) = {}
             /\ ref' = [ref EXCEPT ![p] = w] /\ UNCHANGED rows
       /\ Spent("notes")
       /\ UNCHANGED <<disks, wtMoves, left, moving, underWay, born, task>>

Crash(p) ==
    /\ used.crashes < MaxCrashes /\ Spent("crashes")
    /\ born' = [born EXCEPT ![p] = @ + 1]
    /\ underWay' = [underWay EXCEPT ![p] = {}]
    /\ task' = [t \in Tasks |-> IF Proc[t] = p THEN Idle ELSE task[t]]
    /\ UNCHANGED <<disks, kept, moving>>

--------------------------------------------------------------------------------
Init ==
    /\ entry = Home
    /\ disk = [p \in Spots |-> IF \E w \in Worktrees : Home[w] = p
                 THEN [of |-> CHOOSE w \in Worktrees : Home[w] = p, whole |-> TRUE]
                 ELSE None]
    /\ rows = [p \in Spots |-> IF disk[p] = None THEN None ELSE disk[p].of]
    /\ ref = rows
    /\ wtMoves = [p \in Places |-> None]
    /\ left = [p \in Places |-> None]
    /\ moving = [p \in Places |-> None]
    /\ underWay = [p \in Procs |-> {}]
    /\ born = [p \in Procs |-> 0]
    /\ task = [t \in Tasks |-> Idle]
    /\ used = [moves |-> 0, crashes |-> 0, faults |-> 0, made |-> 0, notes |-> 0]

GitStep(t) == \/ GitRenames(t) \/ GitRecords(t) \/ GitNests(t) \/ GitFails(t)
              \/ Relink(t) \/ RelinkFails(t)
CopyStep(t) == \/ Cross(t) \/ CopyFails(t) \/ PutIn(t) \/ PutInDies(t)
               \/ Repair(t) \/ RepairFails(t) \/ Undo(t)
CarryStep(t) == \/ Carry(t) \/ CarryFails(t) \/ RefFollows(t) \/ RefDrops(t)
                \/ RefFails(t) \/ Wipe(t) \/ Forget(t)
ClaimStep(t) == Claim(t) \/ ClaimWaits(t) \/ ClaimRefused(t)
ResumeStep(t) == Look(t) \/ Looked(t) \/ TakeOver(t) \/ Judge(t)
CreateStep(t) == CreateAdds(t) \/ CreateForgets(t)
\* What a fiber does once it was asked to.
Goes(t) == \/ ClaimStep(t) \/ GitStep(t) \/ CopyStep(t) \/ CarryStep(t)
           \/ ResumeStep(t) \/ CreateStep(t)
\* Nothing is under way and nothing is owed.
Rest == /\ \A t \in Tasks : At(t, "idle")
        /\ \A p \in Places : moving[p] = None
        /\ UNCHANGED vars
Next ==
    \/ Rest
    \/ \E t \in Tasks : Goes(t) \/ Resume(t)
    \/ \E t \in Tasks, w \in Worktrees, p \in Places :
          Ask(t, w, p) \/ CreateLooks(t, w, p)
    \/ \E p \in Places : Make(p)
    \/ \E w \in Worktrees : Note(w)
    \/ \E p \in Procs : Crash(p)

Spec == Init /\ [][Next]_vars

--------------------------------------------------------------------------------
(* Properties.                                                                 *)

TypeOK ==
    /\ disk \in [Spots -> Folders \cup {None}]
    /\ entry \in [Worktrees -> Spots \cup {None}]
    /\ rows \in [Spots -> Worktrees \cup {None}]
    /\ ref \in [Spots -> Worktrees \cup {None}]
    /\ wtMoves \in [Places -> Rows \cup {None}]
    /\ moving \in [Places -> Records \cup {None}]
    /\ \A p \in Places : moving[p] # None => moving[p].from = p
    /\ underWay \in [Procs -> SUBSET Places]
    /\ born \in [Procs -> 0..MaxCrashes]
    /\ \A t \in Tasks : /\ task[t].at \in Steps
                        /\ task[t].rec \in Records \cup {None}
                        /\ task[t].todo \subseteq Records
    /\ left \in [Places -> Worktrees \cup {None}]

Made == {w \in Worktrees : ~Unmade(w)}
WholeAt(w, p) == p # None /\ disk[p] = [of |-> w, whole |-> TRUE]
NamedFor(w, p) == \E q \in Named(p) : moving[q].link = w

\* A worktree's checkout is whole somewhere at every instant: where git lists it,
\* or at one of the two folders of a record that is kept for it.
WorkFound ==
    \A w \in Made : \/ WholeAt(w, entry[w])
                     \/ \E p \in Places : WholeAt(w, p) /\ NamedFor(w, p)

\* A whole folder is only ever deleted while git lists the same worktree, whole,
\* at another: nobody else's folder goes with a move, and no only copy.
DeletesCopies ==
    [][\A p \in Spots :
         disk[p] # None /\ disk[p].whole /\ disk'[p] # None /\ ~disk'[p].whole
         => \E w \in Worktrees : /\ disk[p].of = w /\ entry[w] # p
                                 /\ WholeAt(w, entry[w])
      ]_vars

\* What the store keeps of a worktree is under the id of where git lists it, or
\* under an id that a record of its move names.
RowsFollow ==
    \A p \in Spots : rows[p] # None =>
        entry[rows[p]] \in {p, Nested} \/ NamedFor(rows[p], p)

\* So is its capture, which no other worktree's is ever put over.
CaptureFollows ==
    \A p \in Spots : ref[p] # None =>
        entry[ref[p]] \in {p, Nested} \/ NamedFor(ref[p], p)

\* An id of a folder that left leads to where that worktree is.
OldIdLeads ==
    \A p \in Places : LET now == Placed(wtMoves)[p] IN
        now # p /\ disk[p] = None /\ Named(p) = {} =>
            entry[left[p]] \in {now, Nested} \/ NamedFor(left[p], now)

\* All that is known of a worktree is found by the id of where it is, whichever
\* process moved it and whichever finished its move.
AllFollows == RowsFollow /\ CaptureFollows /\ OldIdLeads

\* One fiber at most is at work on a record, its mover or who took it over.
Working(t) == task[t].rec # None /\ ~At(t, "dead")
OneWorker ==
    \A t, u \in Tasks : t # u /\ Working(t) /\ Working(u)
        => task[t].rec.from # task[u].rec.from
================================================================================
