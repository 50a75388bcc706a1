------------------------------ MODULE DataDirMove ------------------------------
(***************************************************************************)
(* The move of the data folder to another place, and what every start does *)
(* about a move a crash or a failure cut short.                            *)
(*   packages/engine/src/dataDirMove.ts          the move, undo and finish *)
(*   packages/engine/src/dataDirMoveJournal.ts   journal, rescue, triggers *)
(*   packages/engine/src/Paths.ts                where a start finds it    *)
(*   packages/engine/src/worktrees/kept.ts       a worktree's re-key       *)
(*   packages/engine/src/Store.ts                a start makes its store   *)
(*                                                                         *)
(* A folder (the contents of one data dir) is its store's count of         *)
(* accepted writes, the id each worktree's rows are kept under (an id is a *)
(* hash of the worktree's path, so it is named by the place of the data    *)
(* dir), whether the store's triggers refuse writes, and the move's        *)
(* journal.  Dirty captures are git refs of the project, outside the data  *)
(* dir, and so are git's own links to the worktrees.                       *)
(*                                                                         *)
(* The data folder's lock (DataDirLock) is `holder`: a move and a recovery *)
(* run with it alone, one step at a time, so their local state is one set  *)
(* of variables, lost in a crash.  The lock's own protocol is another      *)
(* module's.  Flushes, port-pool leases and script output are left out.    *)
(***************************************************************************)
EXTENDS Integers, FiniteSets

CONSTANTS
    Places,         \* where the data dir can be
    Default,        \* the place that needs no pointer file
    Procs,          \* processes of sm: the app and terminal commands
    App,            \* the one that moves the folder
    Doctors,        \* the runs of `sm doctor`, which settle nothing
    Worktrees,      \* the managed worktrees inside the data dir
    None,           \* no file, no folder, no journal, no process
    HasLegacy,      \* whether this flavor reads the pre-2.0 pointer file
    AtomicStart,    \* whether nothing comes between a start's look and its open
    MaxMoves, MaxCrashes, MaxFaults, MaxWrites, MaxCaptures, MaxTouches

ASSUME PlacesAssumption == Default \in Places /\ None \notin Places
ASSUME ProcsAssumption ==
    App \in Procs /\ None \notin Procs /\ Doctors \subseteq Procs \ {App}
ASSUME WorktreesAssumption == None \notin Worktrees
ASSUME FlagsAssumption == HasLegacy \in BOOLEAN /\ AtomicStart \in BOOLEAN
ASSUME BoundsAssumption ==
    /\ MaxMoves \in Nat /\ MaxCrashes \in Nat /\ MaxFaults \in Nat
    /\ MaxWrites \in Nat /\ MaxCaptures \in Nat /\ MaxTouches \in Nat

NoCapture == 0
NoPartial == 0

\* What the journal says of one worktree.  "none": not yet listed.
Entry == [state : {"none", "planned", "rekeyed", "returned"}, capture : Nat]

\* `partial` names the copy to another volume, by the move that makes it.
Journal == [from : Places, to : Places, partial : Nat,
            moved : [Worktrees -> Entry]]

\* "data": the user's.  "fresh": made by a start that found nothing.
\* "husk": a copy being removed, of which the journal alone is left.
Folder == [kind : {"data", "fresh", "husk"}, refusing : BOOLEAN, count : Nat,
           rows : [Worktrees -> Places], journal : Journal \cup {None}]

ASSUME NoneAssumption == None \notin Journal /\ None \notin Folder

Step == {"idle", "resume", "check", "retire", "journal", "plan",
         "pick", "carry", "drop", "rows", "mark",
         "rename", "copy", "land", "pointer", "legacy", "links",
         "unmake", "unmakeHusk", "repair", "letGo", "revive"}

VARIABLES
    pointer, legacy,    \* where the pointer file and the pre-2.0 one lead
    staged,             \* pointer files written beside, each <<to, move>>
    dir,                \* the folder at each place
    partials,           \* the copies in the making on disk
    link,               \* where git's link to each worktree leads
    capture,            \* the dirty capture under each worktree's each id
    status, at, fd,     \* a process, the data dir it found, its open store
    holder, goal, step, \* who holds the lock alone, to move where, its step
    mem,                \* the journal as the holder's memory has it
    back, cur, todo,    \* the re-key under way: reversed, of whom, still due
    good,               \* whether every step of an undo or a finish went well
    accepted, latest,   \* writes the store took, each worktree's last capture
    moves, crashes, faults, touches

files == <<pointer, legacy, staged>>
data == <<dir, partials>>
git == <<link, capture>>
procs == <<status, at, fd>>
rekey == <<mem, back, cur, todo, good>>
lock == <<holder, goal, step, rekey>>
ghosts == <<accepted, latest>>
budgets == <<moves, crashes, faults, touches>>
vars == <<files, data, git, procs, lock, ghosts, budgets>>

--------------------------------------------------------------------------------
\* A step that fails.
Fault == faults < MaxFaults /\ faults' = faults + 1

(* Where the data dir is found. *)

\* Paths' resolve: the pointer file, else the pre-2.0 one, else the default.
Named == IF pointer # None THEN pointer
         ELSE IF legacy # None THEN legacy ELSE Default

\* Slip: only the staged pointers looked at, never the default place.
StrandedStaged ==
    {p \in {s[1] : s \in staged} :
        /\ dir[Named] = None /\ p # Named /\ dir[p] # None
        /\ dir[p].journal # None
        /\ dir[p].journal.partial = NoPartial
        /\ dir[p].journal.from = Named /\ dir[p].journal.to = p}

\* The stranded renames a start may commit: the folder named is gone, and a
\* staged pointer's target, or the default, holds the journal of a rename
\* from there.
Stranded ==
    {p \in {s[1] : s \in staged} \cup {Default} :
        /\ dir[Named] = None
        /\ p # Named
        /\ dir[p] # None
        /\ dir[p].journal # None
        /\ dir[p].journal.partial = NoPartial
        /\ dir[p].journal.from = Named
        /\ dir[p].journal.to = p}

\* Where a start ends up once the rescue is made.
Found == IF Stranded # {} THEN CHOOSE p \in Stranded : TRUE ELSE Named

\* rescueStrandedMove commits the pointer the move never did.  `dropped`
\* FALSE is the pre-2.0 pointer that could not be removed after it.
Rescue(p, dropped) ==
    /\ p \in Stranded
    /\ IF p \in {s[1] : s \in staged}
         THEN \E s \in staged :
                /\ s[1] = p
                /\ staged' = staged \ {s}
                /\ pointer' = p
         ELSE pointer' = None /\ staged' = staged
    /\ IF dropped
         THEN legacy' = None /\ faults' = faults
         ELSE Fault /\ legacy' = legacy
    /\ UNCHANGED <<data, git, procs, lock, ghosts, moves, crashes, touches>>

--------------------------------------------------------------------------------
(* A process: it finds the data dir, opens the store there, settles. *)

Locate(p) ==
    /\ status[p] = "off"
    /\ Stranded = {}
    /\ at' = [at EXCEPT ![p] = Named]
    /\ status' = [status EXCEPT ![p] = "located"]
    /\ UNCHANGED <<files, data, git, fd, lock, ghosts, budgets>>

FreshFolder == [kind |-> "fresh", refusing |-> FALSE, count |-> 0,
                rows |-> [w \in Worktrees |-> Default], journal |-> None]

\* Store.layer makes the folder and the store where they are not there.  In a
\* husk the journal is there and the store is not.
Made(f) == IF f = None THEN FreshFolder
           ELSE IF f.kind = "husk" THEN [FreshFolder EXCEPT !.journal = f.journal]
           ELSE f

Open(p) ==
    /\ status[p] = "located"
    /\ dir' = [dir EXCEPT ![at[p]] = Made(@)]
    /\ fd' = [fd EXCEPT ![p] = at[p]]
    /\ status' = [status EXCEPT ![p] = "opened"]
    /\ UNCHANGED <<files, partials, git, at, lock, ghosts, budgets>>

\* An open store whose folder was removed was refusing then, and still is.
Refuses(p) == IF fd[p] = None THEN TRUE ELSE dir[fd[p]].refusing
JournalAt(p) == IF dir[p] = None THEN None ELSE dir[p].journal

\* settleLayer: a start that finds a journal, or a refusing store.
Owed(p) == JournalAt(at[p]) # None \/ Refuses(p)

Hold(p, to) ==
    /\ holder = None
    /\ holder' = p
    /\ goal' = to
    /\ step' = "resume"
    /\ UNCHANGED rekey

BeginSettle(p) ==
    /\ status[p] = "opened" /\ p \notin Doctors
    /\ Owed(p)
    /\ Hold(p, None)
    /\ UNCHANGED <<files, data, git, procs, ghosts, budgets>>

\* Nothing owed, or the lock still held by another after two seconds, or it
\* can't be held: logged, and the process carries on, its store refusing.
SkipSettle(p) ==
    /\ status[p] = "opened" /\ holder # p
    /\ \/ (Owed(p) => p \in Doctors \/ holder # None) /\ UNCHANGED faults
       \/ Fault
    /\ status' = [status EXCEPT ![p] = "up"]
    /\ UNCHANGED <<files, data, git, at, fd, lock, ghosts,
                   moves, crashes, touches>>

\* A write of the store alone, which holds no lock: the triggers say.
Write(p) ==
    /\ status[p] \in {"up", "leaving"}
    /\ ~Refuses(p)
    /\ accepted < MaxWrites
    /\ accepted' = accepted + 1
    /\ dir' = [dir EXCEPT ![fd[p]].count = @ + 1]
    /\ UNCHANGED <<files, partials, git, procs, lock, latest, budgets>>

\* A guarded change, here a dirty capture: the data dir still found where
\* this process found it, and the lock shared, unless the lock can't be held
\* at all (DataDirLock's "unavailable"), which counts as a touch.
Capture(p, w) ==
    /\ status[p] = "up"
    /\ Stranded = {}
    /\ Named = at[p]
    /\ dir[at[p]] # None
    /\ \/ holder = None /\ UNCHANGED touches
       \/ touches < MaxTouches /\ touches' = touches + 1
    /\ latest[w] < MaxCaptures
    /\ latest' = [latest EXCEPT ![w] = @ + 1]
    /\ capture' = [capture EXCEPT ![w][at[p]] = latest[w] + 1]
    /\ UNCHANGED <<files, data, link, procs, lock, accepted,
                   moves, crashes, faults>>

Clear ==
    /\ holder' = None
    /\ step' = "idle" /\ goal' = None /\ mem' = None
    /\ back' = FALSE /\ cur' = None /\ todo' = {} /\ good' = TRUE

Quit(p) ==
    /\ status[p] \in {"up", "leaving"}
    /\ holder # p
    /\ status' = [status EXCEPT ![p] = "off"]
    /\ UNCHANGED <<files, data, git, at, fd, lock, ghosts, budgets>>

Crash(p) ==
    /\ status[p] # "off"
    /\ crashes < MaxCrashes
    /\ crashes' = crashes + 1
    /\ status' = [status EXCEPT ![p] = "off"]
    /\ IF holder = p THEN Clear ELSE UNCHANGED lock
    /\ UNCHANGED <<files, data, git, at, fd, ghosts, moves, faults, touches>>

--------------------------------------------------------------------------------
(* The holder of the lock.  A step may fail (Fault); what the code does then *)
(* is an action of its own.                                                  *)

Goto(s) == step' = s /\ UNCHANGED <<holder, goal>>
Store == fd[holder]
Here == at[holder]

\* The lock let go.  A start that settled carries on; the app that moved
\* leaves if it had let go of the folder, and carries on otherwise.
Release ==
    /\ Clear
    /\ status' = [status EXCEPT ![holder] = IF @ = "opened" THEN "up" ELSE @]

\* An earlier move settled: the app then makes its own, a start is done.
Settled ==
    IF goal = None
      THEN Release
      ELSE /\ Goto("check")
           /\ mem' = None /\ back' = FALSE /\ cur' = None /\ todo' = {}
           /\ good' = TRUE
           /\ UNCHANGED status

Refusing(b) == [dir EXCEPT ![Store].refusing = b]
Journaled(j) == [dir EXCEPT ![Here].journal = j]

\* resumeDataDirMove, up to its choice of an undo or a finish.
ResumeNothing ==
    /\ step = "resume" /\ Stranded = {}
    /\ Named # Here \/ (JournalAt(Here) = None /\ ~Refuses(holder))
    /\ Settled
    /\ UNCHANGED <<files, data, git, at, fd, ghosts, budgets>>

\* Slip: a store left refusing by a crash before the journal is left so.
ResumeRefusingStays ==
    /\ step = "resume" /\ Stranded = {}
    /\ Named = Here /\ JournalAt(Here) = None /\ Refuses(holder)
    /\ Settled
    /\ UNCHANGED <<files, data, git, at, fd, ghosts, budgets>>

ResumeRefusing ==
    /\ step = "resume" /\ Stranded = {}
    /\ Named = Here /\ JournalAt(Here) = None /\ Refuses(holder)
    /\ \/ dir' = Refusing(FALSE) /\ UNCHANGED faults
       \/ Fault /\ UNCHANGED dir
    /\ Settled
    /\ UNCHANGED <<files, partials, git, at, fd, ghosts,
                   moves, crashes, touches>>

ResumeJournal ==
    /\ step = "resume" /\ Stranded = {}
    /\ Named = Here /\ JournalAt(Here) # None
    /\ mem' = dir[Here].journal
    /\ back' = (mem'.to # Named)
    /\ IF back'
         THEN /\ todo' = {w \in Worktrees : mem'.moved[w].state # "none"}
              /\ Goto("pick")
         ELSE todo' = {} /\ Goto("unmake")
    /\ cur' = None /\ good' = TRUE
    /\ UNCHANGED <<files, data, git, procs, ghosts, budgets>>

--------------------------------------------------------------------------------
(* The move, up to its journal. *)

BeginMove(to) ==
    /\ status[App] = "up"
    /\ moves < MaxMoves
    /\ to # at[App]
    /\ Hold(App, to)
    /\ moves' = moves + 1
    /\ UNCHANGED <<files, data, git, procs, ghosts, crashes, faults, touches>>

\* Refused before anything moved: an earlier move still owed, a project
\* inside the data dir, the app busy, the destination not empty.
RefuseMove ==
    /\ step = "check"
    /\ Release
    /\ UNCHANGED <<files, data, git, at, fd, ghosts, budgets>>

Staged == <<mem.to, moves>>

StagePointer ==
    /\ step = "check"
    /\ JournalAt(Here) = None
    /\ dir[goal] = None
    /\ staged' = IF goal = Default THEN staged ELSE staged \cup {<<goal, moves>>}
    /\ Goto("retire")
    /\ UNCHANGED <<pointer, legacy, data, git, procs, ghosts, budgets, rekey>>

\* Slip: the store goes on writing under the move.
RetireStoreNot ==
    /\ step = "retire"
    /\ Goto("journal")
    /\ UNCHANGED <<files, data, git, procs, ghosts, budgets, rekey>>

RetireStore ==
    /\ step = "retire"
    /\ dir' = Refusing(TRUE)
    /\ Goto("journal")
    /\ UNCHANGED <<files, partials, git, procs, ghosts, budgets, rekey>>

Unlisted == [w \in Worktrees |-> [state |-> "none", capture |-> NoCapture]]
Bare == [from |-> Here, to |-> goal, partial |-> NoPartial, moved |-> Unlisted]
BareLeft(b) == [Refusing(b) EXCEPT ![Here].journal = Bare]

\* No journal yet: the staged pointer removed and the store revived, either
\* best effort.  Triggers half made leave the store refusing too.  So is it
\* where the journal was renamed in and its folder's flush cut short.
AbortUnjournaled ==
    /\ step \in {"retire", "journal"}
    /\ Fault
    /\ staged' \in {staged, staged \ {<<goal, moves>>}}
    /\ \E b \in BOOLEAN :
          \/ dir' = Refusing(b)
          \/ step = "journal" /\ dir[Here] # None /\ dir' = BareLeft(b)
    /\ Release
    /\ UNCHANGED <<pointer, legacy, partials, git, at, fd, ghosts,
                   moves, crashes, touches>>

WriteJournal ==
    /\ step = "journal"
    /\ dir[Here] # None
    /\ mem' = Bare
    /\ dir' = Journaled(mem')
    /\ Goto("plan")
    /\ UNCHANGED <<files, partials, git, procs, ghosts, budgets,
                   back, cur, todo, good>>

\* A failure once journaled and before the folder landed: the staged pointer
\* removed (best effort), then the journal in memory undone.
Abort(j) ==
    /\ mem' = j
    /\ goal' = None /\ step' = "pick" /\ UNCHANGED holder
    /\ back' = TRUE /\ cur' = None /\ good' = TRUE
    /\ todo' = {w \in Worktrees : j.moved[w].state # "none"}
    /\ staged' \in {staged, staged \ {Staged}}
    /\ UNCHANGED <<pointer, legacy>>

\* keptUnderNewId: rows or a capture under the id of the worktree at `p`.
Kept(w, p) == dir[Store].rows[w] = p \/ capture[w][p] # NoCapture

\* The listing, the preflight and the snapshot.
Plan ==
    /\ step = "plan"
    /\ \A w \in Worktrees : ~Kept(w, mem.to)
    /\ mem' = [mem EXCEPT !.moved =
                 [w \in Worktrees |-> [state |-> "planned",
                                       capture |-> capture[w][mem.from]]]]
    /\ dir' = Journaled(mem')
    /\ todo' = Worktrees
    /\ Goto("pick")
    /\ UNCHANGED <<files, partials, git, procs, ghosts, budgets,
                   back, cur, good>>

PlanRefused ==
    /\ step = "plan"
    /\ \/ (\E w \in Worktrees : Kept(w, mem.to)) /\ UNCHANGED faults
       \/ Fault
    /\ Abort(mem)
    /\ UNCHANGED <<data, git, procs, ghosts, moves, crashes, touches>>

--------------------------------------------------------------------------------
(* The re-key of one worktree (kept.ts), forward or back. *)

Src == IF back THEN mem.to ELSE mem.from
Dst == IF back THEN mem.from ELSE mem.to

\* The next worktree due.  An undo passes over one already returned, and one
\* still planned with nothing under its new id.
PickRekey(w) ==
    /\ step = "pick" /\ w \in todo
    /\ ~back \/ mem.moved[w].state = "rekeyed"
             \/ (mem.moved[w].state = "planned" /\ Kept(w, mem.to))
    /\ cur' = w
    /\ Goto("carry")
    /\ UNCHANGED <<files, data, git, procs, ghosts, budgets,
                   mem, back, todo, good>>

\* Slip: an entry still planned taken for one whose re-key never began.
PickNothingPlanned(w) ==
    /\ step = "pick" /\ w \in todo /\ back
    /\ mem.moved[w].state \in {"returned", "planned"}
    /\ todo' = todo \ {w}
    /\ UNCHANGED <<files, data, git, procs, holder, goal, step, ghosts, budgets,
                   mem, back, cur, good>>

PickNothing(w) ==
    /\ step = "pick" /\ w \in todo /\ back
    /\ \/ mem.moved[w].state = "returned"
       \/ mem.moved[w].state = "planned" /\ ~Kept(w, mem.to)
    /\ todo' = todo \ {w}
    /\ UNCHANGED <<files, data, git, procs, holder, goal, step, ghosts, budgets,
                   mem, back, cur, good>>

\* rekeyCapture's reads.  The capture follows only if it is the journal's
\* and no other is kept under the id it goes to.
Followed == capture[cur][Src] = NoCapture
Carried ==
    /\ capture[cur][Src] = mem.moved[cur].capture
    /\ Followed \/ capture[cur][Dst] \in {NoCapture, capture[cur][Src]}

CarryCapture ==
    /\ step = "carry" /\ Carried
    /\ IF Followed
         THEN Goto("rows") /\ UNCHANGED capture
         ELSE /\ capture' = [capture EXCEPT ![cur][Dst] = capture[cur][Src]]
              /\ Goto("drop")
    /\ UNCHANGED <<files, data, link, procs, ghosts, budgets, rekey>>

\* "changed" or "occupied": forward fails the move, back leaves it there.
LeaveCapture ==
    /\ step = "carry" /\ ~Carried
    /\ IF back
         THEN Goto("rows") /\ UNCHANGED <<files, rekey>>
         ELSE Abort(mem)
    /\ UNCHANGED <<data, git, procs, ghosts, budgets>>

Marked == [mem EXCEPT !.moved[cur].state = IF back THEN "returned" ELSE "rekeyed"]

\* A step of a re-key that failed, its mark set in memory if that was it.
Failed ==
    LET j == IF step = "mark" THEN Marked ELSE mem IN
    IF back
      THEN /\ good' = FALSE /\ mem' = j
           /\ todo' = todo \ {cur} /\ cur' = None
           /\ Goto("pick")
           /\ UNCHANGED <<files, back>>
      ELSE Abort(j)

\* Slip: the old ref deleted whatever it is by now.
DropCaptureAnyway ==
    /\ step = "drop"
    /\ capture' = [capture EXCEPT ![cur][Src] = NoCapture]
    /\ Goto("rows")
    /\ UNCHANGED <<files, data, link, procs, ghosts, budgets, rekey>>

\* The old ref deleted, if it still is the one carried.
DropCapture ==
    /\ step = "drop"
    /\ IF capture[cur][Src] = mem.moved[cur].capture
         THEN /\ capture' = [capture EXCEPT ![cur][Src] = NoCapture]
              /\ Goto("rows")
              /\ UNCHANGED <<files, rekey>>
         ELSE Failed /\ UNCHANGED capture
    /\ UNCHANGED <<data, link, procs, ghosts, budgets>>

\* The commit of the one transaction the re-key ran in (asMoveOwner), its rows
\* changed in it first: until then a failure or a crash rolls them back.
RekeyRows ==
    /\ step = "rows"
    /\ dir' = [dir EXCEPT ![Store].rows[cur] = IF @ = Src THEN Dst ELSE @]
    /\ Goto("mark")
    /\ UNCHANGED <<files, partials, git, procs, ghosts, budgets, rekey>>

MarkEntry ==
    /\ step = "mark"
    /\ mem' = Marked
    /\ dir' = Journaled(mem')
    /\ todo' = todo \ {cur} /\ cur' = None
    /\ Goto("pick")
    /\ UNCHANGED <<files, partials, git, procs, ghosts, budgets, back, good>>

RekeyFault ==
    /\ step \in {"carry", "drop", "rows", "mark"}
    /\ Fault
    /\ Failed
    /\ UNCHANGED <<data, git, procs, ghosts, moves, crashes, touches>>

--------------------------------------------------------------------------------
(* The folder moved, and its pointer committed. *)

\* Past it the app restarts however the move ends.
Releasing ==
    /\ step = "pick" /\ todo = {} /\ ~back
    /\ status' = [status EXCEPT ![holder] = "leaving"]
    /\ Goto("rename")
    /\ UNCHANGED <<files, data, git, at, fd, ghosts, budgets, rekey>>

\* An open store goes where its folder goes.
Renamed ==
    /\ dir[mem.to] = None
    /\ dir' = [dir EXCEPT ![mem.to] = dir[mem.from], ![mem.from] = None]
    /\ fd' = [p \in Procs |-> IF fd[p] = mem.from THEN mem.to ELSE fd[p]]

RenameFolder ==
    /\ step = "rename"
    /\ Renamed
    /\ Goto("pointer")
    /\ UNCHANGED <<files, partials, git, status, at, ghosts, budgets, rekey>>

\* A rename that failed, and one whose answer was lost: the folder gone
\* counts as landed, which leaves the rest to the rescue.
RenameFault ==
    /\ step = "rename"
    /\ Fault
    /\ \/ Abort(mem) /\ UNCHANGED <<dir, fd, status>>
       \/ Renamed /\ Release /\ UNCHANGED files
    /\ UNCHANGED <<partials, git, at, ghosts, moves, crashes, touches>>

CrossVolumes ==
    /\ step = "rename"
    /\ mem' = [mem EXCEPT !.partial = moves]
    /\ dir' = Journaled(mem')
    /\ Goto("copy")
    /\ UNCHANGED <<files, partials, git, procs, ghosts, budgets,
                   back, cur, todo, good>>

StartCopy ==
    /\ step = "copy"
    /\ partials' = partials \cup {mem.partial}
    /\ Goto("land")
    /\ UNCHANGED <<files, dir, git, procs, ghosts, budgets, rekey>>

\* The copy whole and renamed in: the store's write lock was held and its
\* triggers refuse, so it is what `from` still is.
Landed ==
    /\ dir[mem.to] = None
    /\ dir' = [dir EXCEPT ![mem.to] = dir[mem.from]]
    /\ partials' = partials \ {mem.partial}

LandCopy ==
    /\ step = "land"
    /\ Landed
    /\ Goto("pointer")
    /\ UNCHANGED <<files, git, procs, ghosts, budgets, rekey>>

CopyFault ==
    /\ step \in {"copy", "land"}
    /\ Fault
    /\ \/ step = "land" /\ Landed
       \/ UNCHANGED data
    /\ Abort(mem)
    /\ UNCHANGED <<git, procs, ghosts, moves, crashes, touches>>

\* Renamed in, or removed for the default place.  A start may have made the
\* rescue first, and taken the staged file.
CommitPointer ==
    /\ step = "pointer"
    /\ IF mem.to = Default
         THEN pointer' = None /\ staged' = staged
         ELSE /\ Staged \in staged \/ pointer = mem.to
              /\ pointer' = mem.to
              /\ staged' = staged \ {Staged}
    /\ Goto("legacy")
    /\ UNCHANGED <<legacy, data, git, procs, ghosts, budgets, rekey>>

ClearLegacy ==
    /\ step = "legacy"
    /\ legacy' = None
    /\ Goto("links")
    /\ UNCHANGED <<pointer, staged, data, git, procs, ghosts, budgets, rekey>>

\* finishMove without `settle`: git's links alone, which may fail.
RelinkAndEnd ==
    /\ step = "links"
    /\ \/ link' = [w \in Worktrees |-> mem.to] /\ UNCHANGED faults
       \/ Fault /\ UNCHANGED link
    /\ Release
    /\ UNCHANGED <<files, data, capture, at, fd, ghosts, moves, crashes, touches>>

StopLanded ==
    /\ step \in {"pointer", "legacy"}
    /\ Fault
    /\ Release
    /\ UNCHANGED <<files, data, git, at, fd, ghosts, moves, crashes, touches>>

--------------------------------------------------------------------------------
(* The end of an undo (`back`), and a finish. *)

\* The copy an undo removes at the destination, a finish at the source.
Copy == IF back THEN mem.to ELSE mem.from
OwnCopy ==
    /\ mem.partial # NoPartial
    /\ Copy # Here
    /\ JournalAt(Copy) # None
    /\ JournalAt(Copy).from = mem.from
    /\ JournalAt(Copy).partial = mem.partial

AfterCopy == IF back THEN "letGo" ELSE "repair"

UndoneRekeys ==
    /\ step = "pick" /\ todo = {} /\ back
    /\ Goto("unmake")
    /\ UNCHANGED <<files, data, git, procs, ghosts, budgets, rekey>>

\* removeOwnCopy: all but the journal, which goes last.
Closed(p) == fd' = [q \in Procs |-> IF fd[q] = p THEN None ELSE fd[q]]

Unmake ==
    /\ step = "unmake"
    /\ partials' = IF back THEN partials \ {mem.partial} ELSE partials
    /\ IF OwnCopy
         THEN /\ dir' = [dir EXCEPT ![Copy].kind = "husk"]
              /\ Closed(Copy)
              /\ Goto("unmakeHusk")
         ELSE Goto(AfterCopy) /\ UNCHANGED <<dir, fd>>
    /\ UNCHANGED <<files, git, status, at, ghosts, budgets, rekey>>

UnmakeHusk ==
    /\ step = "unmakeHusk"
    /\ dir' = [dir EXCEPT ![Copy] = None]
    /\ Closed(Copy)
    /\ Goto(AfterCopy)
    /\ UNCHANGED <<files, partials, git, status, at, ghosts, budgets, rekey>>

\* A failed removal, or a copy whose journal can't be read.
UnmakeFault ==
    /\ step \in {"unmake", "unmakeHusk"}
    /\ Fault
    /\ good' = FALSE
    /\ Goto(AfterCopy)
    /\ UNCHANGED <<files, data, git, procs, ghosts, moves, crashes, touches,
                   mem, back, cur, todo>>

Repair ==
    /\ step = "repair"
    /\ \/ link' = [w \in Worktrees |-> Here] /\ UNCHANGED <<good, faults>>
       \/ Fault /\ good' = FALSE /\ UNCHANGED link
    /\ Goto("letGo")
    /\ UNCHANGED <<files, data, capture, procs, ghosts,
                   moves, crashes, touches, mem, back, cur, todo>>

\* The journal gone, then the store writing again.
KeepJournal ==
    /\ step = "letGo"
    /\ \/ ~good /\ UNCHANGED faults
       \/ Fault
    /\ Settled
    /\ UNCHANGED <<files, data, git, at, fd, ghosts, moves, crashes, touches>>

\* Slip: the store revived before the journal is gone.
LetGoBackwards ==
    /\ step = "letGo" /\ good
    /\ dir' = Refusing(FALSE)
    /\ Goto("revive")
    /\ UNCHANGED <<files, partials, git, procs, ghosts, budgets, rekey>>

LetGo ==
    /\ step = "letGo" /\ good
    /\ dir' = Journaled(None)
    /\ Goto("revive")
    /\ UNCHANGED <<files, partials, git, procs, ghosts, budgets, rekey>>

ReviveStore ==
    /\ step = "revive"
    /\ \/ dir' = Refusing(FALSE) /\ UNCHANGED faults
       \/ Fault /\ UNCHANGED dir
    /\ Settled
    /\ UNCHANGED <<files, partials, git, at, fd, ghosts,
                   moves, crashes, touches>>

--------------------------------------------------------------------------------

\* A data dir at the default place, or where a pointer leads.
InitFiles ==
    \/ pointer = None /\ legacy = None
    \/ pointer \in Places \ {Default} /\ legacy = None
    \/ HasLegacy /\ pointer = None /\ legacy \in Places \ {Default}

Init ==
    /\ InitFiles
    /\ staged = {}
    /\ dir = [p \in Places |->
                IF p = Named
                  THEN [kind |-> "data", refusing |-> FALSE, count |-> 0,
                        rows |-> [w \in Worktrees |-> Named], journal |-> None]
                  ELSE None]
    /\ partials = {}
    /\ link = [w \in Worktrees |-> Named]
    /\ latest \in [Worktrees -> {NoCapture, 1}]
    /\ capture = [w \in Worktrees |-> [p \in Places |->
                    IF p = Named THEN latest[w] ELSE NoCapture]]
    /\ status = [p \in Procs |-> "off"]
    /\ at = [p \in Procs |-> Named]
    /\ fd = [p \in Procs |-> None]
    /\ holder = None /\ goal = None /\ step = "idle" /\ mem = None
    /\ back = FALSE /\ cur = None /\ todo = {} /\ good = TRUE
    /\ accepted = 0
    /\ moves = 0 /\ crashes = 0 /\ faults = 0 /\ touches = 0

ResumeStep == ResumeNothing \/ ResumeRefusing \/ ResumeJournal
PrepareStep == \/ RefuseMove \/ StagePointer \/ RetireStore \/ AbortUnjournaled
               \/ WriteJournal \/ Plan \/ PlanRefused
RekeyStep == \/ \E w \in Worktrees : PickRekey(w) \/ PickNothing(w)
             \/ CarryCapture \/ LeaveCapture \/ DropCapture \/ RekeyRows
             \/ MarkEntry \/ RekeyFault
LandStep == \/ Releasing \/ RenameFolder \/ RenameFault \/ CrossVolumes
            \/ StartCopy \/ LandCopy \/ CopyFault
            \/ CommitPointer \/ ClearLegacy \/ RelinkAndEnd \/ StopLanded
EndStep == \/ UndoneRekeys \/ Unmake \/ UnmakeHusk \/ UnmakeFault \/ Repair
           \/ KeepJournal \/ LetGo \/ ReviveStore

HolderStep == ResumeStep \/ PrepareStep \/ RekeyStep \/ LandStep \/ EndStep

StartStep(p) == Locate(p) \/ BeginSettle(p) \/ SkipSettle(p)

\* With AtomicStart, Open follows Locate at once.
Unopened == {p \in Procs : status[p] = "located"}

Next ==
    \/ \E p \in Procs : Open(p)
    \/ /\ AtomicStart => Unopened = {}
       /\ \/ HolderStep
          \/ \E p \in Procs : StartStep(p) \/ Write(p) \/ Quit(p) \/ Crash(p)
          \/ \E p \in Procs, w \in Worktrees : Capture(p, w)
          \/ \E p \in Places : BeginMove(p)
          \/ \E p \in Places, dropped \in BOOLEAN : Rescue(p, dropped)

Spec == Init /\ [][Next]_vars

(* Fairness: the lock's holder runs on, a start runs to its end, terminal    *)
(* commands end and others start.  Nothing is fair about failures: they are  *)
(* counted.                                                                  *)
Fairness ==
    /\ WF_vars(HolderStep)
    /\ \A p \in Places : WF_vars(Rescue(p, TRUE))
    /\ \A p \in Procs : /\ WF_vars(Open(p)) /\ WF_vars(StartStep(p))
                        /\ WF_vars(Quit(p))

FairSpec == Spec /\ Fairness

--------------------------------------------------------------------------------
(* Properties. *)

FilesTypeOK ==
    /\ pointer \in Places \cup {None} /\ legacy \in Places \cup {None}
    /\ staged \subseteq Places \X Nat
DataTypeOK ==
    /\ dir \in [Places -> Folder \cup {None}]
    /\ partials \subseteq Nat
GitTypeOK ==
    /\ link \in [Worktrees -> Places]
    /\ capture \in [Worktrees -> [Places -> Nat]]
ProcsTypeOK ==
    /\ status \in [Procs -> {"off", "located", "opened", "up", "leaving"}]
    /\ at \in [Procs -> Places] /\ fd \in [Procs -> Places \cup {None}]
LockTypeOK ==
    /\ holder \in Procs \cup {None} /\ goal \in Places \cup {None}
    /\ step \in Step /\ mem \in Journal \cup {None}
    /\ back \in BOOLEAN /\ cur \in Worktrees \cup {None}
    /\ todo \subseteq Worktrees /\ good \in BOOLEAN
CountsTypeOK ==
    /\ accepted \in Nat /\ latest \in [Worktrees -> Nat]
    /\ moves \in Nat /\ crashes \in Nat /\ faults \in Nat /\ touches \in Nat

TypeOK == /\ FilesTypeOK /\ DataTypeOK /\ GitTypeOK
          /\ ProcsTypeOK /\ LockTypeOK /\ CountsTypeOK

\* What the steps rely on, whatever crashed or failed before them: the lock's
\* holder runs, with a journal in memory once it wrote or read one, a folder
\* under it to write that journal in, and a worktree to re-key; and no open
\* store is at a place with no folder.
MovingSteps == {"check", "retire", "journal"}
RekeySteps == {"carry", "drop", "rows", "mark"}
LandedSteps == {"pointer", "legacy", "links"}
JournalSteps == Step \ ({"idle", "resume"} \cup MovingSteps)

HolderShape ==
    /\ (holder = None) = (step = "idle")
    /\ holder # None => status[holder] \in {"opened", "up", "leaving"}
    /\ step \in MovingSteps => goal # None
    /\ step \in JournalSteps => mem # None
    /\ step \in RekeySteps => cur # None
    /\ step = "unmakeHusk" => Copy # Here
FolderShape ==
    /\ step \in JournalSteps \ LandedSteps => dir[Here] # None
    /\ \A p \in Procs : fd[p] # None => dir[fd[p]] # None

StepShape == HolderShape /\ FolderShape

\* At every instant, whatever crashed or failed, a start finds the user's own
\* data dir, with every write a store ever took (Paths.ts, locate).
FoundWhole ==
    /\ dir[Found] # None
    /\ dir[Found].kind = "data"
    /\ dir[Found].count = accepted

\* A data dir whose store writes.
Writes(p) == dir[p] # None /\ ~dir[p].refusing

\* A journal of nothing, given up on as it was written: an undo of it changes nothing.
Lists(p, j) == j.from # p \/ j.partial # NoPartial \/ j.moved # Unlisted
GivenUp(p) == ~Lists(p, JournalAt(p)) /\ (step \in JournalSteps => back)

\* While the journal of a move is there, under way or cut short, the store refuses
\* every write but the move's (dataDirMove.ts, header), so none is made that an undo
\* would lose.
JournalRefuses ==
    \A p \in Places : JournalAt(p) # None => dir[p].refusing \/ GivenUp(p)

\* Once the store writes again every worktree's rows are under the id its
\* path hashes to and git's link leads to it, whether the move was done or
\* undone.
OpenIsConsistent ==
    Writes(Found) =>
        \A w \in Worktrees : dir[Found].rows[w] = Found /\ link[w] = Found

\* Once the store writes again, a dirty capture is under its worktree's id.
OpenHasCaptures ==
    Writes(Found) /\ touches = 0 =>
        \A w \in Worktrees : capture[w][Found] = latest[w]

\* A store that writes is the only folder: no partial, no copy and no old
\* tree is left, any of which would refuse the next move.
OpenIsAlone ==
    Writes(Found) => partials = {} /\ \A p \in Places \ {Found} : dir[p] = None

\* Once the store writes again, whatever failed or crashed on the way: its rows and
\* git's links agree on where every worktree is, captures are where they are looked
\* for, and no other folder is left (finishMove, undoMove).
OpenStands == OpenIsConsistent /\ OpenHasCaptures /\ OpenIsAlone

\* No step of a move, an undo or a finish, nor a crash between two of them,
\* loses a worktree's last capture: it is under one of its ids, even when a
\* change that could not hold the lock captures meanwhile.
LastCaptureKept ==
    \A w \in Worktrees : latest[w] # NoCapture =>
        \E p \in Places : capture[w][p] = latest[w]

\* A store a move left refusing writes again, once failures and crashes end
\* and commands keep being run.
Settles == dir[Found].refusing ~> ~dir[Found].refusing

\* What the move promises the rest of sm: one data dir at one place, which
\* changes place as one step and only while its store refuses.
Promise == INSTANCE DataFolder WITH
    place <- Found,
    writes <- dir[Found].count,
    open <- ~dir[Found].refusing,
    keptAt <- dir[Found].rows

KeepsPromise == Promise!Spec

================================================================================
