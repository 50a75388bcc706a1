# Verification of shigoto-no-mori

shigoto-no-mori (`sm`) manages git worktrees on the devices of one account: an
Electron app, a terminal command that runs the same engine in its own process,
a web client, a hub the devices find each other through, and a mirror that
keeps a worktree in step on two devices. This folder holds TLA+ models of the
parts of it whose correctness depends on the order of steps of several
processes, on crashes between two steps, or on failures half way; the TLC runs
that check them on small instances; and proofs, checked by TLAPS, of what holds
for every size. Source paths below are relative to `src/`.

## 1. The system

| Part | State it keeps | Operations | What is hard about it |
| --- | --- | --- | --- |
| Data folder move (`packages/engine/src/dataDirMove.ts`, `dataDirMoveJournal.ts`, `Paths.ts`, `worktrees/kept.ts`) | the pointer files, the folder, its store's triggers, the journal, git's refs and links | move, undo, finish, rescue, resume | some forty steps on four kinds of storage, each of which may fail or be the last before a crash; processes that start at any time; open files that follow a rename |
| Data folder lock (`packages/engine/src/DataDirLock.ts`) | a database file's locks, and in each process counters and a permit | `guard` and `held` (shared), `alone` | one hold of a process shared by changes that come and go, nest and queue; a waiting writer; processes that die |
| Worktree transfer (`app/host/lib/sync`, `app/host/lib/worktrees`, `packages/engine/src/Dirty.ts`, `Bundle.ts`) | receipts, moves under way, a queue; git refs and captures on two devices | send, pull, tear down the source, queue, cancel | two devices, calls that are cancelled or lost, a source deleted after its copy is whole |
| Landing a branch on GitHub (`packages/engine/src/Landing.ts`, `landing/`) | none of its own | merge, land, done, remove a stack | the order of a stack's merges and removals |
| Worktree lifecycle (`packages/engine/src/worktrees/`) | the `moving` records, rows, capture refs, git's own entries | create, move, remove, relocate, resume | a record, git's move and a carry, with crashes between, in any of several processes |
| Mirror (`app/host/mirror`) | sessions, ends owed, waits, pauses | pair, follow, delete, sweep, re-open | two devices that delete, pause and lose each other; a file-sync engine that outlives the app |
| Hub (`hub/src`) | devices, tombstones, tickets, sockets of one account | enrol, mint, connect, revoke | revocation and eviction against a connect under way |
| Account (`app/shared/account`) | the device's credential, and a parked one | enrol, sign out, deliver a parked revoke | answers that are lost; an enrollment or a removal of another's meanwhile |
| Device links (`app/shared/remote`, `app/shared/hub`, `app/host/socket`, `app/host/direct`) | sockets, calls in flight, tickets | dial, block, back off, probe | drops and reconnects; dials that answer too late |
| Updater (`app/shared/updater`, `packages/engine/src/updater/`) | a state machine, a staged build, an installer | check, stage, install, hold off | calls of several people and devices, checks, a move's hold, another process's run |
| Scripts, terminals, port forwards (`app/host/lib/scripts`, `terminals`, `portForward`) | child processes | run, stop | processes outlive what started them |
| Renderer, web, contracts, CLI front, marketing; `file-sync/`, `nativefs/` | views; separate Go and native programs | - | not modelled |

How they interact. Every process finds the data folder through `Paths`, opens
its store there (`Store.layer`), and on the way up settles what a move left
(`DataDirMove.settleLayer`). Every change of a worktree on disk runs under
`DataDirLock.guard`; a move of the folder, and a settle, run under
`DataDirLock.alone`. A write that touches the store alone holds no lock: the
store's own triggers refuse it while a move's journal is there. A transfer is
the landing of a copy on one device, a receipt of what was copied, and, once
the receipt says the copy is whole, the removal of the source by the engine;
one asked for while the other device is away waits in a queue, which an
update of that host, asked for by another device, is refused for. A worktree's
move within a device goes through the engine's records, and a mirror of it is
re-opened by the host once it is done; a delete is asked about its mirrors
before and after. Devices find each other through the hub, by a socket that the
account's credential opens and a supervisor keeps. The updater lets go of the
data folder while the folder moves.

The hazards, each at its line, are in `PROJECT.json`.

## 2. The modules

| Module | What it models |
| --- | --- |
| `DataDirMove` | the move of the data folder, its undo and finish, and every start meanwhile |
| `DataFolder` | what that promises: one folder at one place, which changes place only while closed |
| `DataDirMoveProofs` | types and step shape of `DataDirMove`, the last capture, what a start finds, refusing while journaled, what stands once the store writes, the refinement of `DataFolder`, proved |
| `MCDataDirMove` | `DataDirMove` for TLC |
| `DataDirLock` | the lock: a process's shared hold and queue, a move's reserve and commit |
| `DataDirHold` | what that promises: readers and one writer of the folder |
| `DataDirLockProofs` | exclusion, the standing check, who is refused and the refinement, proved |
| `MCDataDirLock` | `DataDirLock` for TLC |
| `Transfer` | a worktree moved to another device, and the teardown of its source |
| `Relocation` | what that promises: the work is at its source, at both or at its copy |
| `TransferProofs` | what a move that did not finish leaves behind, that nothing is lost, receipts and the refinement, proved |
| `MCTransfer` | `Transfer` for TLC |
| `WorktreeMove` | a worktree moved to another folder, its record, carry and resume |
| `WorktreeMoveProofs` | one worker of a record at a time, proved |
| `WorktreeFoundProofs` | no checkout is lost by a move and no only copy deleted, and what is kept of a worktree follows it, proved |
| `MCWorktreeMove` | `WorktreeMove` for TLC: whose each fiber is, where each worktree starts |
| `MoveQueue` | the moves that wait for another device |
| `Updater` | the app's updater over the engine's staging, composed with `MoveQueue` |
| `UpdaterProofs` | the queue, one install at a time and a kept hold, proved |
| `MCUpdater` | `Updater` for TLC |
| `Mirror` | a mirror under way: deletes of either side, ends owed, moves, sweeps |
| `MirrorProofs` | what goes with the other side, what crosses, what stays paused and what runs, proved |
| `MCMirror` | `Mirror` for TLC |
| `Hub` | the account's object at the hub, and each device's account and link |
| `HubProofs` | who holds a socket, is stranded, leaves or is blocked, proved |
| `MCHub` | `Hub` for TLC |

### DataDirMove

The state is what survives a crash (the two pointer files and the staged ones,
the folder at each place with its store, rows and journal, git's links and
capture refs), what dies with its process (the place it found, its open store),
and the local state of the one process that holds the lock alone (`holder`,
`step` and the journal in its memory). A place stands for a path, and the id of
a worktree in the data folder, which is a hash of its path, is named by the
place.

`step` is the program counter of `moveDataDir`, `undoMove`, `finishMove` and
`resumeDataDirMove`. Each write to disk or to git is a step of its own, because
a crash may come between any two; the failure of a step is an action beside
it (`...Fault`), and does what the code's handlers do: `settled` for an undo or
a finish, `onError` for the move. A step is never split further than the calls
that change something: a transaction of the store is one step, its commit. The
whole re-key of a worktree runs in one (`asMoveOwner`): its refs are carried
first (`CarryCapture`, `DropCapture`), its rows commit last (`RekeyRows`), and a
failure or a crash before that leaves the refs where they came to and the rows as
they were. A write of the journal is in place once renamed, and may yet be cut
short as its folder is flushed: so an abort with no journal in memory may leave
one behind that lists nothing (`BareLeft`) under a store let write again.

Open stores follow a rename (`fd`), as an open file does. `Locate` and `Open`
are a start's look and its open of the store; `AtomicStart` says whether
anything may come between (see the findings). `Write` is a write to the store
by a process with no lock; `Capture` is one guarded change, a dirty capture.
Ghosts: `accepted` counts the writes any store took, `latest` is each
worktree's last capture.

### DataDirLock

Per process: `moving`, `holders`, `taking`, `takes`, `refused` are the code's
own variables; `taking` also holds the permit of `joining` for the one change
whose take is being asked for, and every other section under the permit is one
action. A change is `out`, `queued` at the permit, `taking` the lock, `checking`
that the folder is where the process found it, or `in`. A move is `out`,
`asking`, `reading` (its attempt's read lock), `committing` (the write reserved)
or `alone`. SQLite's lock is `shared`, `writer` and `level`, by connection:
a process's one shared connection is named by the process. What a move does is
two steps here, the rename and the pointer; the module above has them all.

`late` is a ghost: the change came after the last refused take ended.

### Transfer

One worktree on its source device and one destination. A pull is a call the
destination runs (`pullWorktree`), a send one the source runs
(`sendWorktree`), whose landing the destination runs under a link
(`landForSender`); either device of the two may be asked, so an attempt has a
direction, a call and a landing.

* The source: `source` is its branch's tip, whether HEAD is on the branch and
  the state of its files; `parked` is its capture ref. People go on working in
  it (`Edit`, `Commit`, `Switch`) between any two steps.
* The destination: `objects` (what git has), `incoming` (the ref
  `refs/shigomori/incoming/<branch>`) and `copy`, which stands for the worktree
  and its branch, made and removed together.
* `call[a]` and `land[a]` are how far the two fibers of an attempt are:
  `landWorktree`'s steps are the `Land...` actions, one for each question to the
  other device, each git command and each write; `Sweep` is its finalizer,
  `Undo` that of `createHeld`. `cut` says a send's link is gone,
  which its landing is raced against.
* After the landing: `Remember` keeps the receipt (the ignored files, which
  nothing depends on, cross in the same stage), `OpenSession` is what a mirror
  start does next, `LateAnswer` is `offer`'s `onLate`, `SendTakesBack` and
  `RollBackSent` the finalizer of a cancelled send or a failed mirror start.
* `tear[d]` is a teardown: `teardownSource`'s check (`TearTip`, `TearCapture`),
  the removal's on the source's own device (`TearLook`), the cleanup scripts,
  `refuseChangedSince` again (`TearRecheck`, `TearRecapture`), the delete.
* Any step may fail (`LandFails`, `TearStops`), a removal of the copy may be
  refused (`CopyGoes`), and a device may stop (`SourceStops`,
  `DestinationStops`) or go out of reach (`Drop`).

Ghosts: `source.late` says something was written after a removal's last look
(the window the code narrows and cannot close), `strayed` that a copy may be
left because a device stopped or a removal was refused, which is logged.

Two switches name what a run assumes. `Overlap` says whether a pull and a send
of one worktree may be under way together: each device refuses a second move of
its own (`Moves.run`) and neither knows of the other's. `Mirrors` says whether a
mirror start is asked for. The findings show what each breaks.

### WorktreeMove

The disk is `disk` (what is in each folder) and `entry` (where git lists each
worktree, which is what a checkout's link names). What is kept under a
worktree's id, a hash of its path, is `rows`, one fact of it in the store,
`ref`, its capture, and `wtMoves`, the moves recorded as made: by the place each
left, which is the table's key, where it went and a number that grows, for the
rowid the code applies them in order of. `moving` holds the
records, each with its owner (a process by its start), whether the rows were
carried and whether a copy across volumes is being filled. Places stand for
paths and ids.

A fiber (`task`) is a command of a process or its resume; its step is the
program counter of `move`, `resumeOne` and `carry`. `CreateLooks` and what
follows are `creating.ts` making a worktree at a path a record may name.
`Resume` reads every record first (`resumeMoves`), and takes each over in its
turn (`takeOver`), unless its owner is alive. Three switches name what may
happen: `LateTurn`, that a record changes between that read and its turn;
`SlowTurn`, that of two fibers of one process both find a record of that
process's own with nobody on it before either marks it; and `Squatters`, that a
folder appears where git lists a checkout that is gone.

### MoveQueue and Updater

`held` has the entry of each source, `runs` the fiber of its run, `lock` the
one permit with what its holder does, `admitted` and `comings` the devices
that take calls and the announcements not yet answered (`PeerReach`). What a run
does is `Transfer`'s; here it goes on, and ends. `stopped` are the sources whose
run was interrupted, which settles nothing. A queueing or a drop waits for that
run under the permit, and its caller may be gone meanwhile (`CutShort`): the entry
then stays as it is, reads "running" with no run behind it, and still counts as
pending, so that an unattended install stays refused until that source is dropped
or queued again.

`Updater` extends it: `call[c]` is how far a call to install or update is
(`look`, `host` for the busy question, `ask` for the person's, `again` for the
second look, `handing`), `check` the check under way through the engine's
staging lock (`stager`), its swap of the staged build and its clear, `install`
what the machine says an install is (armed, installing, held off), `hold` how
far a move's hold is. An app quits, is down while the installer works, and opens
again; a terminal runs the same engine against the same lock, and with the app
down swaps its build itself (its look at the app and the swap are one step). An
installer that fails before the swap, or whose relaunch fails, leaves the app
down; the note the next start shows of it is best effort (`failed`). A restart
loses the machine and the queue.

### Mirror

`sess` are the file-sync engine's sessions, which it keeps on disk; the marks
(`pendingStops`, `endingSessions`, `rootLooks`, `waitingOnPeer`, `goneCopies`)
are the maps of `ledger/marks.ts`, in the app's memory. `del`, `copyDel` and
`taking` are deletes of the original, of the copy, and of the original because
its copy was deleted, each at its step of `mirrorsOnDelete` and the removal;
`jobs` what is ahead of each session of a deleted original (end it, then ask
for its copy); `news` and `heard` the announcements of the copy's end.
`reopen`, `move` and `stop` are a session's re-open, the original's move and a
person's stop. A re-open's create may go unheard: its answer never came
(`abandoned`), or its caller is gone (`cut`, and then nobody waits for it); the
session may turn up late all the same, to be ended as it does (`unwanted`,
`endAbandoned`), or, if cut, to run on beside the older one until the sweep ends
that. `spent.quiet` says the engine last refused something and has had nothing to
tell since. A cycle of the sync brings the files of both sides to their
union; the git follower moves a branch that is behind.

### Hub

The registry's `rows` and tombstones, the object's `tickets` and `sockets`, and
`admission`, who holds an account's permit, are the hub's; `enrolls`, `revokes`,
`opens` and `closes` are what is on its way; `stored`, `parked` and `change` are
a device's record, the credential it still owes a revoke of, and the account
change under way; `link` is its supervisor's phase and dial. A credential is
the number of its enrollment. `EnrollReads`, `EnrollEvicts`, `EnrollWrites` and
`RevokeAuths`, `RevokeRemoves` are the awaits of `admit` and `revoke`;
`ConnectTakes` and `ConnectAdmits` those of a connect under its ticket. Each account
has an object of its own, which closes and supersedes only its own sockets
(`SocketsIn`); a device that changed accounts may so have one at each for a while.
The answer of a revoke that timed out, or that the device died waiting for, is not
`heard`, and what was parked stays so.

## 3. What is checked

| Run | Instance | Distinct states | Shows |
| --- | --- | --- | --- |
| `move_crashes` | 2 places, 2 processes, 1 worktree, 2 moves, 2 crashes, 1 failure, 1 write, 1 capture; fair | 580,334 | `JournalRefuses`: no write is taken while the journal of a move is there; `OpenStands`: once the store writes, rows and links agree, captures are where they are looked for and no other copy is left; `Settles`: a store left refusing writes again; `KeepsPromise`: `DataFolder` is implemented |
| `move_kept` | a pre-2.0 pointer, 2 places, 2 worktrees up to symmetry, 1 move, 2 crashes, 1 failure, 2 captures, one by a change that could hold no lock | 3,555,029 | `FoundWhole`: a start finds the whole folder at every instant; `LastCaptureKept` |
| `lock_held` | 2 processes, 3 changes (1 nested), a move and a recovery, a crash, a failure | 247,516 | `Exclusion`, `CheckStaysTrue`, `KeepsPromise` (`DataDirHold`) |
| `lock_waits` | 1 process's queue of 3 changes, 2 movers, a crash; fair | 51,548 | `RefusesRightly`: a refused take refuses those that wait for it and no nested change; `EveryoneGetsIn` |
| `transfer_moves` | 2 moves either way one after the other, 1 commit, 2 edits, 1 cancel, 1 stop | 799,772 | `NothingLost`: the source goes only when its copy has all of it; `ReceiptStands`: a receipt is of a copy that has what it says; `Relocates`: `Relocation` is implemented |
| `transfer_overlap` | 2 moves at once, mirror starts, 2 cancels, 1 stop; fair | 109,872 | `LeavesNothing`: a move that did not finish leaves no copy and no ref; `FinishedCopyStays`; `CutShortEnds`: a cancelled move ends, and its landing with it |
| `relocate` | 2 worktrees and 1 made meanwhile, 3 places (1 on another volume) and the folder git nests, 2 processes with a fiber each, 2 moves, 1 crash, 1 failure, 1 note | 2,283,518 | `WorkFound`: a checkout is whole somewhere a record or git names; `AllFollows`: rows, captures and old ids lead to it; `OneWorker`: a record has one worker; `DeletesCopies`: no folder is deleted whose worktree is not whole elsewhere |
| `update` | 2 calls, one attended, 1 hold, 1 release, 1 fault or terminal run, the installer's included; 1 queued source, 2 entries, 1 coming; fair | 632,037 | `OneInstall`; `HoldStands`: a hold keeps off checks, hand-offs and installers; `RunsAreListed`: the queue's last word; `WaitingStarts`: what waits on a device that is there is run; `UpdateEnds`: the app comes back, or its installer failed, and no update stays armed |
| `mirror` | 3 sessions, 1 write or commit, 2 asks, 1 trouble; fair | 912,989 | `TakesNothing`: a side that goes with the other held nothing of its own; `NothingCrosses` while the files of a delete go; `OneRunning`: two sessions of a pair sync only after a trouble, and then a re-open nobody heard the end of made one behind the other; `LeftRunning`: what a delete, a taking or a failed re-open paused goes on when it gives up; `DeleteEnds`: each session of an original that is gone ends, and a copy found in step goes |
| `devices` | 2 devices, 2 accounts, a cap of 1 or 2, 3 dials at once, 2 asks, 1 trouble; fair | 123,651 | `AdmittedHolds`: no socket outlives its credential; `NeverBlocksItself`; `NoneStranded`: every row's credential is somebody's; `LeavesWhenAsked`; `LinksSettle`: each device comes to be connected or signed out |

Every run above but the first six checks its module's `TypeOK`, which is
proved too, as are those of the first three modules (section 4).

Bounds. Two moves are the fewest that make a move meet what an earlier one
left; two crashes the fewest that crash the recovery of a crash; a failure adds
the paths where a step of that recovery fails too. Two places make "there and
back"; `move_kept` starts from a third file that leads to the folder, the
pre-2.0 pointer. Two processes give the one that moves and one that starts,
writes or captures at any time. Worktrees are re-keyed one at a time with no
state shared but the journal, so two are only needed where one is done and the
next is not. In the lock, a change, one nested in it and a third cover join,
nest and queue; two movers cover two attempts at the write.
In the transfer, two attempts are what it takes for one to meet what another
left or is doing; one commit and two edits give a source that changed, changed
back and changed again between two looks; one cancel at any step of either
attempt, or one of each, and one stop. The overlap run leaves the source alone,
since what a move leaves behind does not depend on it.
In a worktree's move, two worktrees and three places give a move to where
another was, a swap of ids and a copy across volumes; two fibers a mover and the
process that resumes it, and the worktree made meanwhile one that takes an id
that was left. In the updater, two calls are what one install can meet; a
release is what a check may find before, during and after; what a second hold or
a second installer adds is covered by the proofs. In the mirror, a session, the
one that replaces it and the next (a fourth adds no state), two asks (a delete
against a move, a rule, a stop or the other delete), and one trouble at any
step. At the hub, two devices meet each other, a cap of one makes each
enrollment evict, three dials are the one in use, one given up on and one under
way. Larger instances passed too: `devices`' safety with 3 asks (1.04 M) and 2
troubles (845,372), or both with a cap of two (6.34 M), its liveness with 3 asks
or 2 troubles; the mirror's safety with 2 troubles (3.78 M) and 3 sessions;
`move_kept` with 3 places and 1 crash (5.67 M); `relocate` with 3 fibers, two of
them of one process, and 1 move (847,567); the updater's safety
with 2 troubles (1.29 M).

Fairness. `DataDirMove`: the lock's holder runs on (an Effect fiber is not
suspended for ever), a start runs to its end, terminal commands end and the
rescue, which every start makes, is made. `DataDirLock`: a change that is let
in ends; an attempt is repeated every 50 ms; a move's body ends. Nothing is
assumed of failures and of giving up: failures are bounded, and a wait that only
its time limit ends counts as one that does not end. Strong fairness of `Exit`
stands for a change that ends although others nest in it again and again.
`Transfer`: only what a device does by itself once a move was cut short
(`Unwind`: finalizers, and the interrupt that reaches a step) goes on. Nothing
says the other device answers a question, a setup script ends or a person acts.
`Updater`: a check's step goes on or its time limit ends it; an app that said
it quits does; the installer waits for the exit and no longer, and swaps or
fails; the queue's fibers run. No call is assumed to go on, since it may wait on a person.
`Mirror`: what was begun goes on, the engine is started again (its supervisor
retries for ever) and the peer comes back, by one weak fairness of all of it,
which says only that something of it happens while anything can. A sweep of what
stays counts only where something brings it: a session that runs, whose snapshots
do, or the engine's start or the peer's return; a refusal, and a folder that
vanishes under paused sessions, bring none. The delete of a copy on the other device, people and the sync are under none. `Hub`: the
object answers, its closes arrive and each supervisor, which re-dials for ever,
goes on.

Deadlock is checked in every run but `mirror` and `devices`, where everybody
may be done: a mirror that was ended and bounds that are spent, or two devices
that are signed out.

Two runs expect a violation; each is a finding in `PROJECT.json`:

* `transfer_twice`. A pull and a send of one worktree at once share the incoming
  ref. One that read an older tip, which the destination has, sets the ref to it
  between the other's fetch and its create: the copy is made on the older
  commit, the receipt says the newer one, and the teardown deletes the only
  branch that has it, where "it runs only when the receipt proves nothing can
  be lost".
* `relocate_chain`. A recorded move claims both its folders: an earlier one into
  either is pointed past one later move, and what was recorded of both goes. One
  worktree is moved from a to b, to c and to d, another is made at b by git and
  moved to c. Then a's record is pointed at c, where the chain went on, and what
  led on from c is deleted: the id of a, which mirrors and old links still use,
  leads to the other worktree, where `kept.ts:42` has that "its chain still ends
  where that folder is". One process, four moves, no crash and no failure.

The other runs leave out, by a switch each, an interleaving under which a
property does not hold. The switches are constants, so each can be seen by
changing a cfg:

| Switch | What it lets happen | What TLC then finds violated |
| --- | --- | --- |
| `DataDirMove` `AtomicStart = FALSE` | a start that looked before the rename (`Paths.ts:223`) opens its store after it (`Store.ts:270`) | `FoundWhole`: a fresh store where the folder was, against `Paths.ts:219` |
| `DataDirMove` `HasLegacy = TRUE` with two moves | a crash between the commit of the pointer and the removal of the pre-2.0 one (`dataDirMove.ts:755`), then a move back to the default | `FoundWhole`: both redirect a start, against `:738` |
| `Transfer` `Overlap = TRUE` with commits | `transfer_twice` above | `NothingLost` |
| `Transfer` `Mirrors = TRUE` | a mirror start whose session does not open takes its copy back (`sessions.ts:184`) | `ReceiptStands`: the receipt of its send stays, against `Moves.ts:120` |
| `WorktreeMove` `LateTurn = TRUE` | a start's resume reads all records first (`moving.ts:593`) and takes each over later by its owner alone (`:153`): where the mover carried the rows in between and then died, the stale record has them re-keyed once more, and a worktree made at the old path since loses its own | `RowsFollow`, `WorkFound`, against `migrations/moving.ts:9` (a re-key "which a resume never repeats") |
| `WorktreeMove` `SlowTurn = TRUE`, both fibers in one process | a start's resume and a person's move both pass `live` (`moving.ts:509`) on a record a failed resume left its own process, and `takeOver` lets in both, since it compares the owner and neither is in `underWay` yet (`:511`) | `OneWorker`, `AllFollows`, `DeletesCopies`, against `:499` ("taken over by this one alone") |
| `WorktreeMove` `Squatters = TRUE` | a folder appears where git lists a checkout that is gone | `WorkFound` |
| `Mirror` `"reopen" \in Overlaps` | a delete or a move begins inside a session's re-open | `NothingCrosses`: the new session is not among those it paused (`onDelete.ts:4`) |
| `Mirror` `"down" \in Overlaps` | a delete or a re-open goes on while the engine is down (`moves.ts:66`) | `NothingCrosses`; with 2 troubles `DeleteEnds` |
| `Mirror` `"replaced" \in Overlaps`, 4 sessions | a move or a rule re-opens a session beside the one that replaces it (`moves.ts:108`, where `sweep.ts:217` passes over it) | `OneRunning` |
| `Hub` `Overtaken = TRUE` | a device's close or revoke is handled after what it asked later | `NeverBlocksItself` (`hubObject.ts:273`), `LeavesWhenAsked` |
| `Updater` `Holders` with a reset's hold beside a move's | two holds at once (`host/ipc/modules/runtime.ts:148`) | `HoldStands`: the first to end lets go for both |

What the properties of a folder's move and of a mirror except is what the code
does:

* A move given up on between the rename of its first journal
  (`dataDirMoveJournal.ts:54`) and the end of its write (`dataDirMove.ts:640`)
  lets the store write again (`:785`) with that journal there, where the header
  has "While the journal is there the store refuses every write but the move's own"
  (`:22`). It lists nothing, so the next start's undo of it loses nothing:
  `JournalRefuses` excepts it (`GivenUp`), and `OpenStands` holds under it too.
* A re-open whose caller is gone (`MirrorEngineLayer.ts:265`) or whose create was
  never answered may leave two sessions that sync (`MirrorDaemon.ts:139`) until
  the sweep ends the older, or `endAbandoned` the younger. `OneRunning` therefore
  says which of two may sync. A move whose create is never answered ends the old
  session (`moves.ts:62`) and the new one as it shows up, so that no mirror is
  left, where the comment on `recreate` (`:249`) has a failed create leave "the
  mirror as it was".
* A look that finds its original moved while the engine is down re-opens nothing
  (`moves.ts:109`) and keeps its mark (`sweep.ts:124`): that session is not looked
  at again until the app is started anew, though the engine's next snapshot was to
  find "the session's root gone and the move recorded" (`moves.ts:12`).
  `DeleteEnds` excepts it (`Overlooked`).
* A session the engine refused to end, paused, brings no snapshot, so nothing ends
  it before the engine or the peer comes back; `DeleteEnds` excepts it too.
* `LeftRunning` is of a run without trouble. A terminal that dies inside a delete
  leaves what it paused so (`onDelete.ts:111`).

Two more lie outside that run's bounds. With 5 sessions, 3 asks and 1
trouble, the engine refuses to end a session that was replaced, the one that
replaced it is replaced in turn by a second rule, and ends: no live session names
the first any more (`sweep.ts:217`), it stays paused, and the next move re-opens it
beside the one that runs (`OneRunning`). And with 4 sessions and 2 troubles two
looks of one session may overlap, if the first is not done when the original has
moved again and the peer has been away for two minutes. The second then ends the
session while the first re-opens it, and its predecessor, re-opened too, makes a
second one that runs (`OneRunning`).

More lie outside the bounds of the runs of the moves. `relocate` has one
failure; with two, TLC finds `DeletesCopies` and then `WorkFound` violated: a
copy to another volume is in place and git has the new path, a step of the
repair fails, the undo's own repair back fails as well, which is ignored
(`moving.ts:262`), and the copy, which is where git looks for the worktree, is
deleted whole, against `:218` and `:256`. It has two moves; with four and one
failure, TLC finds `WorkFound` violated: a command is asked to move a worktree
from one folder to another and waits, an app's move takes it there and on to
another volume, whose delete of the original fails midway and is ignored
(`:410`), and a third brings it back. The command's own move then meets the
folder that stayed: git moves the checkout into it, and the resume of that move,
which finds the link at the destination and nothing at the source
(`:523-530`), points git at what is left there. And `relocate` has a fiber in
each process; with two in one, TLC finds `AllFollows` violated: one looks at a
record its process put down, the other ends that and makes a new one of the same
folder, whose carry fails, and the first takes that over by its owner (`:153`)
with the record it had read. And with three moves a terminal
command can keep open, over two moves to other volumes, a store whose file is
gone, take the lock and undo what is there; the model does not say what such a
store holds, so `OpenStands` and `KeepsPromise` of `DataDirMove` are checked and
proved of at most two moves. The other theorems hold whatever it holds.

Every property has a mutant: a slip a change of the code could make, kept beside
the definition it stands for and marked `Slip:`, under which the property fails.

## 4. What is proved

Every theorem is about `Spec`, for any values of the constants that the modules'
named assumptions allow.

`DataDirMoveProofs`, for any places, processes, worktrees and bounds:

* `TypeCorrect`: `Spec => [](TypeOK /\ StepShape)`. The invariant is inductive as
  it stands: `StepShape` is what the types need (a journal in memory when a step
  reads it, a folder when a step writes in it). It has one lemma per action,
  grouped as `Next` is.
* `KeepsTheLastCapture` (`LastCaptureKept`). No ref is ahead of its worktree's
  last capture, and the old ref is deleted when the new one has what the journal
  says it had (`CaptureInv`). That the two are not one needs that no journal and
  no goal leads a folder to where it is (`RouteInv`).
* `FindsTheDataDir` (`FoundWhole`) and `RefusesWhileJournaled` (`JournalRefuses`)
  assume `~Overrun`, that is `AtomicStart`, and one move at most where there is a
  pre-2.0 pointer: the two first rows of section 3's table. Their `FoundInv` is
  about the shape of the disk. `FolderInv`: the data dir is where a start looks,
  whole and alone but for the other copy of a move to another volume; or it was
  renamed away, whole, to where a staged pointer will lead, with the app's own
  move or a rescue to commit that. `JournalInv`: the store of a journal that lists
  anything refuses (`ListedRefuse`), and the one a start finds names the place it
  is at. `PointersInv` and `ProcsInv` say where pointers may lead and what a start
  and the app know; and `HolderInv`, in
  six parts, by the stages of a move, an undo and a finish, holds what the step
  under way knows against the disk: its goal, its staged pointer, that its
  journal is the one on disk, which way it ends, and that the store refuses while
  the move goes forward (`ClosedInv`), whatever its journal lists.
* `StandsWhenOpen` (`OpenStands`) and `KeepsThePromise` (`KeepsPromise`, the
  refinement of `DataFolder`) assume `~Overtaken`: `~Overrun` and two moves at
  most. What was checked only once the store writes has to be carried through the
  whole move, so `StandInv` says it of the folder a start finds at every stage. By
  that folder's journal: with none, everything is in place (`QuietAt`); with one of
  a move from it, each worktree's rows are under one of its two ids and its last
  capture is under the old one, or under the new one and the one the journal names
  (`LeftAt`); with one of a move that landed, everything is under the new ids and
  no partial copy is left (`ReachedAt`). And by the holder's step: what a forward
  re-key has done and its mark says (`ForwardAt`), what is under way past the
  landing (`LandedAt`), what an undo has put back and has still to (`UndoneAt`),
  and the links of a finish (`FinishedAt`). An undo is made through the holder's
  open store, which has to be the store of the folder found: `StoreInv` counts that
  a process the folder moved away from is behind by that many moves, and one whose
  store is another than the data dir it is at by two, so that no third is under way
  to be undone there. It is where the bound on the moves is needed. TLC finds both
  invariants kept under the bounds of both runs of the module. The refinement is
  read off the same lemmas: the place changes as a folder is renamed, or as the
  pointer to a copy is committed, and then `StandInv` and `FoundInv` make the two
  folders equal in all the promise sees; it opens where `QuietAt` holds.

`DataDirLockProofs`: the inductive invariant `IInv` is `TypeOK` with five parts:
`SqliteInv` (what a level of the lock means for who has it), `MoverInv` (what
each step of a move holds), `HoldInv` (a process with changes let in has the
shared lock, unless the file is unusable), `CountInv` (`holders` is the number
of changes let in, as a cardinality, and `taking` is who has the permit) and
`PlaceInv` (a change let in, or past its check, works in the folder where it
is). From it follow `MutualExclusion`, `RunsWhereTheFolderIs` and
`ImplementsHold`, the refinement: each action of the lock is a step of
`DataDirHold` or changes none of its variables. `RefusesOnlyTheQueued`
(`RefusesRightly`) is about the numbers a take and a queued change carry:
`AskInv` adds that a refused take is one there was and not the one under way
(`TakeInv`), that whoever is queued is so for that one, one before it or the
next (`QueueInv`), and that a nested change is asked for inside one that runs
(`NestInv`). Its part `NestedLetIn` names the guard under which the code lets a
change join (`MayJoin`): that a nested one always passes it is what is proved.

`TransferProofs`: for any number of attempts, commits and edits, in either
direction, overlapping or not, with mirror starts or without, `TypeCorrect`,
`LeavesNoCopy`, `SweepsIncoming`, their conjunction `LeavesNothingBehind` and
`KeepsFinishedCopy`. An undo removes whatever copy has the
path, so the last needs that the copy is its own; the inductive invariant says
so in four parts. `StageInv` relates the stage of a call to that of its landing;
`HeldInv` says that an attempt with a copy in its hands made it, which a create
keeps because it needs that there is none; `LeftInv` and `SweptInv` say who
still has a copy or the ref to take away, and are stronger than the properties
in that they name only the stages after the create, or the fetch.

`LosesNothing` (`NothingLost`), `KeepsReceipts` (`ReceiptStands`) and
`ImplementsRelocation` (`Relocates`) assume `OneAtATime`, that is neither
`Overlap` nor `Mirrors`, under which section 3 shows the first two false.
`WorkInv` adds to the above what each stage knows of the source's past. `CallInv`:
a move begins once those before it are over, so one landing works at a time.
`CopyInv`: the ref that came is not behind the tip the landing read, so the copy
is made on what the receipt will say, and has the capture it says was applied.
`ReceiptInv` and `TearInv`: a kept receipt is of the copy that stands, and a
teardown works from it and from what the source was at each of its looks.
`GoneInv`: what went is at a copy that stays. The refinement then maps each step
to one of `Relocation` or to none, the landing to the copy's appearance and the
teardown's last step to the source's going.

`UpdaterProofs`: `QueueListsItsRuns` (`RunsAreListed`), from an invariant of the
queue alone, `QInv`: its types, the property, and that a queueing knows its device
(`LockInv`). It holds whatever the updater does. An entry that was cut short may
read "running" with no run; the property says that only such a one does. `TypeCorrect`, `InstallsOnce` (`OneInstall`) and `HoldKept`
(`HoldStands`) assume `OneHolder`, that only one holder ever holds the updater
off: with two the last is false, as section 3 says. Their `IInv` is the types
with `CheckInv` (a check is of a release that is out, and has the staging lock
only in the stages that took it), `ArmInv` (an armed
install is of a call that waits as armed), `UpInv` (nothing is asked for or held
while the app is down), `InstallInv` (a hand-off is of the one install under way,
and an installer waits for an app that is quitting or down) and `HoldInv` (from the first step of a hold no
install may begin, and once it is held no check is in flight).

`WorktreeMoveProofs!OneWorkerHolds` (`OneWorker`), for any worktrees, places,
processes and fibers of each, and any number of moves, crashes and failures,
under `~SlowTurn`. A worker's record is there, in the name of this start of its
process, and marked as under way in it (`HandInv`); who is about to take one
over saw it with an owner that is gone, or as its own process's (`DeadInv`). A
take-over needs the owner it saw still there: were somebody else at work on the
record, the owner would be that fiber's process, which runs, so it is this very
process, and the record is marked. That an owner which is gone stays gone needs
that no record is of a start still to come (`BornInv`). `LateTurn` and
`Squatters` make no difference to it. The worker's own steps are one lemma each
way round: every one of them is a `Goes1`, which `WorkKeeps` shows to keep the
invariant.

`WorktreeFoundProofs`, over that invariant, for any worktrees, places and
processes and any number of moves and crashes: `NothingMovedIsLost`
(`WorkFound`) and `OnlyCopiesGo` (`DeletesCopies`). Neither property is
inductive, since a record says where its worktree may be and not where it is.
`FoundInv` adds this in parts. `SettledInv`: a worktree no record is of is whole
where git lists it, and nowhere else. `SitsInv`: one that has a record is whole
where git lists it, or was renamed before git recorded that, and a second copy is
at one of the two folders of a move between volumes. `StepInv`: what the step of
whoever works at a record says of the two folders; a delete of the original, say,
comes when git lists the copy. `RowsInv`: no worktree has two records, and none
leads to the folder another leaves. `SameInv`: a worker's record, and one about
to be taken over and not changed since, is as its row. A step changes the folders
of one worktree (`Only`), so what is said of the others stays (`OthersStay`, and
from it `SettledStays`, `SitsStays` and `FineStays`); it leaves the records alone
(`Beside`, `BesideKeeps`) or is of the one record its fiber works at (`On`,
`OnKeeps`), and each action is shown to be one of the two.

`WhatIsKeptFollows` (`RowsFollow` and `CaptureFollows`, two of the three parts
of `AllFollows`) adds `KeptInv` to that. What the store keeps of a worktree
is under the one id its carry stands at (`RowHome`): where git lists it if no
record moves it, else the id the record leaves until that says `carried`, and
then the one it goes to. Its capture may be under either (`RefHome`), since the ref is
carried after the rows. That a carry puts them over no other worktree's needs that
all that is under the id a kept record leaves is of the worktree it moves
(`RecHome`), and that the step of who works at it says what it has carried so far
(`BringInv`): before git has the new path nothing, at the ref the rows, and when it
forgets the record all there is to carry, so that no row is left under an id that
nothing leads from. None of the four says anything of a
worktree that git put inside a folder in its way, nor do the properties.

`OldIdsFollow` (`AllFollows`) adds its third part, `OldIdLeads`, by `EndInv`. The
recorded moves form chains, and `Placed` is a function that recurs along them;
`PlacedIs` shows that there is such a function, whatever the records are.
`ChainInv` has that a chain's rows grow, so that it ends, and that its moves are
of one worktree, unless git nested it; `EndHome` that it ends at the id that
worktree's rows are under, so that a chain leads where `RowHome` has the rows;
and `EndFollows` and `EndBrings` that a record about to be carried takes the
chains that end at the folder it leaves along. A carry, a create and a move out
of an id each change the chains, and `CarryLeads` and `CleanEnds` say where they
end then; that they do is by induction from the last row back (`PlacedEnds`). The
theorem assumes `Unlooped`, at every instant: no move under way goes over two
folders one of which a recorded move leads to from the other, and on from there.
That is the case of `relocate_chain`, where the claim of both drops two links of
the chain and mends one; it takes two recorded moves and one under way, so
`relocate`, with two in all, meets none. A worktree that is moved back and forth, or to
where another was, or whose old folder is taken by a new one, is within it.

`TypeCorrect` (`TypeOK`) assumes `~SlowTurn` alone, which `IInv` needs.
`HoldsInv` has the types of the disk, of git's list and of the store; that rows
are numbered past those there are needs them bounded, since `Max` is of a finite
number of them.

The other theorems of the module assume `Sound`, and so does `OldIdsFollow`. `~SlowTurn`, `~LateTurn` and `~Squatters` leave out
what section 3's table shows to break one of the first two. `OneFiber` (a process's
moves and resumes come one after another) keeps `SameInv`, which two fibers break
as section 3 says, and breaks `AllFollows`; TLC finds neither of the first two
violated by that within two moves.
And either no move crosses volumes, or nothing fails: with both, section 3 shows
each of the two false. So the theorems are of every failure within a volume and of
every crash, and `relocate` checks what it does of the two together.

`HubProofs!AdmissionHolds` (`AdmittedHolds`), for any number of devices,
accounts and dials, any cap and with calls in any order. A socket's credential
is its dial's, checked when the connect was taken and again as it is admitted;
between the two a row may go, and its tickets and sockets go with it. What that
needs is that a row, a record and a parked credential are an enrollment's of
that very device and account (`RowInv`, `AccountInv`), as is the credential of
every dial that has a ticket or a socket, and of whoever holds an account's
permit (`DialInv`, `AdmissionInv`); that the calls under way name enrollments
that were made (`ChangeInv`, `RevokeInv`); and that enrollments only grow in
number (`CredInv`).

The rest of `HubProofs` holds for the same constants. `NobodyStranded`
(`NoneStranded`) and `HubTypes` (`TypeOK`) hold in whatever order calls are
handled; `RecordInv` is the above with: an enrollment is on its way once, and
what was taken out or has its row is on its way no more (`OnceInv`); the cap is
not passed, since who enrolls anew keeps its place (`CapInv`); a device is not
signed in while it has anything parked or asks to be enrolled (`HoldInv`); and
its row is its record, what it parked or on its way to it, unless it was cut off
(`StrandInv`). `HubTypes` adds `DialsInv`: a dial is in one place, was made under
a credential that has its row, and a device has one socket in an account.
`LeavesOnlyAsked`
(`LeavesWhenAsked`) and `BlocksNotItself` (`NeverBlocksItself`) assume
`~Overtaken`, since a call overtaken by a later one breaks both. The first needs
that a device whose record stands has nothing on its way that would take it out
(`TurnInv`); the second that of the dials of one device the hub still has to
handle, the last is the one in use, and every other is of its credential or of
one whose row is gone (`LastInv`).

`MirrorProofs`, for any sessions, works, asks and troubles. `MirrorTypes`
(`TypeOK`), `NothingTaken` (`TakesNothing`) and `NoneLeftPaused` (`LeftRunning`)
hold whatever is under way as another thing begins (`Overlaps`).
`NothingCrossesOver` (`NothingCrosses`) assumes `Apart`, the first two of the
mirror's switches in section 3's table. `Shape` has the types, among them that a
session's root is a folder the original had, and `TurnInv` says that one thing at
a time takes or moves the original, which is there meanwhile. `TakesNothing` is
carried by what a delete read: `LookInv` and `CopyLookInv` hold that, from the
first look to the last, against what its own side has, and `ToldInv` against
what the copy had as it went. They stay true because a side's work only grows
while it is there and nobody works where nothing is (`Grows`). `WaitInv` says
that who waits for the peer waits for where its original is, so that a delete
finds it; with it `StillInv`: what a delete stopped stays so, and no re-open is under way, heard of
or not, until it is over. `StoppedInv` gives each paused session, while
nothing was refused, somebody who knows of it: a wait, a re-open, a delete or a
taking that lists it among those it stopped. `OneRuns` (`OneRunning`) assumes that
nothing begins inside a re-open, as the run does, and says it of the states before
the first trouble (a refusal, a drop, a death, a folder that vanishes, a create
unheard of, a caller gone). `PairInv` is its invariant: nothing was made that
nobody heard of; of the live sessions and those about to be made one leads and is
where the original is or follows it there, and every other is paused behind the one
that replaced it; no move or delete is begun until it has ended, so none opens it
anew or lets it go on.

Only model-checked: which of two sessions sync after a trouble (`OneRunning`), of which the run has one; and
everything about liveness, which is out of the prover's reach, as `ENABLED`
is. What a module assumes of `None` (`NoneAssumption`) is that it is none of the
records the model could take it for; nothing in the code depends on it.

## 5. Not modelled, and the plan

What the modelled parts leave out:

* `Transfer`: what people do in the copy before the teardown (a receipt is not
  withdrawn when they delete it), ignored files, more than one device asking one
  device, a clone from the peer, and a peer set to keep the branch of a copy.
* `WorktreeMove`: the leases of ports, empty parent folders, scripts; removing.
* `Updater`: a person who opens the app between its quit and the swap, the
  limit on the quit, a headless host's install in place, the bridge's file,
  downloads and signatures.
* `Mirror`: a mirror's start (its send is in `Transfer`), a person's pause and
  resume, transfers of a mirrored worktree, accounts. The copy's delete a
  person's stop asks for is told nothing to expect (`sessions.ts:339`), and is
  modelled so. The last check of a delete and git's step are one step, and a
  change of the engine's sessions is seen at once. What a delete resumes or ends
  with the engine down is not tried again, and is left to the troubles.
* `Hub`: a removal of oneself through the list, outside the turn of account
  changes, and a parked revoke retried at start; the socket that stands when the
  answer of a removal was lost (`stands`) and the row of an enrollment given up
  on (`cut`), which properties except; tabs, the cap on tickets, the relay and
  the roster, and the age of tombstones.

Next, in order: the direct sessions between devices (`DeviceLink`, its
handshake, and calls in flight across a drop); scripts, terminals and port
forwards, whose processes outlive what started them; landing a branch on GitHub,
the order of a stack's merges. Each safety property of a passing run is stated by
a theorem; what is left to prove is that each holds under less than it assumes.

Left out for good: views, wire formats, argument parsing, wiring of processes,
the Go file engine and native helpers, and output of child processes. They are
most of the repository's lines, so the share of it that `map` names is small:
what is modelled is where the order of steps decides.
