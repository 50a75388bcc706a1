--------------------------------- MODULE Mirror ---------------------------------
(* One mirror: a worktree on the device that runs its sessions (the original), *)
(* its copy on another, and the ledger that ends them (app/host/mirror:        *)
(* onDelete.ts, peerRemovals.ts, sessions.ts, MirrorEngineLayer.ts and         *)
(* ledger/), under the host's removals (lib/worktrees/removing.ts).            *)
(*                                                                             *)
(* What is abstracted. A side's work is what was written there and what was    *)
(* committed; a cycle of the file sync brings both sides the union, and the    *)
(* git follower moves a branch that is behind. The folder of the original is   *)
(* the number of moves it made, and its id is its folder. The engine's         *)
(* snapshot shows its sessions as they are, a change is seen at once, and the  *)
(* last check of a delete and git's step are one step. The mirror is under way *)
(* at the start. Left out: its start, a person's pause and resume, another     *)
(* worktree in an old folder, transfers, accounts, threads and stacks.         *)
EXTENDS Naturals, Sequences

CONSTANTS
    None,
    Overlaps,       \* what may be under way as another thing begins
    MaxSessions,
    MaxWorks,       \* what is written or committed
    MaxAsks,        \* the deletes, moves, rules and stops
    MaxTroubles     \* what is refused, dies, drops, vanishes or goes unheard

ASSUME MirrorAssumption ==
    /\ Overlaps \subseteq {"reopen", "down", "replaced"}
    /\ MaxSessions \in Nat \ {0}
    /\ {MaxWorks, MaxAsks, MaxTroubles} \subseteq Nat

VARIABLES
    at,         \* what became of each side
    holds,      \* the work on each side
    place,      \* the folder of the original
    daemon,     \* the engine runs, and its snapshot came
    link,       \* the other device takes calls
    sess,       \* the engine's sessions, which it keeps on disk
    pendingStops, endingSessions, rootLooks, waitingOnPeer, goneCopies,
    del,        \* the delete of the original
    copyDel,    \* the delete of the copy
    taking,     \* the delete of the original that the copy's asked for
    jobs,       \* what each session of a deleted original has ahead
    news,       \* the announcements of the copy's end on their way
    heard,      \* those being acted on
    looking,    \* the sessions whose missing root is being looked into
    reopen,     \* the re-open of each session
    stop,       \* a person's stop
    move,       \* a move of the original
    spent       \* how much of each bound is used, and whether the engine is quiet

sides == <<at, holds, place>>
engine == <<daemon, link, sess>>
marks == <<pendingStops, endingSessions, rootLooks, waitingOnPeer, goneCopies>>
deletes == <<del, copyDel, taking, jobs>>
told == <<news, heard, looking>>
people == <<stop, move>>
vars == <<sides, engine, marks, deletes, told, reopen, people, spent>>

Ids == 1..MaxSessions
Sides == {"original", "copy"}
Works == 1..MaxWorks
Work == [files : SUBSET Works, commits : SUBSET Works]
Other(x) == IF x = "copy" THEN "original" ELSE "copy"

Here(x) == at[x] = "here"
Live == {s \in DOMAIN sess : sess[s] # None}
worktreeIdNow(s) == IF s \in DOMAIN waitingOnPeer THEN waitingOnPeer[s] ELSE sess[s].root
OnWorktree(id) == {s \in Live : worktreeIdNow(s) = id}
Recreating(s) == reopen[s].stage \in {"creating", "replacing"}
Reopening == \E s \in Ids : reopen[s].stage # "no"
Spend(kind, bound) == spent[kind] < bound /\ spent' = [spent EXCEPT ![kind] = @ + 1]

\* The engine refuses what these are asked, or does not run. What it refuses changes
\* nothing, so no snapshot follows.
Quietly(P) == P /\ spent' = [spent EXCEPT !.troubles = @ + 1, !.quiet = TRUE]
Refused(those) ==
    IF daemon THEN Quietly(those \cap Live # {} /\ spent.troubles < MaxTroubles)
              ELSE UNCHANGED spent
Without(those) == [s \in DOMAIN sess |-> IF s \in those THEN None ELSE sess[s]]
With(those, paused) ==
    [s \in DOMAIN sess |-> IF s \in those /\ sess[s] # None
                           THEN [sess[s] EXCEPT !.paused = paused] ELSE sess[s]]
Ends(those) == \/ daemon /\ sess' = Without(those) /\ UNCHANGED spent
               \/ Refused(those) /\ UNCHANGED sess

\* A running session syncs while both its roots are there and its stream is served.
Serving == copyDel.stage \notin {"cleanup", "going"}
Crossing(s) ==
    /\ s \in Live /\ ~sess[s].paused /\ daemon /\ link /\ Serving
    /\ Here("original") /\ sess[s].root = place /\ Here("copy")
mirrorFilesSettled(s) == Crossing(s) /\ holds["original"].files = holds["copy"].files

\* A delete or a move holds the root checks of its worktree, a delete until its
\* copies are dealt with.
Deleting == del.stage # "no" \/ taking.stage # "no"
HoldingRoots(id) ==
    \/ id = place /\ (Deleting \/ \E s \in Ids : jobs[s] # "no")
    \/ id = move.from /\ move.stage # "no"
Mutable == Here("original") /\ ~Deleting /\ move.stage = "no"

--------------------------------------------------------------------------------
(* The two sides at work, and the sessions that bring them into step.          *)

Writes(x) ==
    /\ Here(x) /\ Spend("works", MaxWorks)
    /\ \E kind \in {"files", "commits"} :
          holds' = [holds EXCEPT ![x][kind] = @ \cup {spent'.works}]
    /\ UNCHANGED <<at, place, engine, marks, deletes, told, reopen, people>>
Cycle(s) ==
    /\ Crossing(s)
    /\ holds' = [x \in Sides |->
          [holds[x] EXCEPT !.files = holds["original"].files \cup holds["copy"].files]]
    /\ holds' # holds
    /\ UNCHANGED <<at, place, engine, marks, deletes, told, reopen, people, spent>>
\* A branch that is behind moves once the files have landed.
Follow(s, x) ==
    /\ mirrorFilesSettled(s)
    /\ holds[x].commits \subseteq holds[Other(x)].commits
    /\ holds' = [holds EXCEPT ![x].commits = holds[Other(x)].commits]
    /\ holds' # holds
    /\ UNCHANGED <<at, place, engine, marks, deletes, told, reopen, people, spent>>

--------------------------------------------------------------------------------
(* A delete of the original here, which takes its copy too when the two are in *)
(* step (mirrorsOnDelete, ledger/tombstones.ts).                               *)

NoDelete == [stage |-> "no", look |-> None, of |-> 0, read |-> None, paused |-> {}]
Look(s, read) == [session |-> s, read |-> read]
Reads(x, y) == IF Here(x) /\ link /\ holds[x].commits = holds[y].commits
               THEN holds[x] ELSE None

DeleteBegins ==
    /\ Mutable /\ Spend("asks", MaxAsks)
    /\ "reopen" \in Overlaps \/ ~Reopening
    /\ del' = [NoDelete EXCEPT !.stage = "look"]
    /\ UNCHANGED <<sides, engine, marks, copyDel, taking, jobs, told, reopen, people>>

\* The copy as its own device reads it, for a session that is not stuck ...
LookReads ==
    /\ del.stage = "look"
    /\ LET live == {s \in OnWorktree(place) : Crossing(s)}
       IN \/ /\ live = {}
             /\ del' = [del EXCEPT !.stage = "pause"]
          \/ \E s \in live :
                del' = [del EXCEPT !.stage = "settled", !.of = s,
                                   !.read = Reads("copy", "original")]
    /\ UNCHANGED <<sides, engine, marks, copyDel, taking, jobs, told, reopen, people, spent>>
\* ... which counts if the files are settled after it.
\* Slip: the files are not asked after.
LookUnsettled ==
    /\ del.stage = "settled"
    /\ del' = [del EXCEPT !.stage = "pause", !.read = None,
                 !.look = IF del.read # None THEN Look(del.of, del.read) ELSE None]
    /\ UNCHANGED <<sides, engine, marks, copyDel, taking, jobs, told, reopen, people, spent>>
LookSettles ==
    /\ del.stage = "settled"
    /\ del' = [del EXCEPT !.stage = "pause", !.read = None,
                 !.look = IF del.read # None /\ mirrorFilesSettled(del.of)
                          THEN Look(del.of, del.read) ELSE None]
    /\ UNCHANGED <<sides, engine, marks, copyDel, taking, jobs, told, reopen, people, spent>>

\* Its sessions stop, or the delete is refused.
\* Slip: only the session it looked at stops.
pauseMirrorsOnLooked(d) ==
    /\ d.stage = "pause" /\ (daemon \/ "down" \in Overlaps)
    /\ sess' = With(IF daemon THEN {d.of} ELSE {}, TRUE)
    /\ UNCHANGED <<sides, daemon, link, marks, copyDel, jobs, told, reopen, people, spent>>
pauseMirrorsOn(d) ==
    LET those == IF daemon THEN {s \in OnWorktree(place) : ~sess[s].paused} ELSE {}
    IN /\ d.stage = "pause" /\ (daemon \/ "down" \in Overlaps)
       /\ sess' = With(those, TRUE)
       /\ UNCHANGED <<sides, daemon, link, marks, copyDel, jobs, told, reopen, people, spent>>
DeletePauses ==
    /\ pauseMirrorsOn(del)
    /\ del' = [del EXCEPT !.stage = "cleanup",
                 !.paused = {s \in DOMAIN sess : sess'[s] # sess[s]}]
    /\ UNCHANGED taking
DeleteRefused ==
    /\ del.stage = "pause" /\ daemon /\ Spend("troubles", MaxTroubles)
    /\ del' = NoDelete
    /\ UNCHANGED <<sides, engine, marks, copyDel, taking, jobs, told, reopen, people>>

\* The cleanup failed or the delete was refused or cut short: they go on.
resumeMirrors(those) ==
    \/ daemon /\ sess' = With(those, FALSE) /\ UNCHANGED spent
    \/ Refused(those) /\ UNCHANGED sess
\* Slip: what the delete stopped stays so.
DeleteShortPaused ==
    /\ del.stage = "cleanup"
    /\ del' = NoDelete
    /\ UNCHANGED <<sides, engine, marks, copyDel, taking, jobs, told, reopen, people, spent>>
DeleteShort ==
    /\ del.stage = "cleanup"
    /\ resumeMirrors(del.paused)
    /\ del' = NoDelete
    /\ UNCHANGED <<sides, daemon, link, marks, copyDel, taking, jobs, told, reopen, people>>
DeleteGoes ==
    /\ del.stage = "cleanup"
    /\ del' = [del EXCEPT !.stage = "going"]
    /\ UNCHANGED <<sides, engine, marks, copyDel, taking, jobs, told, reopen, people, spent>>
\* Git's step failed: what it kept is no mirror any more.
DeleteKept ==
    /\ del.stage = "going"
    /\ Ends(OnWorktree(place))
    /\ del' = NoDelete
    /\ UNCHANGED <<sides, daemon, link, marks, copyDel, taking, jobs, told, reopen, people>>
DeleteGone ==
    /\ del.stage = "going"
    /\ at' = [at EXCEPT !["original"] = "deleted"]
    /\ del' = [del EXCEPT !.stage = "gone"]
    /\ UNCHANGED <<holds, place, engine, marks, copyDel, taking, jobs, told, reopen,
                   people, spent>>

\* The copies: one whose session was found in step goes after it, the others stay.
deleteCopiesOf ==
    /\ del.stage = "gone"
    /\ del' = [del EXCEPT !.stage = "no"]
    /\ IF daemon
       THEN /\ jobs' = [s \in Ids |-> IF s \notin OnWorktree(place) THEN "no"
                          ELSE IF del.look # None /\ del.look.session = s THEN "take"
                          ELSE "end"]
            /\ endingSessions' = endingSessions \cup {s \in Ids : jobs'[s] = "end"}
            /\ UNCHANGED pendingStops
       ELSE /\ pendingStops' = pendingStops \cup {place}
            /\ UNCHANGED <<jobs, endingSessions>>
    /\ UNCHANGED <<sides, engine, rootLooks, waitingOnPeer, goneCopies, copyDel, taking,
                   told, reopen, people, spent>>
\* The session first, and then the copy: asked for, once it has ended.
\* Slip: every copy is asked for.
JobEndsAll(s) ==
    /\ jobs[s] \in {"end", "take"}
    /\ Ends({s})
    /\ jobs' = [jobs EXCEPT ![s] = IF sess'[s] = None THEN "ask" ELSE "no"]
    /\ endingSessions' = endingSessions \ {s}
    /\ UNCHANGED <<sides, daemon, link, pendingStops, rootLooks, waitingOnPeer, goneCopies,
                   del, copyDel, taking, told, reopen, people>>
JobEnds(s) ==
    /\ jobs[s] \in {"end", "take"}
    /\ Ends({s})
    /\ jobs' = [jobs EXCEPT ![s] = IF @ = "take" /\ sess'[s] = None THEN "ask" ELSE "no"]
    /\ endingSessions' = endingSessions \ {s}
    /\ UNCHANGED <<sides, daemon, link, pendingStops, rootLooks, waitingOnPeer, goneCopies,
                   del, copyDel, taking, told, reopen, people>>

\* The copy's delete on its device, which checks what it was told to expect right
\* before the files go; its end is announced like any. It may fail.
Announced(expect) == IF link THEN news \cup {expect} ELSE news
CopyGoes(expect, as) ==
    /\ link /\ Here("copy") /\ copyDel.stage = "no"
    /\ expect # None => holds["copy"] = expect
    /\ at' = [at EXCEPT !["copy"] = as]
    /\ news' = Announced(None)
JobAsks(s) ==
    /\ jobs[s] = "ask"
    /\ \/ CopyGoes(del.look.read, "taken") /\ UNCHANGED spent
       \/ /\ ~link \/ ~Here("copy") \/ copyDel.stage # "no" \/ holds["copy"] # del.look.read
          /\ UNCHANGED <<at, news, spent>>
       \/ Spend("troubles", MaxTroubles) /\ UNCHANGED <<at, news>>
    /\ jobs' = [jobs EXCEPT ![s] = "no"]
    /\ UNCHANGED <<holds, place, engine, marks, del, copyDel, taking, heard, looking, reopen,
                   people>>

--------------------------------------------------------------------------------
(* A delete of the copy on its device, and what this one makes of it           *)
(* (lookAtOriginalOf, ledger/peers.ts, peerRemovals.ts).                       *)

NoCopyDelete == [stage |-> "no", of |-> 0, read |-> None]
CopyDeleteBegins ==
    /\ Here("copy") /\ copyDel.stage = "no" /\ Spend("asks", MaxAsks)
    /\ copyDel' = [NoCopyDelete EXCEPT !.stage = "ask"]
    /\ UNCHANGED <<sides, engine, marks, del, taking, jobs, told, reopen, people>>
\* The original, read on its device between two answers that all is settled.
CopyAsks ==
    /\ copyDel.stage = "ask"
    /\ \/ \E s \in Live : /\ mirrorFilesSettled(s)
                          /\ copyDel' = [copyDel EXCEPT !.stage = "read", !.of = s]
       \/ /\ \A s \in Live : ~mirrorFilesSettled(s)
          /\ copyDel' = [copyDel EXCEPT !.stage = "cleanup"]
    /\ UNCHANGED <<sides, engine, marks, del, taking, jobs, told, reopen, people, spent>>
CopyReads ==
    /\ copyDel.stage = "read"
    /\ copyDel' = [copyDel EXCEPT !.stage = "again", !.read = Reads("original", "copy")]
    /\ UNCHANGED <<sides, engine, marks, del, taking, jobs, told, reopen, people, spent>>
CopyAsksAgain ==
    /\ copyDel.stage = "again"
    /\ copyDel' = [copyDel EXCEPT !.stage = "cleanup",
                     !.read = IF mirrorFilesSettled(copyDel.of) THEN @ ELSE None]
    /\ UNCHANGED <<sides, engine, marks, del, taking, jobs, told, reopen, people, spent>>
CopyDeleteGoes ==
    /\ copyDel.stage = "cleanup"
    /\ copyDel' = [copyDel EXCEPT !.stage = "going"]
    /\ UNCHANGED <<sides, engine, marks, del, taking, jobs, told, reopen, people, spent>>
CopyDeleteStays ==
    /\ copyDel.stage \in {"cleanup", "going"}
    /\ copyDel' = NoCopyDelete
    /\ UNCHANGED <<sides, engine, marks, del, taking, jobs, told, reopen, people, spent>>
CopyDeleteGone ==
    /\ copyDel.stage = "going"
    /\ at' = [at EXCEPT !["copy"] = "deleted"]
    /\ news' = IF link THEN news \cup {copyDel.read, None} ELSE news
    /\ copyDel' = NoCopyDelete
    /\ UNCHANGED <<holds, place, engine, marks, del, taking, jobs, heard, looking, reopen, people,
                   spent>>

\* A copy is gone: its sessions that are not being ended already end, and their
\* original is kept in mind for the announcement to find.
Doomed == IF daemon THEN Live \ endingSessions ELSE {}
Remembered == IF Doomed # {} THEN TRUE ELSE goneCopies
Hears(expect) ==
    /\ expect \in news
    /\ news' = news \ {expect}
    /\ heard' = heard \cup {[expect |-> expect, doomed |-> Doomed]}
    /\ goneCopies' = Remembered
    /\ UNCHANGED <<sides, engine, pendingStops, endingSessions, rootLooks, waitingOnPeer,
                   deletes, looking, reopen, people, spent>>
\* Its original goes too, where the delete stood for both.
HeardEnds(h) ==
    /\ h \in heard
    /\ heard' = heard \ {h}
    /\ Ends(h.doomed)
    /\ IF h.expect = None THEN UNCHANGED <<goneCopies, taking>>
       ELSE /\ goneCopies' = FALSE
            /\ IF goneCopies /\ Mutable /\ holds["original"] = h.expect
               THEN taking' = [NoDelete EXCEPT !.stage = "pause", !.read = h.expect]
               ELSE UNCHANGED taking
    /\ UNCHANGED <<sides, daemon, link, pendingStops, endingSessions, rootLooks,
                   waitingOnPeer, del, copyDel, jobs, news, looking, reopen, people>>
\* The git follower finds it gone, and its device's own list confirms it.
endMirrorIfCopyGone ==
    /\ daemon /\ link /\ ~Here("copy") /\ \A h \in heard : h.doomed # Doomed
    /\ \E s \in Live : ~sess[s].paused /\ s \notin endingSessions
    /\ heard' = heard \cup {[expect |-> None, doomed |-> Doomed]}
    /\ goneCopies' = Remembered
    /\ UNCHANGED <<sides, engine, pendingStops, endingSessions, rootLooks, waitingOnPeer,
                   deletes, news, looking, reopen, people, spent>>
\* What was kept in mind is for the next two minutes.
GoneCopyAges ==
    /\ goneCopies /\ goneCopies' = FALSE
    /\ UNCHANGED <<sides, engine, pendingStops, endingSessions, rootLooks, waitingOnPeer,
                   deletes, told, reopen, people, spent>>

TakingPauses ==
    /\ pauseMirrorsOn(taking)
    /\ taking' = [taking EXCEPT !.stage = "cleanup",
                    !.paused = {s \in DOMAIN sess : sess'[s] # sess[s]}]
    /\ UNCHANGED del
\* It stays if it changed meanwhile, or its cleanup fails.
TakingStays ==
    /\ taking.stage \in {"pause", "cleanup"}
    /\ resumeMirrors(taking.paused)
    /\ taking' = NoDelete
    /\ UNCHANGED <<sides, daemon, link, marks, del, copyDel, jobs, told, reopen, people>>
TakingGone ==
    /\ taking.stage = "cleanup" /\ holds["original"] = taking.read
    /\ at' = [at EXCEPT !["original"] = "taken"]
    /\ taking' = [taking EXCEPT !.stage = "gone"]
    /\ UNCHANGED <<holds, place, engine, marks, del, copyDel, jobs, told, reopen, people,
                   spent>>
stopMirrorsForWorktree ==
    /\ taking.stage = "gone"
    /\ taking' = NoDelete
    /\ IF daemon THEN Ends(OnWorktree(place)) /\ UNCHANGED pendingStops
       ELSE pendingStops' = pendingStops \cup {place} /\ UNCHANGED <<sess, spent>>
    /\ UNCHANGED <<sides, daemon, link, endingSessions, rootLooks, waitingOnPeer, goneCopies,
                   del, copyDel, jobs, told, reopen, people>>

--------------------------------------------------------------------------------
(* A re-open of a session, for a rule of what it leaves out or a move          *)
(* (recreate), and the original's moves (ledger/moves.ts).                     *)

NoReopen == [stage |-> "no", to |-> 0, why |-> "rule"]
Replaced == {sess[t].replaces : t \in Live}
\* Slip: the old session runs on until the new one is up.
ReopensRunning(those, to, why) ==
    /\ reopen' = [s \in Ids |-> IF s \in those
                                 THEN [stage |-> "creating", to |-> to, why |-> why]
                                 ELSE reopen[s]]
    /\ sess' = sess
Reopens(those, to, why) ==
    /\ reopen' = [s \in Ids |-> IF s \in those
                                 THEN [stage |-> "creating", to |-> to, why |-> why]
                                 ELSE reopen[s]]
    /\ sess' = With(those, TRUE)
RuleChanges(s) ==
    /\ mirrorFilesSettled(s) /\ reopen[s].stage = "no" /\ Spend("asks", MaxAsks)
    /\ "reopen" \in Overlaps \/ Mutable
    /\ "replaced" \in Overlaps \/ Live \cap Replaced = {}
    /\ Reopens({s}, sess[s].root, "rule")
    /\ UNCHANGED <<sides, daemon, link, marks, deletes, told, people>>

\* The engine answers as what became of a move is settled.
Heeded(s) == daemon \/ reopen[s].why = "rule" \/ "down" \in Overlaps
\* The new session is made while the old one is paused ...
Creates == daemon /\ link /\ Here("copy") /\ Len(sess) < MaxSessions
Made(s) == Append(sess, [paused |-> FALSE, root |-> reopen[s].to, replaces |-> s])
ReopenCreates(s) ==
    /\ reopen[s].stage = "creating" /\ Creates
    /\ sess' = Made(s)
    /\ reopen' = [reopen EXCEPT ![s].stage = "replacing"]
    /\ UNCHANGED <<sides, daemon, link, marks, deletes, told, people, spent>>
\* ... or is not: the old one goes on, a moved one's ends, or stays as it is with
\* the engine down. Where its answer never came it may turn up yet, to be ended then.
ReopenFails(s) ==
    /\ reopen[s].stage = "creating" /\ Heeded(s)
    /\ IF Creates THEN Spend("troubles", MaxTroubles) ELSE UNCHANGED spent
    /\ \/ reopen' = [reopen EXCEPT ![s] = NoReopen]
       \/ (Creates \/ ~daemon) /\ reopen' = [reopen EXCEPT ![s].stage = "abandoned"]
    /\ sess' = IF ~daemon THEN sess
               ELSE IF reopen[s].why = "rule" THEN With({s}, FALSE) ELSE Without({s})
    /\ UNCHANGED <<sides, daemon, link, marks, deletes, told, people>>
\* Its caller is gone: the old one goes on, and nobody ends one that turns up, or is
\* left, paused, beside the new one.
ReopenCut(s) ==
    /\ Recreating(s) /\ Spend("troubles", MaxTroubles)
    /\ IF reopen[s].stage = "creating"
       THEN /\ reopen' = [reopen EXCEPT ![s].stage = "cut"]
            /\ sess' = IF daemon THEN With({s}, FALSE) ELSE sess
       ELSE reopen' = [reopen EXCEPT ![s] = NoReopen] /\ UNCHANGED sess
    /\ UNCHANGED <<sides, daemon, link, marks, deletes, told, people>>
\* One nobody heard of turns up, or was never made.
ReopenLate(s) ==
    /\ reopen[s].stage \in {"abandoned", "cut"}
    /\ \/ reopen' = [reopen EXCEPT ![s] = NoReopen] /\ UNCHANGED sess
       \/ /\ daemon /\ Len(sess) < MaxSessions
          /\ sess' = Made(s)
          /\ reopen' = [reopen EXCEPT ![s] =
                IF @.stage = "cut" THEN NoReopen
                ELSE [@ EXCEPT !.stage = "unwanted", !.to = Len(sess')]]
    /\ UNCHANGED <<sides, daemon, link, marks, deletes, told, people, spent>>
endAbandoned(s) ==
    /\ reopen[s].stage = "unwanted" /\ daemon
    /\ Ends({reopen[s].to})
    /\ reopen' = IF sess'[reopen[s].to] = None THEN [reopen EXCEPT ![s] = NoReopen]
                 ELSE reopen
    /\ UNCHANGED <<sides, daemon, link, marks, deletes, told, people>>
\* The old one ends then, a moved one's asked twice.
ReopenEnds(s) ==
    /\ reopen[s].stage = "replacing" /\ Heeded(s)
    /\ IF daemon /\ reopen[s].why = "move"
       THEN sess' = Without({s}) /\ UNCHANGED spent ELSE Ends({s})
    /\ reopen' = [reopen EXCEPT ![s] = NoReopen]
    /\ UNCHANGED <<sides, daemon, link, marks, deletes, told, people>>

\* The sessions of a moved original re-open there, or wait, paused, for the peer.
\* One that waits already is told where its original went since.
WaitsCarried(those, from) ==
    [s \in those \cup DOMAIN waitingOnPeer |->
        IF s \in those \/ waitingOnPeer[s] = from THEN place ELSE waitingOnPeer[s]]
moveMirrorsOfWorktree(from) ==
    LET those == {s \in Live : sess[s].root = from}
    IN /\ "replaced" \in Overlaps \/ those \cap Replaced = {}
       /\ IF link THEN /\ Reopens(those, place, "move")
                       /\ waitingOnPeer' = WaitsCarried({}, from) /\ UNCHANGED rootLooks
          ELSE /\ waitingOnPeer' = WaitsCarried(those, from)
               /\ rootLooks' = rootLooks \ those
               /\ sess' = With(those, TRUE)
               /\ UNCHANGED reopen

NoMove == [stage |-> "no", from |-> 0]
MoveBegins ==
    /\ Mutable /\ Spend("asks", MaxAsks)
    /\ "reopen" \in Overlaps \/ ~Reopening
    /\ move' = [stage |-> "going", from |-> place]
    /\ UNCHANGED <<sides, engine, marks, deletes, told, reopen, stop>>
MoveFails ==
    /\ move.stage = "going" /\ move' = NoMove
    /\ UNCHANGED <<sides, engine, marks, deletes, told, reopen, stop, spent>>
MoveDone ==
    /\ move.stage = "going"
    /\ place' = place + 1
    /\ move' = [move EXCEPT !.stage = "moved"]
    /\ UNCHANGED <<at, holds, engine, marks, deletes, told, reopen, stop, spent>>
MoveMirrors ==
    /\ move.stage = "moved"
    /\ move' = [move EXCEPT !.stage = "reopening"]
    /\ IF daemon THEN moveMirrorsOfWorktree(move.from)
       ELSE /\ waitingOnPeer' = WaitsCarried({}, move.from)
            /\ UNCHANGED <<sess, reopen, rootLooks>>
    /\ UNCHANGED <<sides, daemon, link, pendingStops, endingSessions, goneCopies, deletes,
                   told, stop, spent>>
MoveEnds ==
    /\ move.stage = "reopening" /\ \A s \in Ids : ~Recreating(s)
    /\ move' = NoMove
    /\ UNCHANGED <<sides, engine, marks, deletes, told, reopen, stop, spent>>

--------------------------------------------------------------------------------
(* What every snapshot is checked against (settleMirrorBookkeeping).           *)

RootThere(s) == Here("original") /\ sess[s].root = place
PendingStopsEnd ==
    /\ daemon /\ pendingStops # {}
    /\ pendingStops' = {}
    /\ Ends(UNION {OnWorktree(id) : id \in pendingStops})
    /\ UNCHANGED <<sides, daemon, link, endingSessions, rootLooks, waitingOnPeer, goneCopies,
                   deletes, told, reopen, people>>
ReplacedEnds(s) ==
    /\ daemon /\ s \in Live \cap Replaced
    /\ s \notin endingSessions /\ ~Recreating(s)
    /\ Ends({s})
    /\ UNCHANGED <<sides, daemon, link, marks, deletes, told, reopen, people>>
\* Each session's root is looked at, unless a delete or a move deals with it. One
\* whose root is there goes on (such a look is taken while a delete or a move can
\* still overtake it) ...
lookAt(s) ==
    /\ daemon /\ s \in Live \ (Replaced \cup endingSessions \cup rootLooks)
    /\ ~HoldingRoots(worktreeIdNow(s))
    /\ RootThere(s) => spent.asks < MaxAsks
    /\ rootLooks' = rootLooks \cup {s} /\ looking' = looking \cup {s}
    /\ UNCHANGED <<sides, engine, pendingStops, endingSessions, waitingOnPeer, goneCopies,
                   deletes, news, heard, reopen, people, spent>>
LookDone(s) ==
    /\ s \in looking /\ looking' = looking \ {s}
    /\ UNCHANGED <<sides, daemon, link, pendingStops, endingSessions, goneCopies, deletes,
                   news, heard, people>>
LookThere(s) ==
    /\ LookDone(s) /\ s \in Live /\ RootThere(s)
    /\ rootLooks' = rootLooks \ {s}
    /\ UNCHANGED <<sess, spent, reopen, waitingOnPeer>>
EndsKeeping(s) ==
    /\ Ends({s})
    /\ rootLooks' = IF s \in DOMAIN sess' /\ sess'[s] # None THEN rootLooks \ {s}
                    ELSE rootLooks
    /\ UNCHANGED <<reopen, waitingOnPeer>>
Moved(s) == Here("original") /\ sess[s] # None /\ sess[s].root # place
\* ... re-opens where the original went, or waits for the peer, unless the
\* original has another mirror there, or it has waited too long ...
LookMoves(s) ==
    /\ LookDone(s) /\ daemon /\ Moved(s)
    /\ \A t \in Live : sess[t].root # place
    /\ "reopen" \in Overlaps \/ (Mutable /\ ~Reopening)
    /\ moveMirrorsOfWorktree(sess[s].root)
    /\ UNCHANGED spent
\* (with the engine down nothing re-opens, and it is not looked at again)
LookLost(s) ==
    /\ LookDone(s) /\ ~daemon /\ Moved(s)
    /\ \A t \in Live : sess[t].root # place
    /\ waitingOnPeer' = WaitsCarried({}, sess[s].root)
    /\ UNCHANGED <<sess, spent, reopen, rootLooks>>
LookMovedEnds(s) ==
    /\ LookDone(s) /\ Moved(s)
    /\ s \in DOMAIN waitingOnPeer \/ \E t \in Live : sess[t].root = place
    /\ EndsKeeping(s)
\* Slip: the hold of a delete that began since is not looked at again.
LookGoneAnyway(s) ==
    /\ LookDone(s) /\ s \in Live /\ ~Here("original")
    /\ EndsKeeping(s)
\* ... or ends, its copy kept, if the original is gone. A delete that began since
\* deals with it.
LookGone(s) ==
    /\ LookDone(s) /\ s \in Live /\ ~Here("original")
    /\ IF HoldingRoots(worktreeIdNow(s))
       THEN /\ rootLooks' = rootLooks \ {s}
            /\ UNCHANGED <<sess, spent, reopen, waitingOnPeer>>
       ELSE EndsKeeping(s)
LookEnded(s) ==
    /\ LookDone(s) /\ s \notin Live
    /\ UNCHANGED <<sess, spent, reopen, waitingOnPeer, rootLooks>>

--------------------------------------------------------------------------------
(* A person's stop, which takes the copy (stopMirror).                         *)

NoStop == [stage |-> "no", of |-> 0]
\* In step, looked at now; with no original there, the session ends alone.
StopBegins(s) ==
    /\ stop.stage = "no" /\ s \in Live /\ Spend("asks", MaxAsks)
    /\ mirrorFilesSettled(s) /\ holds["original"].commits = holds["copy"].commits
    /\ stop' = [stage |-> "end", of |-> s]
    /\ UNCHANGED <<sides, engine, marks, deletes, told, reopen, move>>
StopKeeps(s) ==
    /\ stop.stage = "no" /\ s \in Live /\ ~RootThere(s)
    /\ daemon /\ sess' = Without({s}) /\ Spend("asks", MaxAsks)
    /\ stop' = [stop EXCEPT !.of = s]
    /\ UNCHANGED <<sides, daemon, link, marks, deletes, told, reopen, move>>
StopEnds ==
    /\ stop.stage = "end"
    /\ Ends({stop.of})
    /\ stop' = IF sess'[stop.of] = None THEN [stop EXCEPT !.stage = "ask"] ELSE NoStop
    /\ UNCHANGED <<sides, daemon, link, marks, deletes, told, reopen, move>>
StopAsks ==
    /\ stop.stage = "ask"
    /\ \/ CopyGoes(None, "stopped") /\ UNCHANGED spent
       \/ /\ ~link \/ ~Here("copy") \/ copyDel.stage # "no"
          /\ UNCHANGED <<at, news, spent>>
       \/ Spend("troubles", MaxTroubles) /\ UNCHANGED <<at, news>>
    /\ stop' = NoStop
    /\ UNCHANGED <<holds, place, engine, marks, deletes, heard, looking, reopen, move>>

--------------------------------------------------------------------------------
(* The engine, the app and the link.                                           *)

DaemonDies ==
    /\ daemon /\ daemon' = FALSE /\ Spend("troubles", MaxTroubles)
    /\ UNCHANGED <<sides, link, sess, marks, deletes, told, reopen, people>>
DaemonComes ==
    /\ ~daemon /\ daemon' = TRUE
    /\ spent' = [spent EXCEPT !.quiet = FALSE]
    /\ UNCHANGED <<sides, link, sess, marks, deletes, told, reopen, people>>
\* The app dies with all it keeps, and is started again.
AppDies ==
    /\ Spend("troubles", MaxTroubles)
    /\ daemon' = FALSE
    /\ pendingStops' = {} /\ endingSessions' = {} /\ rootLooks' = {}
    /\ waitingOnPeer' = <<>> /\ goneCopies' = FALSE
    /\ del' = NoDelete /\ taking' = NoDelete /\ jobs' = [s \in Ids |-> "no"]
    /\ news' = {} /\ heard' = {} /\ looking' = {}
    /\ reopen' = [s \in Ids |-> NoReopen] /\ stop' = NoStop /\ move' = NoMove
    /\ UNCHANGED <<sides, link, sess, copyDel>>
LinkDrops ==
    /\ link /\ link' = FALSE /\ Spend("troubles", MaxTroubles)
    /\ news' = {}
    /\ UNCHANGED <<sides, daemon, sess, marks, deletes, heard, looking, reopen, people>>
LinkComes ==
    /\ ~link /\ link' = TRUE
    /\ spent' = [spent EXCEPT !.quiet = FALSE]
    /\ UNCHANGED <<sides, daemon, sess, marks, deletes, told, reopen, people>>
\* A folder removed outside the app, which a paused session does not notice.
Vanishes(x) ==
    /\ Here(x) /\ Quietly(spent.troubles < MaxTroubles)
    /\ IF x = "original" THEN Mutable ELSE copyDel.stage = "no"
    /\ at' = [at EXCEPT ![x] = "vanished"]
    /\ UNCHANGED <<holds, place, engine, marks, deletes, told, reopen, people>>

--------------------------------------------------------------------------------
Init ==
    /\ at = [x \in Sides |-> "here"] /\ place = 0
    /\ holds = [x \in Sides |-> [files |-> {}, commits |-> {}]]
    /\ daemon = TRUE /\ link = TRUE
    /\ sess = <<[paused |-> FALSE, root |-> 0, replaces |-> 0]>>
    /\ pendingStops = {} /\ endingSessions = {} /\ rootLooks = {}
    /\ waitingOnPeer = <<>> /\ goneCopies = FALSE
    /\ del = NoDelete /\ copyDel = NoCopyDelete /\ taking = NoDelete
    /\ jobs = [s \in Ids |-> "no"]
    /\ news = {} /\ heard = {} /\ looking = {}
    /\ reopen = [s \in Ids |-> NoReopen] /\ stop = NoStop /\ move = NoMove
    /\ spent = [works |-> 0, asks |-> 0, troubles |-> 0, quiet |-> FALSE]

DeleteSteps ==
    \/ LookReads \/ LookSettles \/ DeletePauses \/ DeleteShort \/ DeleteGoes
    \/ DeleteKept \/ DeleteGone \/ deleteCopiesOf
    \/ \E s \in Ids : JobEnds(s) \/ JobAsks(s)
CopySteps == \/ CopyAsks \/ CopyReads \/ CopyAsksAgain \/ CopyDeleteGoes
             \/ CopyDeleteStays \/ CopyDeleteGone
HeardSteps ==
    \/ \E m \in news : Hears(m)
    \/ \E h \in heard : HeardEnds(h)
    \/ endMirrorIfCopyGone
    \/ TakingPauses \/ TakingStays \/ TakingGone \/ stopMirrorsForWorktree
ReopenSteps ==
    \/ \E s \in Ids : \/ ReopenCreates(s) \/ ReopenFails(s) \/ ReopenEnds(s)
                       \/ ReopenLate(s) \/ endAbandoned(s)
    \/ MoveFails \/ MoveDone \/ MoveMirrors \/ MoveEnds
LookSteps(s) ==
    LookThere(s) \/ LookMoves(s) \/ LookLost(s) \/ LookMovedEnds(s) \/ LookGone(s) \/ LookEnded(s)
Looks(s) == lookAt(s) \/ LookSteps(s)
SweepSteps == PendingStopsEnd \/ \E s \in DOMAIN sess : ReplacedEnds(s) \/ Looks(s)
Next ==
    \/ \E x \in Sides : \/ Writes(x) \/ Vanishes(x)
                         \/ \E s \in DOMAIN sess : Follow(s, x)
    \/ \E s \in DOMAIN sess : Cycle(s) \/ RuleChanges(s) \/ StopBegins(s) \/ StopKeeps(s)
    \/ DeleteBegins \/ DeleteRefused \/ CopyDeleteBegins \/ MoveBegins \/ GoneCopyAges
    \/ DeleteSteps \/ CopySteps \/ HeardSteps \/ ReopenSteps \/ SweepSteps
    \/ StopEnds \/ StopAsks \/ \E s \in Ids : ReopenCut(s)
    \/ DaemonDies \/ DaemonComes \/ AppDies \/ LinkDrops \/ LinkComes

Spec == Init /\ [][Next]_vars
\* Something goes on while anything can: what was begun, the engine's start, the peer's
\* return, and a sweep, which takes a session that runs or one of those two to come.
Stirs == ~spent.quiet \/ \E s \in Live : ~sess[s].paused
Sweeps == (Stirs /\ SweepSteps) \/ PendingStopsEnd \/ \E s \in DOMAIN sess : LookSteps(s)
Steps == DeleteSteps \/ HeardSteps \/ ReopenSteps \/ Sweeps \/ StopEnds \/ StopAsks
         \/ DaemonComes \/ LinkComes
FairSpec == Spec /\ WF_vars(Steps)

--------------------------------------------------------------------------------
TypeOK ==
    /\ at \in [Sides -> {"here", "deleted", "taken", "stopped", "vanished"}]
    /\ holds \in [Sides -> Work] /\ place \in 0..MaxAsks
    /\ \A s \in Live : sess[s].root <= place /\ sess[s].replaces < s
    /\ Len(sess) <= MaxSessions
    /\ endingSessions \subseteq DOMAIN sess /\ rootLooks \subseteq DOMAIN sess
    /\ looking \subseteq DOMAIN sess
    /\ \A s \in Ids : jobs[s] = "ask" => del.look # None

\* What goes because the other side was deleted held nothing the deleted side
\* did not hold as its files went.
TakesNothing ==
    \A x \in Sides : at[x] = "taken" =>
        /\ holds[x].files \subseteq holds[Other(x)].files
        /\ holds[x].commits \subseteq holds[Other(x)].commits

\* Nothing crosses while the cleanup of a delete runs and its files go.
NothingCrosses ==
    del.stage \in {"cleanup", "going"} \/ taking.stage = "cleanup" =>
        \A s \in Live : ~Crossing(s)

\* Two sessions sync a pair only once something went wrong, and then one was made
\* behind the other by a re-open that nobody heard the end of: the sweep ends the older.
Calm == spent.troubles = 0
OneRunning ==
    \A s, t \in Live : Crossing(s) /\ Crossing(t) /\ s < t =>
        ~Calm /\ sess[t].replaces = s /\ ~Recreating(s)

\* With nothing under way and nothing refused, a mirror that was not ended goes
\* on: no delete that stopped short and no re-open leaves it paused.
LeftRunning ==
    Calm /\ Mutable /\ (\A s \in Ids : ~Recreating(s) /\ jobs[s] = "no") /\ looking = {} =>
        \A s \in Live : sess[s].paused => s \in DOMAIN waitingOnPeer

\* The delete found the original in step with its copy, so the copy goes too, if it
\* stays as it was, nothing refuses it, and nobody asked for anything but this
\* delete and the original's moves.
Owed ==
    /\ at["original"] = "deleted" /\ del.look # None
    /\ Here("copy") /\ holds["copy"] = del.look.read
    /\ Calm /\ spent.asks = place + 1

\* Looked at as its original had moved and the engine was down, it keeps the mark of it.
Overlooked(s) == s \in rootLooks \ looking /\ sess[s].root # place /\ ~Recreating(s)
\* A delete of the original comes to its end on both devices: the sessions of an
\* original that is gone end, whatever was down as it went, and a copy that it
\* should take goes. What may stay is a session so overlooked, and a paused one of
\* which the engine has nothing to tell since it refused to end it.
DeleteEnds ==
    ~Here("original") ~>
        ~Owed /\ \A s \in Live : Overlooked(s) \/ (sess[s].paused /\ spent.quiet)
================================================================================
