-------------------------------- MODULE Updater --------------------------------
(* The updater of the app's shell (app/shared/updater/machine.ts) over the     *)
(* engine's staging and install (packages/engine/src/updater/staging.ts,       *)
(* swap.ts, methods.ts) and the host it restarts, whose queue of moves         *)
(* (MoveQueue) is what the host is busy with.                                  *)
(*                                                                             *)
(* What is abstracted. A version is a number, newer if greater, and the feed's *)
(* answer is confirmed. The times of checks are any. A call asks for an        *)
(* install of what is staged or for an update, by a person at this machine     *)
(* (a window, the terminal's bridge) or by another device. Words, the bridge's *)
(* files and a host with no shell around it are left out.                      *)
EXTENDS MoveQueue

CONSTANTS
    Attended, Unattended,   \* the calls of people here, and of other devices
    Holders,                \* who lets the updater go of the data folder
    None,
    MaxRelease, MaxCalls, MaxHolds,
    MaxTroubles             \* the faults, and a terminal's own runs

Calls == Attended \cup Unattended
ASSUME UpdaterAssumption ==
    /\ Attended \cap Unattended = {} /\ None \notin Calls \cup Holders
    /\ None \notin Nat \cup {"app", "terminal"}
    /\ {MaxRelease, MaxCalls, MaxHolds, MaxTroubles} \subseteq Nat

VARIABLES
    app,            \* the app: up, about to quit for an install, or down
    version,        \* the installed version
    feed,           \* the newest release
    staged,         \* the update staged on disk, None when there is none
    failed,         \* an installer failed, and the app has not started since
    stager,         \* who holds the staging lock
    installer,      \* the detached installer, waiting for the app's exit
    state,          \* what the windows see
    install,        \* where an install stands
    check,          \* the check under way
    call,           \* how far each call is
    hold,           \* how far each hold is
    spent           \* how much of each bound is used

disk == <<version, feed, staged, failed, stager, installer>>
machine == <<state, install, check, call, hold>>
vars == <<app, disk, machine, spent, queueVars>>

NoCheck == [at |-> "none", behind |-> FALSE, target |-> 0]
NoInstall == [kind |-> "none", by |-> None, mid |-> FALSE]
Spend(kind, bound) == spent[kind] < bound /\ spent' = [spent EXCEPT ![kind] = @ + 1]
Up == app # "down"

Installing == install.kind = "installing"
Installable == staged # None /\ staged > version
InFlight == check.at # "none"
Goes(c, at) == call' = [call EXCEPT ![c] = at]

--------------------------------------------------------------------------------
(* An install (installUpdate).                                                 *)

\* Where a call to install is after its first look at what is under way.
Entered == IF install.kind = "held" \/ Installing THEN "out" ELSE "look"
Asked(c) ==
    /\ Up /\ call[c] = "out" /\ Spend("calls", MaxCalls)
    /\ Goes(c, Entered)
    /\ UNCHANGED <<app, disk, state, install, check, hold, queueVars>>

\* The manifest on disk, not the state, says whether there is one.
LooksAt(c, from, to) ==
    /\ call[c] = from
    /\ IF Installable THEN Goes(c, to) /\ UNCHANGED state
       ELSE /\ Goes(c, "out")
            /\ state' = IF state = "ready" THEN "idle" ELSE state
    /\ UNCHANGED <<app, disk, install, check, hold, spent, queueVars>>
Look(c) == LooksAt(c, "look", "ask")

\* Another device is refused while the host is busy. A person is asked, who may
\* say no, and after whom everything is looked at again.
AskHost(c) ==
    /\ c \in Unattended /\ call[c] = "ask"
    /\ Goes(c, IF Pending # {} THEN "out" ELSE "last")
    /\ UNCHANGED <<app, disk, state, install, check, hold, spent, queueVars>>
AskPerson(c) ==
    /\ c \in Attended /\ call[c] = "ask"
    /\ \/ Goes(c, IF Installing THEN "out" ELSE "again")
       \/ Pending # {} /\ Goes(c, "out")
    /\ UNCHANGED <<app, disk, state, install, check, hold, spent, queueVars>>
LookAgain(c) == LooksAt(c, "again", "last")

\* What is armed is let go of by what takes its place.
LetGo == [c \in Calls |-> IF call[c] = "armed" THEN "out" ELSE call[c]]

\* Slip: nothing is looked at again once the answer is there.
HandOffAtOnce(c) ==
    /\ call[c] = "last"
    /\ call' = [LetGo EXCEPT ![c] = "handing"]
    /\ install' = [NoInstall EXCEPT !.kind = "installing"]
    /\ UNCHANGED <<app, disk, state, check, hold, spent, queueVars>>
\* A hold, or another path's install, that began while this waited.
HandOff(c) ==
    /\ call[c] = "last"
    /\ IF install.kind = "held" \/ Installing
       THEN Goes(c, "out") /\ UNCHANGED install
       ELSE /\ call' = [LetGo EXCEPT ![c] = "handing"]
            /\ install' = [NoInstall EXCEPT !.kind = "installing"]
    /\ UNCHANGED <<app, disk, state, check, hold, spent, queueVars>>

\* The installer is started, and the app quits a beat after; or it can't be.
HandedOff(c) ==
    /\ call[c] = "handing"
    /\ installer' = installer + 1
    /\ app' = "quitting"
    /\ Goes(c, "out")
    /\ UNCHANGED <<version, feed, staged, failed, stager, state, install, check, hold, spent,
                   queueVars>>
HandOffFails(c) ==
    /\ call[c] = "handing" /\ Spend("troubles", MaxTroubles)
    /\ install' = NoInstall
    /\ state' = "error"
    /\ Goes(c, "out")
    /\ UNCHANGED <<app, disk, check, hold, queueVars>>

--------------------------------------------------------------------------------
(* An update, staged or not (updateNow), and the checks (runCheck, stage).     *)

CheckFrom(shown) ==
    /\ check' = [NoCheck EXCEPT !.at = "asked", !.behind = shown = "ready"]
    /\ state' = IF shown = "ready" THEN shown ELSE "checking"

AsksUpdate(c) ==
    /\ Up /\ call[c] = "out" /\ Spend("calls", MaxCalls)
    /\ Goes(c, IF Entered = "look" THEN "update" ELSE "out")
    /\ UNCHANGED <<app, disk, state, install, check, hold, queueVars>>
\* What is staged is installed. With nothing staged, another device is refused
\* by a busy host now, while it waits for the answer.
Update(c) ==
    /\ call[c] = "update"
    /\ Goes(c, CASE Installable -> Entered
                 [] ~Installable /\ c \in Unattended /\ Pending # {} -> "out"
                 [] OTHER -> "arm")
    /\ UNCHANGED <<app, disk, state, install, check, hold, spent, queueVars>>
\* The install is left to the next check to finish.
Arm(c) ==
    /\ call[c] = "arm"
    /\ IF install.kind = "held" \/ Installing
       THEN Goes(c, "out") /\ UNCHANGED <<state, install, check>>
       ELSE /\ call' = [LetGo EXCEPT ![c] = "armed"]
            /\ install' = [kind |-> "armed", by |-> c, mid |-> InFlight]
            /\ IF InFlight THEN UNCHANGED <<state, check>> ELSE CheckFrom("checking")
    /\ UNCHANGED <<app, disk, hold, spent, queueVars>>

\* The periodic check, or one asked for.
Check ==
    /\ Up /\ install.kind # "held" /\ ~InFlight /\ Spend("calls", MaxCalls)
    /\ CheckFrom(state)
    /\ UNCHANGED <<app, disk, install, call, hold, queueVars>>

CheckGoes(at) == check' = [check EXCEPT !.at = at]
\* One stager at a time, the app or a terminal: the loser skips its turn.
CheckLocks ==
    /\ check.at = "asked"
    /\ IF stager = None THEN stager' = "app" /\ CheckGoes("locked")
       ELSE CheckGoes("skip") /\ UNCHANGED stager
    /\ UNCHANGED <<app, version, feed, staged, failed, installer, state, install, call, hold,
                   spent, queueVars>>
\* The feed's answer: nothing newer, which clears what is staged, what is staged
\* already, or a newer one, which is downloaded behind it.
CheckAnswered ==
    /\ check.at = "locked"
    /\ check' = [check EXCEPT !.target = feed,
                   !.at = IF feed = version \/ staged = feed THEN "done" ELSE "loading"]
    /\ staged' = IF feed = version THEN None ELSE staged
    /\ state' = IF feed # version /\ staged # feed /\ ~check.behind
                THEN "downloading" ELSE state
    /\ UNCHANGED <<app, version, feed, failed, stager, installer, install, call, hold, spent,
                   queueVars>>
\* Verified, it takes the place of the one before, and then its manifest is put in.
CheckClears ==
    /\ check.at = "loading"
    /\ staged' = None
    /\ CheckGoes("placing")
    /\ UNCHANGED <<app, version, feed, failed, stager, installer, state, install, call, hold,
                   spent, queueVars>>
CheckPlaces ==
    /\ check.at = "placing"
    /\ staged' = check.target
    /\ CheckGoes("done")
    /\ UNCHANGED <<app, version, feed, failed, stager, installer, state, install, call, hold,
                   spent, queueVars>>
\* The feed, the download, a check of it or the disk fails, or time is up.
CheckFails ==
    /\ check.at \in {"locked", "loading", "placing"} /\ Spend("troubles", MaxTroubles)
    /\ CheckGoes("failed")
    /\ UNCHANGED <<app, disk, state, install, call, hold, queueVars>>

\* What a check leaves the windows to see.
Found == CASE check.at = "done" -> IF check.target = version THEN "idle" ELSE "ready"
           [] check.at = "skip" -> IF check.behind THEN "ready" ELSE "idle"
           [] check.at = "failed" -> IF Installable THEN "ready" ELSE "error"
\* Slip: the lock outlives who held it.
LeftLocked == UNCHANGED stager
Unlocked == stager' = IF stager = "app" THEN None ELSE stager

\* Slip: a check that found nothing leaves what is armed to the next one.
CheckEndsArmed ==
    /\ check.at \in {"done", "skip", "failed"}
    /\ Unlocked
    /\ state' = Found /\ check' = NoCheck
    /\ IF install.kind = "armed" /\ Found = "ready"
       THEN install' = NoInstall /\ Goes(install.by, "look")
       ELSE UNCHANGED <<install, call>>
    /\ UNCHANGED <<app, version, feed, staged, failed, installer, hold, spent, queueVars>>
\* An update armed for it is installed, once it is there. One armed while this
\* check ran, which may have asked too early, has a check of its own.
CheckEnds ==
    /\ check.at \in {"done", "skip", "failed"}
    /\ Unlocked
    /\ IF install.kind = "armed" /\ install.mid /\ Found # "ready"
       THEN /\ install' = [install EXCEPT !.mid = FALSE]
            /\ CheckFrom(Found)
            /\ UNCHANGED call
       ELSE /\ state' = Found /\ check' = NoCheck
            /\ IF install.kind # "armed" THEN UNCHANGED <<install, call>>
               ELSE /\ install' = NoInstall
                    /\ Goes(install.by, IF Found = "ready" THEN "look" ELSE "out")
    /\ UNCHANGED <<app, version, feed, staged, failed, installer, hold, spent, queueVars>>

--------------------------------------------------------------------------------
(* A move or a reset of the data folder (hold, resume).                        *)

Hold(h) ==
    /\ Up /\ hold[h] = "out" /\ Spend("holds", MaxHolds)
    /\ IF Installing THEN UNCHANGED <<install, call, hold>>
       ELSE /\ install' = [NoInstall EXCEPT !.kind = "held"]
            /\ call' = LetGo
            /\ hold' = [hold EXCEPT ![h] = "clearing"]
    /\ UNCHANGED <<app, disk, state, check, queueVars>>
\* Slip: a check under way is left to end by itself.
HoldUncleared(h) ==
    /\ hold[h] = "clearing"
    /\ state' = IF state \in {"checking", "downloading"} THEN "idle" ELSE state
    /\ hold' = [hold EXCEPT ![h] = "held"]
    /\ UNCHANGED <<app, disk, install, check, call, spent, queueVars>>
\* The check under way is ended, and its lock goes with it.
HoldClears(h) ==
    /\ hold[h] = "clearing"
    /\ check' = NoCheck /\ Unlocked
    /\ state' = IF state \in {"checking", "downloading"} THEN "idle" ELSE state
    /\ hold' = [hold EXCEPT ![h] = "held"]
    /\ UNCHANGED <<app, version, feed, staged, failed, installer, install, call, spent, queueVars>>
\* A move that failed before the folder moved; a reset ends with a restart.
Resume(h) ==
    /\ h = "move" /\ hold[h] = "held"
    /\ hold' = [hold EXCEPT ![h] = "out"]
    /\ install' = IF install.kind = "held" THEN NoInstall ELSE install
    /\ UNCHANGED <<app, disk, state, check, call, spent, queueVars>>

--------------------------------------------------------------------------------
(* The app's end and start, the installer and the terminal.                    *)

NewMachine ==
    /\ install' = NoInstall /\ check' = NoCheck
    /\ call' = [c \in Calls |-> "out"] /\ hold' = [h \in Holders |-> "out"]
\* The app starts, and what is staged shows, or the failure an installer left a
\* note of, where it could write one.
Starts(after) ==
    /\ app' = "up" /\ failed' = FALSE
    /\ state' \in {IF staged' # None /\ staged' > version' THEN "ready" ELSE "idle"}
                  \cup IF after THEN {"error"} ELSE {}

\* The app's quit for an install, a person's, or a crash.
Quits ==
    /\ Up
    /\ \/ app = "quitting" /\ UNCHANGED spent
       \/ app = "up" /\ Spend("calls", MaxCalls)
    /\ app' = "down" /\ state' = "idle"
    /\ NewMachine /\ Unlocked /\ QueueDies
    /\ UNCHANGED <<version, feed, staged, failed, installer>>
\* The restart a moved or reset folder ends with.
Restarts ==
    /\ Up /\ \E h \in Holders : hold[h] = "held"
    /\ UNCHANGED <<version, feed, staged, installer, spent>>
    /\ NewMachine /\ Unlocked /\ QueueDies /\ Starts(failed)
\* A person opens it.
Opens ==
    /\ app = "down" /\ installer = 0
    /\ UNCHANGED <<version, feed, staged, stager, installer>>
    /\ Starts(failed)
    /\ UNCHANGED <<install, check, call, hold, spent, queueVars>>

\* The installer, once the app is gone and the staging lock free: what is staged
\* then is swapped in, and the app opened; with nothing staged, the one that quit is.
Finishes ==
    /\ installer > 0 /\ app = "down" /\ stager = None
    /\ installer' = installer - 1
    /\ staged' = None /\ version' = IF staged # None THEN staged ELSE version
    /\ Starts(staged = None)
    /\ UNCHANGED <<feed, stager, install, check, call, hold, spent, queueVars>>
\* It finds no bundle of its own or sees no exit in time; the lock is not free in
\* time or the swap fails, and the app that quit is opened, or cannot be; or what was
\* swapped in cannot be opened.
InstallerFails ==
    /\ installer > 0 /\ Spend("troubles", MaxTroubles)
    /\ installer' = installer - 1
    /\ \/ failed' = TRUE /\ UNCHANGED <<app, version, staged, state>>
       \/ app = "down" /\ UNCHANGED <<version, staged>> /\ Starts(TRUE)
       \/ /\ app = "down" /\ stager = None /\ staged # None
          /\ version' = staged /\ staged' = None /\ failed' = TRUE
          /\ UNCHANGED <<app, state>>
    /\ UNCHANGED <<feed, stager, install, check, call, hold, queueVars>>

Releases ==
    /\ feed < MaxRelease /\ feed' = feed + 1
    /\ UNCHANGED <<app, version, staged, failed, stager, installer, machine, spent,
                   queueVars>>
\* A terminal's own run stages, or clears, under the lock, and with the app not
\* running swaps what it staged in itself.
TerminalLocks ==
    /\ stager = None /\ stager' = "terminal" /\ Spend("troubles", MaxTroubles)
    /\ UNCHANGED <<app, version, feed, staged, failed, installer, machine, queueVars>>
TerminalClears ==
    /\ stager = "terminal" /\ staged' = None /\ staged # None
    /\ UNCHANGED <<app, version, feed, failed, stager, installer, machine, spent, queueVars>>
TerminalEnds ==
    /\ stager = "terminal" /\ stager' = None
    /\ \/ /\ staged' \in {staged} \cup IF feed > version THEN {feed} ELSE {}
          /\ UNCHANGED version
       \/ /\ app = "down" /\ feed > version
          /\ version' = feed /\ staged' = None
    /\ UNCHANGED <<app, feed, failed, installer, machine, spent, queueVars>>

--------------------------------------------------------------------------------
Init ==
    /\ app = "up" /\ version = 0 /\ feed = 0 /\ staged = None /\ stager = None
    /\ failed = FALSE /\ installer = 0 /\ state = "idle" /\ install = NoInstall /\ check = NoCheck
    /\ call = [c \in Calls |-> "out"] /\ hold = [h \in Holders |-> "out"]
    /\ spent = [calls |-> 0, holds |-> 0, troubles |-> 0]
    /\ QueueInit

CheckStep == CheckLocks \/ CheckAnswered \/ CheckClears \/ CheckPlaces \/ CheckEnds
CallStep(c) == \/ Look(c) \/ AskHost(c) \/ LookAgain(c) \/ HandOff(c) \/ HandedOff(c)
               \/ Update(c) \/ Arm(c)
HostStep == Up /\ QueueNext /\ UNCHANGED <<app, disk, machine, spent>>
\* Nothing is under way.
Rest == /\ app = "up" /\ ~InFlight /\ installer = 0 /\ stager = None /\ Free
        /\ install.kind = "none" /\ \A c \in Calls : call[c] = "out"
        /\ \A h \in Holders : hold[h] = "out"
        /\ UNCHANGED vars
Next ==
    \/ Rest
    \/ CheckStep \/ CheckFails \/ Check
    \/ \E c \in Calls : \/ CallStep(c) \/ Asked(c) \/ AsksUpdate(c)
                        \/ AskPerson(c) \/ HandOffFails(c)
    \/ \E h \in Holders : Hold(h) \/ HoldClears(h) \/ Resume(h)
    \/ Quits \/ Restarts \/ Opens \/ Finishes \/ InstallerFails
    \/ Releases \/ TerminalLocks \/ TerminalClears \/ TerminalEnds
    \/ HostStep

Spec == Init /\ [][Next]_vars
\* A check goes on or is out of time, a queue's fibers run, the app quits once it
\* said so, and the installer and a terminal's run end.
FairSpec ==
    /\ Spec
    /\ WF_vars(CheckStep) /\ WF_vars(app = "quitting" /\ Quits)
    /\ WF_vars(Finishes) /\ WF_vars(TerminalEnds)
    /\ WF_vars(Up /\ QueueGoes /\ UNCHANGED <<app, disk, machine, spent>>)

--------------------------------------------------------------------------------
TypeOK ==
    /\ QueueTypeOK
    /\ app \in {"up", "quitting", "down"}
    /\ version \in 0..MaxRelease /\ feed \in version..MaxRelease
    /\ staged \in 1..MaxRelease \cup {None}
    /\ stager \in {"app", "terminal", None} /\ installer \in Nat
    /\ failed \in BOOLEAN /\ (failed => app # "up")
    /\ state \in {"idle", "checking", "downloading", "ready", "error"}
    /\ install.kind = "armed" => call[install.by] = "armed"
    /\ InFlight => Up /\ check.target <= feed
    /\ stager = "app" => check.at \in {"locked", "loading", "placing", "done", "failed"}

\* The app never has two installs of one update: one hand-off at a time, and one
\* installer waiting for its exit.
OneInstall ==
    /\ \A b, c \in Calls : call[b] = "handing" /\ call[c] = "handing" => b = c
    /\ installer + (IF \E c \in Calls : call[c] = "handing" THEN 1 ELSE 0) <= 1

\* While the data folder is moved or reset, once the updater said it let go,
\* nothing is staged there and no install restarts the app out of it.
HoldStands ==
    \A h \in Holders : hold[h] = "held" =>
        /\ install.kind = "held" /\ ~InFlight
        /\ installer = 0 /\ \A c \in Calls : call[c] # "handing"

\* An app that quit for an update comes back, whatever became of the update: it
\* stays away only where its installer failed, for its next start to say.
ComesBack == app = "quitting" ~> app = "up" \/ failed

\* An update asked for before it was here is installed or let go of: no check
\* leaves it armed, to restart the app out of nowhere later.
ArmEnds == install.kind = "armed" ~> install.kind # "armed"

\* An update that was asked for comes to an end: the app is back, or was failed by
\* its installer, and none is armed.
UpdateEnds == ComesBack /\ ArmEnds
================================================================================
