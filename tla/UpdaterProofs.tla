----------------------------- MODULE UpdaterProofs -----------------------------
(* What is proved of the updater and of the queue of moves its host is busy    *)
(* with, for any calls, holders, sources, devices and bounds.                  *)
EXTENDS Updater, TLAPS

--------------------------------------------------------------------------------
(* The queue of moves.                                                         *)

\* An entry and the run of its source are of each other.
Listed(entry, run, stop) ==
    /\ run # Nobody => \/ entry # Nobody /\ entry.status = "running" /\ entry.n = run
                       \/ entry = Nobody /\ stop
    /\ entry # Nobody /\ entry.status = "running" => run # Nobody \/ stop
LEMMA ListedIs == RunsAreListed <=> \A s \in Sources : Listed(held[s], runs[s], s \in stopped)
BY DEF RunsAreListed, Listed, Status

\* A queueing knows its device.
LockInv == Held("queue") => lock.on \in Devices
QInv == QueueTypeOK /\ RunsAreListed /\ LockInv

LEMMA QueueStarts == QueueInit => QInv
BY QueueAssumption DEF QueueInit, NoQueue, QInv, QueueTypeOK, RunsAreListed, LockInv,
   Held, Status

LEMMA QueueEnds == QInv /\ QueueDies => QInv'
BY QueueAssumption DEF QueueDies, QInv, QueueTypeOK, RunsAreListed, LockInv, Held, Status

LEMMA QueueStays == QInv /\ UNCHANGED queueVars => QInv'
BY DEF queueVars, QInv, QueueTypeOK, RunsAreListed, LockInv, Held, Status

\* What an entry that is started or not, and its fiber, are after.
LEMMA StartedKeeps ==
    ASSUME NEW those \in SUBSET Sources,
           NEW entries \in [Sources -> Entries \cup {Nobody}],
           runs \in [Sources -> Nat \cup {Nobody}],
           Started(entries, runs, those),
           NEW s \in Sources, NEW stop \in BOOLEAN,
           Listed(entries[s], runs[s], stop)
    PROVE  /\ held'[s] \in Entries \cup {Nobody}
           /\ runs'[s] \in Nat \cup {Nobody}
           /\ Listed(held'[s], runs'[s], stop)
<1>0. Nobody \notin Nat  BY QueueAssumption
<1> DEFINE begins == s \in those /\ entries[s] # Nobody /\ entries[s].status = "waiting"
<1>1. held'[s] = IF begins THEN [entries[s] EXCEPT !.status = "running"] ELSE entries[s]
  BY DEF Started
<1>2. runs'[s] = IF begins THEN entries[s].n ELSE runs[s]
  BY DEF Started
<1>3. entries[s] # Nobody => entries[s] \in Entries
  OBVIOUS
<1>4. CASE begins
  <2>1. entries[s] \in Entries  BY <1>3, <1>4
  <2>2. /\ held'[s] \in Entries /\ held'[s].status = "running"
        /\ held'[s].n = entries[s].n /\ runs'[s] = entries[s].n /\ entries[s].n \in Nat
    BY <1>1, <1>2, <1>4, <2>1 DEF Entries
  <2>3. held'[s] # Nobody
    BY <2>2, NobodyAssumption
  <2>. QED  BY <1>0, <2>2, <2>3 DEF Listed
<1>5. CASE ~begins
  BY <1>1, <1>2, <1>5
<1>. QED  BY <1>4, <1>5

LEMMA QueueSteps == QInv /\ QueueNext => QInv'
<1> SUFFICES ASSUME QInv, QueueNext PROVE QInv'
  OBVIOUS
<1> USE QueueAssumption, NobodyAssumption
<1>1. ASSUME NEW s \in Sources, NEW d \in Devices, Queue(s, d) PROVE QInv'
  <2>1. /\ lock' \in Locks /\ lock' # Nobody
        /\ lock'.of = s /\ lock'.does = "queue" /\ lock'.on = d
    BY <1>1 DEF Queue, Locks
  <2>2. stopped \subseteq stopped' /\ stopped' \subseteq Sources
    BY <1>1 DEF Queue, Interrupted, QInv, QueueTypeOK
  <2>3. QueueTypeOK'
    BY <1>1, <2>1, <2>2 DEF Queue, QInv, QueueTypeOK
  <2>4. RunsAreListed'
    BY <1>1, <2>2 DEF Queue, QInv, RunsAreListed, Status
  <2>. QED
    BY <2>1, <2>3, <2>4 DEF QInv, LockInv, Held
<1>2. CASE Queued
  <2> DEFINE u == lock.of
             put == [held EXCEPT ![u] = [n |-> queued, on |-> lock.on, status |-> "waiting"]]
             those == IF lock.on \in admitted THEN {u} ELSE {}
  <2>1. u \in Sources /\ those \in SUBSET Sources
    BY <1>2 DEF Queued, QInv, QueueTypeOK, Held, Locks
  <2>2. queued \in Nat /\ lock.on \in Devices
    BY <1>2 DEF Queued, QInv, QueueTypeOK, LockInv, Held
  <2>3. /\ put \in [Sources -> Entries \cup {Nobody}]
        /\ put[u] # Nobody /\ put[u].status = "waiting"
        /\ \A s \in Sources \ {u} : put[s] = held[s]
    BY <2>1, <2>2 DEF QInv, QueueTypeOK, Entries
  <2>4. runs[u] = Nobody /\ stopped' = stopped \ {u}
    BY <1>2 DEF Queued
  <2>5. \A s \in Sources :
          /\ held'[s] \in Entries \cup {Nobody} /\ runs'[s] \in Nat \cup {Nobody}
          /\ Listed(held'[s], runs'[s], s \in stopped')
    <3> SUFFICES ASSUME NEW s \in Sources
                 PROVE /\ held'[s] \in Entries \cup {Nobody}
                       /\ runs'[s] \in Nat \cup {Nobody}
                       /\ Listed(held'[s], runs'[s], s \in stopped')
      OBVIOUS
    <3>1. Listed(put[s], runs[s], s \in stopped')
      <4>1. CASE s = u
        BY <2>3, <2>4, <4>1 DEF Listed
      <4>2. CASE s # u
        <5>1. put[s] = held[s] /\ (s \in stopped' <=> s \in stopped)
          BY <2>3, <2>4, <4>2
        <5>2. Listed(held[s], runs[s], s \in stopped)
          BY ListedIs DEF QInv
        <5> HIDE DEF put
        <5>. QED  BY <5>1, <5>2 DEF Listed
      <4>. QED  BY <4>1, <4>2
    <3>2. Started(put, runs, those)
      BY <1>2 DEF Queued
    <3>3. runs \in [Sources -> Nat \cup {Nobody}]
      BY DEF QInv, QueueTypeOK
    <3> DEFINE stop == s \in stopped'
    <3>4. stop \in BOOLEAN /\ Listed(put[s], runs[s], stop)
      BY <3>1
    <3> HIDE DEF put, those, stop
    <3>5. /\ held'[s] \in Entries \cup {Nobody} /\ runs'[s] \in Nat \cup {Nobody}
          /\ Listed(held'[s], runs'[s], stop)
      BY <3>2, <3>3, <3>4, <2>1, <2>3, StartedKeeps
    <3>. QED  BY <3>5 DEF stop
  <2>6. QueueTypeOK'
    BY <1>2, <2>4, <2>5 DEF Queued, Started, QInv, QueueTypeOK
  <2>7. RunsAreListed'
    BY <2>5 DEF RunsAreListed, Listed, Status
  <2>. QED
    BY <1>2, <2>6, <2>7 DEF Queued, QInv, LockInv, Held
<1>3. ASSUME NEW s \in Sources, Drop(s) PROVE QInv'
  <2>1. lock' \in Locks /\ lock' # Nobody /\ lock'.of = s /\ lock'.does = "drop"
    BY <1>3 DEF Drop, Locks
  <2>2. held' \in [Sources -> Entries \cup {Nobody}] /\ held'[s] = Nobody
    BY <1>3 DEF Drop, QInv, QueueTypeOK
  <2>3. /\ stopped \subseteq stopped' /\ stopped' \subseteq Sources
        /\ runs[s] # Nobody => s \in stopped'
    BY <1>3 DEF Drop, Interrupted, QInv, QueueTypeOK
  <2>4. QueueTypeOK'
    BY <1>3, <2>1, <2>2, <2>3 DEF Drop, QInv, QueueTypeOK
  <2>5. runs' = runs /\ \A r \in Sources \ {s} : held'[r] = held[r]
    BY <1>3 DEF Drop, QInv, QueueTypeOK
  <2>6. RunsAreListed'
    BY <2>2, <2>3, <2>5 DEF QInv, RunsAreListed, Status
  <2>. QED
    BY <2>1, <2>4, <2>6 DEF QInv, LockInv, Held
<1>4. CASE Dropped \/ CutShort
  <2>1. lock' = Nobody /\ UNCHANGED <<held, runs, stopped, admitted, comings, queued, came>>
    BY <1>4 DEF Dropped, CutShort
  <2>. QED
    BY <2>1 DEF QInv, QueueTypeOK, RunsAreListed, LockInv, Held, Status
<1>5. ASSUME NEW s \in Sources, RunEnds(s) PROVE QInv'
  <2>1. /\ runs' \in [Sources -> Nat \cup {Nobody}] /\ runs'[s] = Nobody
        /\ \A r \in Sources \ {s} : runs'[r] = runs[r]
    BY <1>5 DEF RunEnds, QInv, QueueTypeOK
  <2>2. /\ held' \in [Sources -> Entries \cup {Nobody}]
        /\ \A r \in Sources \ {s} : held'[r] = held[r]
        /\ \/ held'[s] = Nobody \/ held'[s].status = "ended"
           \/ s \in stopped'
    BY <1>5 DEF RunEnds, QInv, QueueTypeOK, Entries
  <2>3. stopped' \subseteq Sources /\ \A r \in Sources \ {s} : r \in stopped => r \in stopped'
    BY <1>5 DEF RunEnds, QInv, QueueTypeOK
  <2>4. UNCHANGED <<lock, admitted, comings, queued, came>>
    BY <1>5 DEF RunEnds
  <2>5. QueueTypeOK'
    BY <2>1, <2>2, <2>3, <2>4 DEF QInv, QueueTypeOK
  <2>6. RunsAreListed'
    BY <2>1, <2>2, <2>3 DEF QInv, RunsAreListed, Status
  <2>. QED  BY <2>4, <2>5, <2>6 DEF QInv, LockInv, Held
<1>6. ASSUME NEW d \in Devices, Comes(d) \/ Leaves(d) PROVE QInv'
  <2>1. comings' \in Seq(Devices) /\ admitted' \subseteq Devices
    <3>1. comings \in Seq(Devices) /\ admitted \subseteq Devices
      BY DEF QInv, QueueTypeOK
    <3>2. comings' = Append(comings, d) \/ comings' = comings
      BY <1>6 DEF Comes, Leaves
    <3>3. admitted' \subseteq admitted \cup {d}
      BY <1>6 DEF Comes, Leaves
    <3>. QED  BY <3>1, <3>2, <3>3
  <2>2. came' \in 0..MaxComings /\ queued' \in 0..MaxQueued
    BY <1>6 DEF Comes, Leaves, QInv, QueueTypeOK
  <2>3. UNCHANGED <<held, runs, stopped, lock>>
    BY <1>6 DEF Comes, Leaves
  <2>. QED
    BY <2>1, <2>2, <2>3 DEF QInv, QueueTypeOK, RunsAreListed, LockInv, Held, Status
<1>7. CASE Admit
  <2> DEFINE those == {s \in Sources : held[s] # Nobody /\ held[s].on = Head(comings)}
  <2>1. \A s \in Sources :
          /\ held'[s] \in Entries \cup {Nobody} /\ runs'[s] \in Nat \cup {Nobody}
          /\ Listed(held'[s], runs'[s], s \in stopped)
    <3> SUFFICES ASSUME NEW s \in Sources
                 PROVE /\ held'[s] \in Entries \cup {Nobody}
                       /\ runs'[s] \in Nat \cup {Nobody}
                       /\ Listed(held'[s], runs'[s], s \in stopped)
      OBVIOUS
    <3>1. Listed(held[s], runs[s], s \in stopped)
      BY ListedIs DEF QInv
    <3>2. Started(held, runs, those)
      BY <1>7 DEF Admit
    <3>3. (s \in stopped) \in BOOLEAN
      OBVIOUS
    <3>. QED  BY <3>1, <3>2, <3>3, StartedKeeps DEF QInv, QueueTypeOK
  <2>2. comings' \in Seq(Devices) /\ stopped' = stopped
    BY <1>7 DEF Admit, QInv, QueueTypeOK
  <2>3. QueueTypeOK'
    BY <1>7, <2>1, <2>2 DEF Admit, Started, QInv, QueueTypeOK
  <2>4. RunsAreListed'
    BY <2>1, <2>2 DEF RunsAreListed, Listed, Status
  <2>. QED
    BY <1>7, <2>3, <2>4 DEF Admit, QInv, LockInv, Held
<1>. QED
  BY <1>1, <1>2, <1>3, <1>4, <1>5, <1>6, <1>7 DEF QueueNext, QueueGoes

LEMMA QueueDiesOrNot ==
    ASSUME QInv, QueueDies \/ HostStep \/ UNCHANGED queueVars
    PROVE  QInv'
BY QueueSteps, QueueEnds, QueueStays DEF HostStep

--------------------------------------------------------------------------------
(* The updater.                                                                *)

Installs == [kind : {"none", "held", "installing", "armed"}, by : Calls \cup {None},
             mid : BOOLEAN]
Checks == [at : {"none", "asked", "locked", "skip", "loading", "placing", "done", "failed"},
           behind : BOOLEAN, target : 0..MaxRelease]
CallSteps == {"out", "look", "ask", "again", "last", "handing", "update", "arm", "armed"}

\* The types the steps need, and what a call, a check and a hold need of the app.
Types ==
    /\ app \in {"up", "quitting", "down"}
    /\ version \in 0..MaxRelease /\ feed \in version..MaxRelease
    /\ staged \in 1..MaxRelease \cup {None} /\ (staged # None => staged <= feed)
    /\ stager \in {"app", "terminal", None} /\ installer \in Nat
    /\ failed \in BOOLEAN /\ (failed => app # "up")
    /\ state \in {"idle", "checking", "downloading", "ready", "error"}
    /\ install \in Installs /\ check \in Checks /\ call \in [Calls -> CallSteps]
    /\ hold \in [Holders -> {"out", "clearing", "held"}]
CheckInv ==
    /\ InFlight => Up /\ check.target <= feed
    /\ check.at \in {"loading", "placing"} => check.target > 0
    /\ stager = "app" => check.at \in {"locked", "loading", "placing", "done", "failed"}
ArmInv == install.kind = "armed" => install.by \in Calls /\ call[install.by] = "armed"
\* A call is of an app that is up.
UpInv == app = "down" => /\ install.kind = "none"
                         /\ \A c \in Calls : call[c] = "out"
                         /\ \A h \in Holders : hold[h] = "out"
\* A hand-off and an installer are of the one install.
InstallInv ==
    /\ \A c \in Calls : call[c] = "handing" => Installing /\ installer = 0
    /\ \A b, c \in Calls : call[b] = "handing" /\ call[c] = "handing" => b = c
    /\ installer > 0 => installer = 1 /\ ((Installing /\ app = "quitting") \/ app = "down")
HoldInv ==
    \A h \in Holders : hold[h] # "out" =>
        install.kind = "held" /\ (hold[h] = "held" => ~InFlight)
\* Nothing lets go of a hold that another still has.
OneHolder == \A g, h \in Holders : g = h
LEMMA NothingTypes == NoInstall \in Installs /\ NoCheck \in Checks
BY UpdaterAssumption DEF NoInstall, NoCheck, Installs, Checks

\* What is armed is let go of, and no other call's step changes.
LEMMA LetGoTypes ==
    ASSUME call \in [Calls -> CallSteps]
    PROVE  /\ LetGo \in [Calls -> CallSteps]
           /\ \A c \in Calls : LetGo[c] \in {call[c], "out"}
BY DEF LetGo, CallSteps

LEMMA CheckFromTypes ==
    ASSUME NEW shown \in {"idle", "checking", "downloading", "ready", "error"},
           CheckFrom(shown)
    PROVE  /\ check' \in Checks /\ check'.at = "asked" /\ check'.target = 0
           /\ state' \in {"ready", "checking"}
<1>1. 0 \in 0..MaxRelease
  BY UpdaterAssumption
<1>2. CASE shown = "ready"
  <2>1. check' = [at |-> "asked", behind |-> TRUE, target |-> 0] /\ state' = "ready"
    BY <1>2, Zenon DEF CheckFrom, NoCheck
  <2>. QED  BY <1>1, <2>1 DEF Checks
<1>3. CASE shown # "ready"
  <2>1. check' = [at |-> "asked", behind |-> FALSE, target |-> 0] /\ state' = "checking"
    BY <1>3, Zenon DEF CheckFrom, NoCheck
  <2>. QED  BY <1>1, <2>1 DEF Checks
<1>. QED  BY <1>2, <1>3

IInv == Types /\ CheckInv /\ ArmInv /\ UpInv /\ InstallInv /\ HoldInv

LEMMA AskedKeeps ==
    ASSUME IInv, NEW c \in Calls, Asked(c) PROVE IInv'
BY UpdaterAssumption DEF IInv, Types, CheckInv, ArmInv, UpInv, InstallInv, HoldInv, Installing, InFlight,
   Installs, Checks, CallSteps, Up, disk, machine, Asked, Entered, Goes, Spend

LEMMA LookKeeps ==
    ASSUME IInv, NEW c \in Calls, Look(c) PROVE IInv'
BY UpdaterAssumption DEF IInv, Types, CheckInv, ArmInv, UpInv, InstallInv, HoldInv, Installing, InFlight,
   Installs, Checks, CallSteps, Up, disk, machine, Look, LooksAt, Goes

LEMMA AskHostKeeps ==
    ASSUME IInv, NEW c \in Calls, AskHost(c) PROVE IInv'
BY UpdaterAssumption DEF IInv, Types, CheckInv, ArmInv, UpInv, InstallInv, HoldInv, Installing, InFlight,
   Installs, Checks, CallSteps, Up, disk, machine, AskHost, Goes

LEMMA AskPersonKeeps ==
    ASSUME IInv, NEW c \in Calls, AskPerson(c) PROVE IInv'
BY UpdaterAssumption DEF IInv, Types, CheckInv, ArmInv, UpInv, InstallInv, HoldInv, Installing, InFlight,
   Installs, Checks, CallSteps, Up, disk, machine, AskPerson, Goes

LEMMA LookAgainKeeps ==
    ASSUME IInv, NEW c \in Calls, LookAgain(c) PROVE IInv'
BY UpdaterAssumption DEF IInv, Types, CheckInv, ArmInv, UpInv, InstallInv, HoldInv, Installing, InFlight,
   Installs, Checks, CallSteps, Up, disk, machine, LookAgain, LooksAt, Goes

LEMMA HandOffKeeps ==
    ASSUME IInv, NEW c \in Calls, HandOff(c) PROVE IInv'
<1>1. UNCHANGED <<app, disk, state, check, hold>> /\ call[c] = "last"
  BY DEF HandOff
<1>2. CASE install.kind = "held" \/ Installing
  BY <1>1, <1>2
  DEF HandOff, Goes, IInv, Types, CheckInv, ArmInv, UpInv, InstallInv, HoldInv, Installing,
      InFlight, CallSteps, Up, disk
<1>3. CASE ~(install.kind = "held" \/ Installing)
  <2>1. /\ call' \in [Calls -> CallSteps] /\ call'[c] = "handing"
        /\ \A b \in Calls \ {c} : call'[b] \in {call[b], "out"}
    BY <1>3, LetGoTypes DEF HandOff, IInv, Types, CallSteps
  <2>2. install' \in Installs /\ install'.kind = "installing"
    BY <1>3, NothingTypes DEF HandOff, NoInstall, Installs
  <2>3. Types' /\ CheckInv' /\ ArmInv'
    BY <1>1, <2>1, <2>2 DEF IInv, Types, CheckInv, ArmInv, InFlight, Up, disk
  <2>4. UpInv'
    BY <1>1 DEF IInv, Types, UpInv
  <2>5. InstallInv'
    BY <1>1, <1>3, <2>1, <2>2 DEF IInv, Types, UpInv, InstallInv, Installing, disk
  <2>6. HoldInv'
    BY <1>1, <1>3, <2>2 DEF IInv, Types, HoldInv, InFlight
  <2>. QED  BY <2>3, <2>4, <2>5, <2>6 DEF IInv
<1>. QED  BY <1>2, <1>3

LEMMA HandedOffKeeps ==
    ASSUME IInv, NEW c \in Calls, HandedOff(c) PROVE IInv'
BY UpdaterAssumption DEF IInv, Types, CheckInv, ArmInv, UpInv, InstallInv, HoldInv, Installing, InFlight,
   Installs, Checks, CallSteps, Up, disk, machine, HandedOff, Goes

LEMMA HandOffFailsKeeps ==
    ASSUME IInv, NEW c \in Calls, HandOffFails(c) PROVE IInv'
BY UpdaterAssumption DEF IInv, Types, CheckInv, ArmInv, UpInv, InstallInv, HoldInv, Installing, InFlight,
   Installs, Checks, CallSteps, Up, disk, machine, HandOffFails, Goes, NoInstall, Spend

LEMMA AsksUpdateKeeps ==
    ASSUME IInv, NEW c \in Calls, AsksUpdate(c) PROVE IInv'
BY UpdaterAssumption DEF IInv, Types, CheckInv, ArmInv, UpInv, InstallInv, HoldInv, Installing, InFlight,
   Installs, Checks, CallSteps, Up, disk, machine, AsksUpdate, Entered, Goes, Spend

LEMMA UpdateKeeps ==
    ASSUME IInv, NEW c \in Calls, Update(c) PROVE IInv'
BY UpdaterAssumption DEF IInv, Types, CheckInv, ArmInv, UpInv, InstallInv, HoldInv, Installing, InFlight,
   Installs, Checks, CallSteps, Up, disk, machine, Update, Entered, Goes

LEMMA ArmKeeps ==
    ASSUME IInv, NEW c \in Calls, Arm(c) PROVE IInv'
<1>1. UNCHANGED <<app, disk, hold>> /\ call[c] = "arm"
  BY DEF Arm
<1>2. CASE install.kind = "held" \/ Installing
  BY <1>1, <1>2
  DEF Arm, Goes, IInv, Types, CheckInv, ArmInv, UpInv, InstallInv, HoldInv, Installing,
      InFlight, CallSteps, Up, disk
<1>3. CASE ~(install.kind = "held" \/ Installing)
  <2>1. /\ call' \in [Calls -> CallSteps] /\ call'[c] = "armed"
        /\ \A b \in Calls \ {c} : call'[b] \in {call[b], "out"}
    BY <1>3, LetGoTypes DEF Arm, IInv, Types, CallSteps
  <2>2. install' \in Installs /\ install'.kind = "armed" /\ install'.by = c
    <3>1. install' = [kind |-> "armed", by |-> c, mid |-> InFlight]
      BY <1>3 DEF Arm
    <3>2. InFlight \in BOOLEAN
      BY DEF InFlight
    <3>. QED  BY <3>1, <3>2, Zenon DEF Installs
  <2>3. \/ UNCHANGED <<state, check>>
        \/ /\ check' \in Checks /\ check'.at = "asked" /\ check'.target = 0
           /\ state' \in {"ready", "checking"} /\ ~InFlight
    BY <1>3, CheckFromTypes DEF Arm
  <2>4. Up
    BY <1>1 DEF IInv, UpInv, Up
  <2>5. Types'
    BY <1>1, <2>1, <2>2, <2>3 DEF IInv, Types, disk
  <2>6. CheckInv'
    BY <1>1, <2>3, <2>4 DEF IInv, Types, CheckInv, InFlight, Up, disk
  <2>7. ArmInv' /\ UpInv'
    BY <1>1, <2>1, <2>2, <2>4 DEF ArmInv, UpInv, Up
  <2>8. InstallInv'
    BY <1>1, <1>3, <2>1, <2>2, <2>4 DEF IInv, Types, InstallInv, Installing, Up, disk
  <2>9. HoldInv'
    BY <1>1, <1>3 DEF IInv, Types, HoldInv
  <2>. QED  BY <2>5, <2>6, <2>7, <2>8, <2>9 DEF IInv
<1>. QED  BY <1>2, <1>3

LEMMA CheckKeeps == IInv /\ Check => IInv'
<1> SUFFICES ASSUME IInv, Check PROVE IInv'
  OBVIOUS
<1>1. UNCHANGED <<app, disk, install, call, hold>> /\ Up /\ install.kind # "held" /\ ~InFlight
  BY DEF Check
<1>2. /\ check' \in Checks /\ check'.at = "asked" /\ check'.target = 0
      /\ state' \in {"ready", "checking"}
  BY CheckFromTypes DEF Check, IInv, Types
<1>3. Types'
  BY <1>1, <1>2 DEF IInv, Types, disk
<1>4. CheckInv'
  BY <1>1, <1>2 DEF IInv, Types, CheckInv, InFlight, Up, disk
<1>5. ArmInv' /\ UpInv' /\ InstallInv' /\ HoldInv'
  BY <1>1 DEF IInv, ArmInv, UpInv, InstallInv, HoldInv, Installing, disk
<1>. QED  BY <1>3, <1>4, <1>5 DEF IInv

LEMMA CheckLocksKeeps == IInv /\ CheckLocks => IInv'
BY UpdaterAssumption DEF IInv, Types, CheckInv, ArmInv, UpInv, InstallInv, HoldInv, Installing, InFlight,
   Installs, Checks, CallSteps, Up, disk, machine, CheckLocks, CheckGoes

LEMMA CheckAnsweredKeeps == IInv /\ CheckAnswered => IInv'
<1> SUFFICES ASSUME IInv, CheckAnswered PROVE IInv'
  OBVIOUS
<1>1. /\ UNCHANGED <<app, version, feed, failed, stager, installer, install, call, hold>>
      /\ check.at = "locked"
  BY DEF CheckAnswered
<1>2. /\ check' \in Checks /\ check'.target = feed /\ check'.at \in {"done", "loading"}
      /\ check'.at = "loading" => feed > 0
  <2> DEFINE at == IF feed = version \/ staged = feed THEN "done" ELSE "loading"
  <2>1. check' = [check EXCEPT !.target = feed, !.at = at]
    BY DEF CheckAnswered
  <2>2. feed \in 0..MaxRelease /\ (at = "loading" => feed > 0) /\ at \in {"done", "loading"}
    BY UpdaterAssumption DEF IInv, Types
  <2> HIDE DEF at
  <2>. QED  BY <2>1, <2>2 DEF IInv, Types, Checks
<1>3. /\ staged' \in {staged, None}
      /\ state' \in {state, "downloading"}
  BY DEF CheckAnswered
<1>4. Types'
  BY <1>1, <1>2, <1>3 DEF IInv, Types
<1>5. CheckInv'
  BY <1>1, <1>2 DEF IInv, Types, CheckInv, InFlight, Up
<1>6. ArmInv' /\ UpInv' /\ InstallInv'
  BY <1>1 DEF IInv, ArmInv, UpInv, InstallInv, Installing
<1>7. HoldInv'
  BY <1>1 DEF IInv, HoldInv, InFlight
<1>. QED  BY <1>4, <1>5, <1>6, <1>7 DEF IInv

LEMMA CheckClearsKeeps == IInv /\ CheckClears => IInv'
BY UpdaterAssumption DEF IInv, Types, CheckInv, ArmInv, UpInv, InstallInv, HoldInv, Installing, InFlight,
   Installs, Checks, CallSteps, Up, disk, machine, CheckClears, CheckGoes

LEMMA CheckPlacesKeeps == IInv /\ CheckPlaces => IInv'
BY UpdaterAssumption DEF IInv, Types, CheckInv, ArmInv, UpInv, InstallInv, HoldInv, Installing, InFlight,
   Installs, Checks, CallSteps, Up, disk, machine, CheckPlaces, CheckGoes

LEMMA CheckFailsKeeps == IInv /\ CheckFails => IInv'
BY UpdaterAssumption DEF IInv, Types, CheckInv, ArmInv, UpInv, InstallInv, HoldInv, Installing, InFlight,
   Installs, Checks, CallSteps, Up, disk, machine, CheckFails, CheckGoes, Spend

LEMMA CheckEndsKeeps == IInv /\ CheckEnds => IInv'
<1> SUFFICES ASSUME IInv, CheckEnds PROVE IInv'
  OBVIOUS
<1>1. /\ UNCHANGED <<app, version, feed, staged, failed, installer, hold>>
      /\ check.at \in {"done", "skip", "failed"} /\ InFlight
      /\ stager' = IF stager = "app" THEN None ELSE stager
  BY DEF CheckEnds, Unlocked, InFlight
<1>2. Found \in {"idle", "ready", "error"}
  BY <1>1 DEF Found
<1>3. \/ /\ check' \in Checks /\ check'.at = "asked" /\ check'.target = 0
         /\ state' \in {"ready", "checking"}
         /\ install.kind = "armed" /\ install' = [install EXCEPT !.mid = FALSE]
         /\ UNCHANGED call
      \/ /\ check' = NoCheck /\ state' \in {"idle", "ready", "error"}
         /\ \/ install.kind # "armed" /\ UNCHANGED <<install, call>>
            \/ /\ install.kind = "armed" /\ install' = NoInstall
               /\ \E at \in {"look", "out"} : call' = [call EXCEPT ![install.by] = at]
  BY <1>2, CheckFromTypes DEF CheckEnds, Goes
<1>4. Types'
  BY <1>1, <1>3, NothingTypes DEF IInv, Types, Installs, CallSteps
<1>5. CheckInv'
  BY <1>1, <1>3, UpdaterAssumption DEF IInv, Types, CheckInv, InFlight, Up, NoCheck
<1>6. ArmInv'
  BY <1>3 DEF IInv, Types, ArmInv, NoInstall, Installs
<1>7. UpInv'
  BY <1>1 DEF IInv, CheckInv, UpInv, Up
<1>8. InstallInv'
  BY <1>1, <1>3 DEF IInv, Types, ArmInv, InstallInv, Installing, Installs, NoInstall
<1>9. HoldInv'
  BY <1>1, <1>3 DEF IInv, Types, HoldInv, InFlight, Installs
<1>. QED  BY <1>4, <1>5, <1>6, <1>7, <1>8, <1>9 DEF IInv

LEMMA QuitsKeeps == IInv /\ Quits => IInv'
<1> SUFFICES ASSUME IInv, Quits PROVE IInv'
  OBVIOUS
<1> USE DEF Installs, Checks, CallSteps, Up, disk, machine, Installing, InFlight, Quits, NewMachine, NoInstall, NoCheck, Unlocked, Spend
<1>1. Types'
  BY UpdaterAssumption DEF IInv, Types, CheckInv, ArmInv, UpInv, InstallInv, HoldInv
<1>2. CheckInv'
  BY UpdaterAssumption DEF IInv, Types, CheckInv, ArmInv, UpInv, InstallInv, HoldInv
<1>3. ArmInv'
  BY UpdaterAssumption DEF IInv, Types, CheckInv, ArmInv, UpInv, InstallInv, HoldInv
<1>4. UpInv'
  BY UpdaterAssumption DEF IInv, Types, CheckInv, ArmInv, UpInv, InstallInv, HoldInv
<1>5. InstallInv'
  BY UpdaterAssumption DEF IInv, Types, CheckInv, ArmInv, UpInv, InstallInv, HoldInv
<1>6. HoldInv'
  BY UpdaterAssumption DEF IInv, Types, CheckInv, ArmInv, UpInv, InstallInv, HoldInv
<1>. QED  BY <1>1, <1>2, <1>3, <1>4, <1>5, <1>6 DEF IInv

\* An app that starts is up, and shows one of its states.
LEMMA StartsTypes ==
    ASSUME NEW after, Starts(after)
    PROVE  app' = "up" /\ failed' = FALSE /\ state' \in {"ready", "idle", "error"}
BY DEF Starts

LEMMA RestartsKeeps == IInv /\ Restarts => IInv'
<1> SUFFICES ASSUME IInv, Restarts PROVE IInv'
  OBVIOUS
<1>1. app' = "up" /\ failed' = FALSE /\ state' \in {"ready", "idle", "error"}
  BY StartsTypes DEF Restarts
<1>2. /\ UNCHANGED <<version, feed, staged, installer>>
      /\ stager' \in {stager, None} /\ stager' # "app"
      /\ install' = NoInstall /\ check' = NoCheck
      /\ call' = [c \in Calls |-> "out"] /\ hold' = [h \in Holders |-> "out"]
  BY UpdaterAssumption DEF Restarts, NewMachine, Unlocked
<1>3. \E h \in Holders : hold[h] = "held"
  BY DEF Restarts
<1>4. installer = 0
  BY <1>3 DEF IInv, Types, UpInv, InstallInv, HoldInv, Installing
<1>5. Types'
  BY <1>1, <1>2, NothingTypes DEF IInv, Types, CallSteps
<1>6. CheckInv'
  BY <1>1, <1>2 DEF CheckInv, InFlight, NoCheck, Up
<1>7. ArmInv' /\ UpInv' /\ HoldInv'
  BY <1>1, <1>2 DEF ArmInv, UpInv, HoldInv, NoInstall
<1>8. InstallInv'
  BY <1>2, <1>4 DEF InstallInv
<1>. QED  BY <1>5, <1>6, <1>7, <1>8 DEF IInv

\* The app's start, where nothing goes on but what was left on the disk.
LEMMA StartKeeps ==
    ASSUME IInv, app = "down", installer' = 0,
           app' = "up", failed' = FALSE, state' \in {"ready", "idle", "error"},
           version' \in 0..MaxRelease, feed' \in version'..MaxRelease, UNCHANGED feed,
           staged' \in {staged, None}, UNCHANGED <<stager, install, check, call, hold>>
    PROVE  IInv'
<1>1. Types'
  BY DEF IInv, Types
<1>2. ~InFlight
  BY DEF IInv, CheckInv, Up
<1>3. CheckInv'
  BY <1>2 DEF IInv, CheckInv, InFlight
<1>4. ArmInv' /\ UpInv' /\ HoldInv'
  BY DEF IInv, ArmInv, UpInv, HoldInv, InFlight
<1>5. InstallInv'
  BY DEF IInv, InstallInv, UpInv
<1>. QED  BY <1>1, <1>3, <1>4, <1>5 DEF IInv

LEMMA OpensKeeps == IInv /\ Opens => IInv'
<1> SUFFICES ASSUME IInv, Opens PROVE IInv'
  OBVIOUS
<1>1. app' = "up" /\ failed' = FALSE /\ state' \in {"ready", "idle", "error"}
  BY StartsTypes DEF Opens
<1>2. /\ UNCHANGED <<version, feed, staged, stager, installer, install, check, call, hold>>
      /\ app = "down" /\ installer = 0
  BY DEF Opens
<1>3. version \in 0..MaxRelease /\ feed \in version..MaxRelease
  BY DEF IInv, Types
<1>. QED  BY <1>1, <1>2, <1>3, StartKeeps

\* What is swapped in is a release.
LEMMA SwapTypes ==
    ASSUME IInv, staged # None
    PROVE  staged \in 0..MaxRelease /\ feed \in staged..MaxRelease
BY UpdaterAssumption DEF IInv, Types

LEMMA FinishesKeeps == IInv /\ Finishes => IInv'
<1> SUFFICES ASSUME IInv, Finishes PROVE IInv'
  OBVIOUS
<1>1. app' = "up" /\ failed' = FALSE /\ state' \in {"ready", "idle", "error"}
  BY StartsTypes DEF Finishes
<1>2. /\ UNCHANGED <<feed, stager, install, check, call, hold>>
      /\ app = "down" /\ staged' = None
      /\ version' = IF staged # None THEN staged ELSE version
  BY DEF Finishes
<1>3. version' \in 0..MaxRelease /\ feed' \in version'..MaxRelease
  BY <1>2, SwapTypes DEF IInv, Types
<1>4. installer' = 0
  BY DEF Finishes, IInv, Types, InstallInv
<1>. QED  BY <1>1, <1>2, <1>3, <1>4, StartKeeps

LEMMA InstallerFailsKeeps == IInv /\ InstallerFails => IInv'
<1> SUFFICES ASSUME IInv, InstallerFails PROVE IInv'
  OBVIOUS
<1>1. installer' = 0 /\ installer > 0 /\ UNCHANGED <<feed, stager, install, check, call, hold>>
  BY DEF InstallerFails, IInv, Types, InstallInv
<1>2. CASE app = "down" /\ UNCHANGED <<version, staged>> /\ Starts(TRUE)
  <2>1. app' = "up" /\ failed' = FALSE /\ state' \in {"ready", "idle", "error"}
    BY <1>2, StartsTypes
  <2>2. version' \in 0..MaxRelease /\ feed' \in version'..MaxRelease
    BY <1>1, <1>2 DEF IInv, Types
  <2>. QED  BY <1>1, <1>2, <2>1, <2>2, StartKeeps
<1>3. CASE /\ failed' = TRUE /\ UNCHANGED <<app, state>>
           /\ \/ UNCHANGED <<version, staged>>
              \/ staged # None /\ version' = staged /\ staged' = None
  <2>1. /\ version' \in 0..MaxRelease /\ feed' \in version'..MaxRelease
        /\ staged' \in {staged, None}
    BY <1>1, <1>3, SwapTypes DEF IInv, Types
  <2>2. app # "up"
    BY <1>1 DEF IInv, InstallInv
  <2>3. Types'
    BY <1>1, <1>3, <2>1, <2>2 DEF IInv, Types
  <2>4. CheckInv'
    BY <1>1, <1>3 DEF IInv, CheckInv, InFlight, Up
  <2>5. ArmInv' /\ UpInv' /\ HoldInv'
    BY <1>1, <1>3 DEF IInv, ArmInv, UpInv, HoldInv, InFlight
  <2>6. InstallInv'
    BY <1>1, <1>3 DEF IInv, InstallInv, Installing
  <2>. QED  BY <2>3, <2>4, <2>5, <2>6 DEF IInv
<1>. QED  BY <1>2, <1>3 DEF InstallerFails

LEMMA ReleasesKeeps == IInv /\ Releases => IInv'
BY UpdaterAssumption DEF IInv, Types, CheckInv, ArmInv, UpInv, InstallInv, HoldInv, Installing, InFlight,
   Installs, Checks, CallSteps, Up, disk, machine, Releases

LEMMA TerminalLocksKeeps == IInv /\ TerminalLocks => IInv'
BY UpdaterAssumption DEF IInv, Types, CheckInv, ArmInv, UpInv, InstallInv, HoldInv, Installing, InFlight,
   Installs, Checks, CallSteps, Up, disk, machine, TerminalLocks, Spend

LEMMA TerminalClearsKeeps == IInv /\ TerminalClears => IInv'
BY UpdaterAssumption DEF IInv, Types, CheckInv, ArmInv, UpInv, InstallInv, HoldInv, Installing, InFlight,
   Installs, Checks, CallSteps, Up, disk, machine, TerminalClears

LEMMA TerminalEndsKeeps == IInv /\ TerminalEnds => IInv'
<1> SUFFICES ASSUME IInv, TerminalEnds PROVE IInv'
  OBVIOUS
<1> USE DEF Installs, Checks, CallSteps, Up, disk, machine, Installing, InFlight, TerminalEnds
<1>1. Types'
  BY UpdaterAssumption DEF IInv, Types, CheckInv, ArmInv, UpInv, InstallInv, HoldInv
<1>2. CheckInv'
  BY UpdaterAssumption DEF IInv, Types, CheckInv, ArmInv, UpInv, InstallInv, HoldInv
<1>3. ArmInv'
  BY UpdaterAssumption DEF IInv, Types, CheckInv, ArmInv, UpInv, InstallInv, HoldInv
<1>4. UpInv'
  BY UpdaterAssumption DEF IInv, Types, CheckInv, ArmInv, UpInv, InstallInv, HoldInv
<1>5. InstallInv'
  BY UpdaterAssumption DEF IInv, Types, CheckInv, ArmInv, UpInv, InstallInv, HoldInv
<1>6. HoldInv'
  BY UpdaterAssumption DEF IInv, Types, CheckInv, ArmInv, UpInv, InstallInv, HoldInv
<1>. QED  BY <1>1, <1>2, <1>3, <1>4, <1>5, <1>6 DEF IInv

LEMMA HoldKeeps ==
    ASSUME IInv, NEW h \in Holders, Hold(h) PROVE IInv'
<1>1. UNCHANGED <<app, disk, state, check>> /\ Up /\ hold[h] = "out"
  BY DEF Hold
<1>2. CASE Installing
  BY <1>1, <1>2
  DEF Hold, IInv, Types, CheckInv, ArmInv, UpInv, InstallInv, HoldInv, Installing, InFlight,
      Up, disk
<1>3. CASE ~Installing
  <2>1. /\ call' \in [Calls -> CallSteps]
        /\ \A b \in Calls : call'[b] \in {call[b], "out"}
    BY <1>3, LetGoTypes DEF Hold, IInv, Types
  <2>2. install' \in Installs /\ install'.kind = "held"
    BY <1>3, NothingTypes DEF Hold, NoInstall, Installs
  <2>3. /\ hold' \in [Holders -> {"out", "clearing", "held"}] /\ hold'[h] = "clearing"
        /\ \A g \in Holders \ {h} : hold'[g] = hold[g]
    BY <1>3 DEF Hold, IInv, Types
  <2>4. Types' /\ CheckInv'
    BY <1>1, <2>1, <2>2, <2>3 DEF IInv, Types, CheckInv, InFlight, Up, disk
  <2>5. ArmInv' /\ UpInv'
    BY <1>1, <2>2 DEF ArmInv, UpInv, Up
  <2>6. InstallInv'
    BY <1>1, <1>3, <2>1 DEF IInv, Types, InstallInv, Installing, Up, disk
  <2>7. HoldInv'
    BY <1>1, <2>2, <2>3 DEF IInv, HoldInv, InFlight
  <2>. QED  BY <2>4, <2>5, <2>6, <2>7 DEF IInv
<1>. QED  BY <1>2, <1>3

LEMMA HoldClearsKeeps ==
    ASSUME OneHolder, IInv, NEW h \in Holders, HoldClears(h) PROVE IInv'
<1> USE DEF Installs, Checks, CallSteps, Up, disk, machine, Installing, InFlight, HoldClears, NoCheck, Unlocked
<1>1. Types'
  BY UpdaterAssumption DEF IInv, Types, CheckInv, ArmInv, UpInv, InstallInv, HoldInv
<1>2. CheckInv'
  BY UpdaterAssumption DEF IInv, Types, CheckInv, ArmInv, UpInv, InstallInv, HoldInv
<1>3. ArmInv'
  BY UpdaterAssumption DEF IInv, Types, CheckInv, ArmInv, UpInv, InstallInv, HoldInv
<1>4. UpInv'
  BY UpdaterAssumption DEF IInv, Types, CheckInv, ArmInv, UpInv, InstallInv, HoldInv
<1>5. InstallInv'
  BY UpdaterAssumption DEF IInv, Types, CheckInv, ArmInv, UpInv, InstallInv, HoldInv
<1>6. HoldInv'
  BY UpdaterAssumption DEF IInv, Types, CheckInv, ArmInv, UpInv, InstallInv, HoldInv
<1>. QED  BY <1>1, <1>2, <1>3, <1>4, <1>5, <1>6 DEF IInv

LEMMA ResumeKeeps ==
    ASSUME OneHolder, IInv, NEW h \in Holders, Resume(h) PROVE IInv'
BY UpdaterAssumption DEF IInv, Types, CheckInv, ArmInv, UpInv, InstallInv, HoldInv, Installing, InFlight,
   Installs, Checks, CallSteps, Up, disk, machine, Resume, NoInstall, OneHolder

--------------------------------------------------------------------------------
(* The theorems.                                                               *)

LEMMA InitHolds == Init => IInv /\ QInv
<1> SUFFICES ASSUME Init PROVE IInv /\ QInv
  OBVIOUS
<1>1. QInv
  BY QueueStarts DEF Init
<1>2. Types
  <2>1. version \in 0..MaxRelease /\ feed \in version..MaxRelease
    BY UpdaterAssumption DEF Init
  <2>2. call \in [Calls -> CallSteps] /\ hold \in [Holders -> {"out", "clearing", "held"}]
    BY DEF Init, CallSteps
  <2>3. app = "up" /\ staged = None /\ failed = FALSE /\ stager = None /\ installer = 0
    BY DEF Init
  <2>4. state = "idle" /\ install \in Installs /\ check \in Checks
    BY NothingTypes DEF Init
  <2>. QED  BY <2>1, <2>2, <2>3, <2>4 DEF Types
<1>3. CheckInv /\ ArmInv /\ UpInv /\ InstallInv /\ HoldInv
  BY UpdaterAssumption
  DEF Init, CheckInv, ArmInv, UpInv, InstallInv, HoldInv, InFlight, Up, NoCheck, NoInstall,
      Installing
<1>. QED  BY <1>1, <1>2, <1>3 DEF IInv

LEMMA StutterKeeps == IInv /\ UNCHANGED <<app, disk, machine>> => IInv'
BY DEF IInv, Types, CheckInv, ArmInv, UpInv, InstallInv, HoldInv, Installing, InFlight, Up,
   disk, machine

LEMMA NextKeeps ==
    ASSUME OneHolder, IInv, Next PROVE IInv'
<1>1. CASE CheckStep \/ CheckFails \/ Check
  BY <1>1, CheckLocksKeeps, CheckAnsweredKeeps, CheckClearsKeeps, CheckPlacesKeeps,
     CheckEndsKeeps, CheckFailsKeeps, CheckKeeps DEF CheckStep
<1>2. ASSUME NEW c \in Calls,
             CallStep(c) \/ Asked(c) \/ AsksUpdate(c) \/ AskPerson(c) \/ HandOffFails(c)
      PROVE  IInv'
  BY <1>2, LookKeeps, AskHostKeeps, LookAgainKeeps, HandOffKeeps, HandedOffKeeps, UpdateKeeps,
     ArmKeeps, AskedKeeps, AsksUpdateKeeps, AskPersonKeeps, HandOffFailsKeeps DEF CallStep
<1>3. ASSUME NEW h \in Holders, Hold(h) \/ HoldClears(h) \/ Resume(h) PROVE IInv'
  BY <1>3, HoldKeeps, HoldClearsKeeps, ResumeKeeps
<1>4. CASE Quits \/ Restarts \/ Opens \/ Finishes \/ InstallerFails
  BY <1>4, QuitsKeeps, RestartsKeeps, OpensKeeps, FinishesKeeps, InstallerFailsKeeps
<1>5. CASE Releases \/ TerminalLocks \/ TerminalClears \/ TerminalEnds
  BY <1>5, ReleasesKeeps, TerminalLocksKeeps, TerminalClearsKeeps, TerminalEndsKeeps
<1>6. CASE Rest \/ HostStep
  BY <1>6, StutterKeeps DEF Rest, HostStep, vars
<1>. QED  BY <1>1, <1>2, <1>3, <1>4, <1>5, <1>6 DEF Next

\* Nothing of the updater touches the queue but the host's own steps and its end.
LEMMA QueueNextKeeps ==
    ASSUME QInv, Next PROVE QInv'
<1>1. QueueDies \/ HostStep \/ UNCHANGED queueVars
  BY DEF Next, Rest, vars, CheckStep, CheckLocks, CheckAnswered, CheckClears, CheckPlaces,
     CheckEnds, CheckFails, Check, CallStep, Look, LookAgain, LooksAt, AskHost, AskPerson,
     HandOff, HandedOff, HandOffFails, Update, Arm, Asked, AsksUpdate, Hold, HoldClears, Resume,
     Quits, Restarts, Opens, Finishes, InstallerFails, Releases, TerminalLocks, TerminalClears, TerminalEnds
<1>. QED  BY <1>1, QueueDiesOrNot

\* The queue stays true to its runs whatever the updater and the app do around it.
THEOREM QueueListsItsRuns == Spec => []RunsAreListed
<1>1. Init => QInv
  BY InitHolds
<1>2. QInv /\ [Next]_vars => QInv'
  BY QueueNextKeeps, QueueStays DEF vars
<1>3. QInv => RunsAreListed
  BY DEF QInv
<1>. QED  BY <1>1, <1>2, <1>3, PTL DEF Spec

LEMMA Inductive == OneHolder => (Spec => [](IInv /\ QInv))
<1> SUFFICES ASSUME OneHolder PROVE Spec => [](IInv /\ QInv)
  OBVIOUS
<1>1. Init => IInv /\ QInv
  BY InitHolds
<1>2. (IInv /\ QInv) /\ [Next]_vars => (IInv /\ QInv)'
  BY NextKeeps, QueueNextKeeps, QueueStays, StutterKeeps DEF vars
<1>. QED  BY <1>1, <1>2, PTL DEF Spec

\* Every variable has its type, a check under way asks for a release there is, and the
\* staging lock goes with the check that took it.
THEOREM TypeCorrect == OneHolder => (Spec => []TypeOK)
<1> SUFFICES ASSUME OneHolder PROVE Spec => []TypeOK
  OBVIOUS
<1>1. IInv /\ QInv => TypeOK
  BY DEF IInv, QInv, Types, CheckInv, ArmInv, TypeOK
<1>. QED  BY <1>1, Inductive, PTL

\* However many calls ask for an install, one is handed off and one installer waits.
THEOREM InstallsOnce == OneHolder => (Spec => []OneInstall)
<1> SUFFICES ASSUME OneHolder PROVE Spec => []OneInstall
  OBVIOUS
<1>1. IInv => OneInstall
  BY DEF IInv, Types, InstallInv, OneInstall
<1>. QED  BY <1>1, Inductive, PTL

\* A move of the data folder that has its hold keeps it: nothing is staged or installed
\* until it lets go or the app restarts.
THEOREM HoldKept == OneHolder => (Spec => []HoldStands)
<1> SUFFICES ASSUME OneHolder PROVE Spec => []HoldStands
  OBVIOUS
<1>1. IInv => HoldStands
  BY DEF IInv, Types, UpInv, InstallInv, HoldInv, HoldStands, Installing
<1>. QED  BY <1>1, Inductive, PTL
================================================================================
