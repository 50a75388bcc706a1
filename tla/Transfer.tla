-------------------------------- MODULE Transfer --------------------------------
(***************************************************************************)
(* A worktree moved to another device, and the teardown of its source.     *)
(*   app/host/lib/sync: Moves.ts, move.ts, landing.ts, receipts.ts,        *)
(*   sourceLink.ts; app/host/lib/worktrees: creating.ts, removing.ts       *)
(*                                                                         *)
(* One worktree on its source device, one destination.  A pull is a call   *)
(* the destination runs, a send one the source runs, whose landing the     *)
(* destination runs under a link.  Commits of the branch are numbered, an  *)
(* edit of the worktree makes a new state of its files (0 is clean), and   *)
(* its uncommitted work as a tree is the pair of both.  What people do to  *)
(* the copy, and the ignored files, are left out.                          *)
(***************************************************************************)
EXTENDS Naturals

CONSTANTS
    Directions,         \* of the moves asked for: "pull", "send"
    Mirrors,            \* whether a mirror start, which sends, is asked for
    Overlap,            \* whether one is asked of each device at a time
    None,               \* no commit, no capture, no copy, no receipt
    Elsewhere,          \* the commit a worktree switched off its branch is on
    MaxAttempts, MaxCommits, MaxEdits, MaxCancels, MaxStops

ASSUME DirectionsAssumption == Directions \subseteq {"pull", "send"}
ASSUME SwitchesAssumption == Mirrors \in BOOLEAN /\ Overlap \in BOOLEAN
ASSUME BoundsAssumption ==
    /\ MaxAttempts \in Nat /\ MaxCommits \in Nat /\ MaxEdits \in Nat
    /\ MaxCancels \in Nat /\ MaxStops \in Nat

Attempts == 1..MaxAttempts
Commits == 0..MaxCommits
Edits == 0..MaxEdits
Bases == Commits \cup {Elsewhere}
Captures == [base : Bases, work : Edits]
Copies == [by : Attempts, base : Commits, work : Edits]

ASSUME NoneAssumption ==
    /\ None \notin Nat \cup Captures \cup Copies
    /\ Elsewhere \notin Nat

VARIABLES
    source,     \* the source: standing or not, its branch, HEAD and files
    parked,     \* the source's capture ref
    objects,    \* the commits (a prefix) and captures the destination has
    incoming,   \* the destination's ref for the branch as it arrives
    copy,       \* the worktree the destination made of it
    call,       \* how far each attempt's call is
    land,       \* and its landing, on the destination
    facts,      \* what the attempt is, and what its landing read and did
    cancelled,  \* the attempts whose call was interrupted
    cut,        \* the sends whose link is gone
    receipts,   \* what each direction's last move took, kept for a teardown
    tear,       \* each direction's teardown
    strayed,    \* a copy may stand that nobody answers for, and was logged
    edits, cancels, stops

moving == <<call, land, facts, cancelled, cut>>
bounds == <<edits, cancels, stops>>
vars == <<source, parked, objects, incoming, copy, moving, receipts, tear,
          strayed, bounds>>

Working == {"refusals", "tip", "capture", "local", "fetch", "base", "create",
            "setup", "apply", "keep"}
Settled == {"none", "kept", "over"}
UnderWay == {"landing", "files", "session", "undoing"}

NoFacts == [direction |-> "pull", mirror |-> FALSE, tip |-> 0,
            capture |-> None, local |-> FALSE, applied |-> FALSE]
NoTear == [stage |-> "idle", receipt |-> None, tip |-> 0, late |-> FALSE]

Direction(a) == facts[a].direction
\* Slip: the copy told by its path.
MadeAny(a) == copy # None
Made(a) == copy # None /\ copy.by = a

Init ==
    /\ source = [here |-> TRUE, tip |-> 0, onBranch |-> TRUE, work |-> 0,
                 late |-> FALSE]
    /\ parked = None
    /\ objects = [tip |-> 0, captures |-> {}]
    /\ incoming = None
    /\ copy = None
    /\ call = [a \in Attempts |-> "unused"]
    /\ land = [a \in Attempts |-> "none"]
    /\ facts = [a \in Attempts |-> NoFacts]
    /\ cancelled = {}
    /\ cut = {}
    /\ receipts = [d \in Directions |-> None]
    /\ tear = [d \in Directions |-> NoTear]
    /\ strayed = FALSE
    /\ edits = 0 /\ cancels = 0 /\ stops = 0

--------------------------------------------------------------------------------
(* The source, which goes on being worked in. *)

\* Dirty.capture: the files as a tree on HEAD, and the ref that parks it.
Head == IF source.onBranch THEN source.tip ELSE Elsewhere
Fresh == IF source.work = 0 THEN None
                            ELSE [base |-> Head, work |-> source.work]

\* What a removal's last look no longer sees.  Git's own check at an unforced
\* delete still sees an edit.
Missed(d, edit) ==
    IF edit THEN tear[d].stage = "delete" /\ tear[d].receipt.capture # None
            ELSE tear[d].stage \in {"recapture", "delete"}

Changed(edit) ==
    /\ tear' = [d \in Directions |->
                  [tear[d] EXCEPT !.late = @ \/ Missed(d, edit)]]
    /\ UNCHANGED <<parked, objects, incoming, copy, moving, receipts, strayed,
                   cancels, stops>>

Edit ==
    /\ source.here /\ edits < MaxEdits
    /\ edits' = edits + 1
    /\ \E work \in {0, edits + 1} \ {source.work} :
         source' = [source EXCEPT !.work = work]
    /\ Changed(TRUE)

Commit ==
    /\ source.here /\ source.onBranch /\ source.tip < MaxCommits
    /\ source' = [source EXCEPT !.tip = @ + 1, !.work = 0]
    /\ Changed(FALSE) /\ UNCHANGED edits

Switch ==
    /\ source.here /\ source.work = 0 /\ edits < MaxEdits
    /\ edits' = edits + 1
    /\ source' = [source EXCEPT !.onBranch = ~@]
    /\ Changed(FALSE)

--------------------------------------------------------------------------------
(* The call: Moves.run, one by a key at a time. *)

Busy(d) == \E a \in Attempts : call[a] \in UnderWay /\ Direction(a) = d

\* The other direction's, which another device runs: nothing here refuses it.
OtherDevice(d) ==
    \E a \in Attempts :
       Direction(a) # d /\ (call[a] \in UnderWay \/ land[a] \notin Settled)

Start(a, d, mirror) ==
    /\ call[a] = "unused" /\ \A b \in Attempts : b < a => call[b] # "unused"
    /\ mirror => Mirrors /\ d = "send"
    /\ ~Busy(d) /\ (~Overlap => ~OtherDevice(d))
    /\ source.here /\ source.onBranch
    /\ call' = [call EXCEPT ![a] = "landing"]
    /\ land' = [land EXCEPT ![a] = "refusals"]
    /\ facts' = [facts EXCEPT ![a].direction = d, ![a].mirror = mirror]
    /\ UNCHANGED <<source, parked, objects, incoming, copy, cancelled, cut,
                   receipts, tear, strayed, bounds>>

Cancel(a) ==
    /\ call[a] \in UnderWay \ {"undoing"} /\ a \notin cancelled
    /\ cancels < MaxCancels
    /\ cancels' = cancels + 1
    /\ cancelled' = cancelled \cup {a}
    /\ UNCHANGED <<source, parked, objects, incoming, copy, call, land, facts,
                   cut, receipts, tear, strayed, edits, stops>>

--------------------------------------------------------------------------------
(* The landing, on the destination: landWorktree, then landWhole. *)

At(a, stage) ==
    /\ land[a] = stage
    /\ Direction(a) = "pull" => a \notin cancelled

Goes(a, stage) == land' = [land EXCEPT ![a] = stage]

\* The source answers a question: its end of the link is there.
Answers(a) == source.here /\ (Direction(a) = "send" => a \notin cut)

\* A branch the destination has refuses the landing.  A send's call comes in
\* behind what the sender's end said before it: the reset of an earlier link.
LandRefusals(a) ==
    /\ At(a, "refusals")
    /\ Direction(a) = "send" =>
         \A b \in cut : b < a => land[b] \notin Working
    /\ copy = None
    /\ Goes(a, "tip")
    /\ UNCHANGED <<source, parked, objects, incoming, copy, call, facts,
                   cancelled, cut, receipts, tear, strayed, bounds>>

LandTip(a) ==
    /\ At(a, "tip") /\ Answers(a)
    /\ Goes(a, "capture")
    /\ facts' = [facts EXCEPT ![a].tip = source.tip]
    /\ UNCHANGED <<source, parked, objects, incoming, copy, call, cancelled,
                   cut, receipts, tear, strayed, bounds>>

LandCapture(a) ==
    /\ At(a, "capture") /\ Answers(a)
    /\ Goes(a, "local")
    /\ parked' = Fresh
    /\ facts' = [facts EXCEPT ![a].capture = Fresh]
    /\ UNCHANGED <<source, objects, incoming, copy, call, cancelled, cut,
                   receipts, tear, strayed, bounds>>

\* Whether the destination has the tip already.
LandLocal(a) ==
    /\ At(a, "local")
    /\ Goes(a, "fetch")
    /\ facts' = [facts EXCEPT ![a].local = facts[a].tip <= objects.tip]
    /\ UNCHANGED <<source, parked, objects, incoming, copy, call, cancelled,
                   cut, receipts, tear, strayed, bounds>>

\* The bundle is of the source's refs as they are by now, the branch only
\* when the destination lacks its tip.  With nothing to bring none is asked.
LandFetch(a) ==
    LET branch == ~facts[a].local
        captured == facts[a].capture # None
        based == IF captured /\ parked # None /\ parked.base # Elsewhere
                   THEN {parked.base} ELSE {}
        came == {objects.tip} \cup based
                  \cup (IF branch THEN {source.tip} ELSE {})
    IN
    /\ At(a, "fetch")
    /\ branch \/ captured => Answers(a)
    /\ captured => parked # None
    /\ Goes(a, "base")
    /\ objects' = [tip |-> CHOOSE c \in came : \A b \in came : b <= c,
                   captures |-> objects.captures
                                  \cup (IF captured THEN {parked} ELSE {})]
    /\ incoming' = IF branch THEN source.tip ELSE incoming
    /\ UNCHANGED <<source, parked, copy, call, facts, cancelled, cut, receipts,
                   tear, strayed, bounds>>

\* The ref of a tip that was local, then the capture's tree read.
LandBase(a) ==
    /\ At(a, "base")
    /\ facts[a].capture # None => facts[a].capture \in objects.captures
    /\ Goes(a, "create")
    /\ incoming' = IF facts[a].local THEN facts[a].tip ELSE incoming
    /\ UNCHANGED <<source, parked, objects, copy, call, facts, cancelled, cut,
                   receipts, tear, strayed, bounds>>

\* `git worktree add -b` at the ref, which fails on a branch that is there.
LandCreate(a) ==
    /\ At(a, "create")
    /\ copy = None /\ incoming # None
    /\ Goes(a, "setup")
    /\ copy' = [by |-> a, base |-> incoming, work |-> 0]
    /\ UNCHANGED <<source, parked, objects, incoming, call, facts, cancelled,
                   cut, receipts, tear, strayed, bounds>>

LandSetup(a) ==
    /\ At(a, "setup")
    /\ Goes(a, "apply")
    /\ UNCHANGED <<source, parked, objects, incoming, copy, call, facts,
                   cancelled, cut, receipts, tear, strayed, bounds>>

\* The capture goes onto the commit it was taken on, unless a file is in the
\* way, one the setup script wrote.
LandApply(a) ==
    /\ At(a, "apply")
    /\ Goes(a, "keep")
    /\ \E clear \in BOOLEAN :
         LET capture == facts[a].capture
             applies == clear /\ capture # None /\ capture.base = copy.base
         IN
         /\ facts' = [facts EXCEPT ![a].applied = applies]
         /\ copy' = IF applies THEN [copy EXCEPT !.work = capture.work]
                               ELSE copy
    /\ UNCHANGED <<source, parked, objects, incoming, call, cancelled, cut,
                   receipts, tear, strayed, bounds>>

\* The ref swept, and the copy kept, unless an interrupt comes: a pull goes
\* on with it, a send's landing answers.
LandKeep(a) ==
    /\ At(a, "keep")
    /\ incoming' = None
    /\ IF Direction(a) = "pull"
         THEN Goes(a, "kept") /\ call' = [call EXCEPT ![a] = "files"]
         ELSE Goes(a, "answered") /\ UNCHANGED call
    /\ UNCHANGED <<source, parked, objects, copy, facts, cancelled, cut,
                   receipts, tear, strayed, bounds>>

\* A landing that ends early sweeps the ref once a fetch may have made it.
Leaves(a) ==
    /\ IF land[a] \in {"refusals", "tip", "capture", "local"}
         THEN Goes(a, "closed") ELSE Goes(a, "sweep")
    /\ UNCHANGED <<source, parked, objects, incoming, copy, call, facts,
                   cancelled, cut, receipts, tear, strayed, bounds>>

\* A refusal, a question the source never answers or a step that fails.
LandFails(a) == land[a] \in Working \ {"setup", "keep"} /\ Leaves(a)

\* The call's interrupt, or for a send the link's end, which stops whatever
\* step the landing is on.
Interrupted(a) == IF Direction(a) = "pull" THEN a \in cancelled ELSE a \in cut

LandInterrupted(a) == land[a] \in Working /\ Interrupted(a) /\ Leaves(a)

Sweep(a) ==
    /\ land[a] = "sweep"
    /\ incoming' = None
    /\ Goes(a, IF Made(a) THEN "undo" ELSE "closed")
    /\ UNCHANGED <<source, parked, objects, copy, call, facts, cancelled, cut,
                   receipts, tear, strayed, bounds>>

\* A removal of the copy, best effort: it may be refused, and logs that.
CopyGoes ==
    \E gone \in BOOLEAN :
       /\ copy' = IF gone THEN None ELSE copy
       /\ strayed' = (strayed \/ ~gone)

\* createHeld's undo.
Undo(a) ==
    /\ land[a] = "undo"
    /\ CopyGoes
    /\ Goes(a, "closed")
    /\ UNCHANGED <<source, parked, objects, incoming, call, facts, cancelled,
                   cut, receipts, tear, bounds>>

\* The landing answers with how it ended, to a call that may be gone: even
\* that it went well is then heard by nobody.
Closes(a) ==
    /\ \/ land[a] = "closed"
       \/ land[a] = "answered" /\ call[a] \in {"failed", "lost"}
    /\ Direction(a) = "send" /\ a \in cancelled => call[a] # "landing"
    /\ Goes(a, "over")
    /\ call' = IF call[a] # "landing" THEN call
               ELSE [call EXCEPT ![a] = IF a \in cancelled THEN "cancelled"
                                                           ELSE "failed"]
    /\ UNCHANGED <<source, parked, objects, incoming, copy, facts, cancelled,
                   cut, receipts, tear, strayed, bounds>>

--------------------------------------------------------------------------------
(* The rest of the call, on the device that runs it. *)

\* A send hears its landing's answer, and from then on takes the copy back.
Answer(a) ==
    /\ land[a] = "answered" /\ call[a] = "landing" /\ a \notin cancelled
    /\ Goes(a, "kept")
    /\ call' = [call EXCEPT ![a] = "files"]
    /\ UNCHANGED <<source, parked, objects, incoming, copy, facts, cancelled,
                   cut, receipts, tear, strayed, bounds>>

\* Slip: the tip read as the move ends.
ReceiptNow(a) == [tip |-> source.tip, capture |-> facts[a].capture,
                  applied |-> facts[a].applied]

\* The ignored files crossed or not, and the receipt kept with no interrupt
\* between: a move is done, a mirror start has its session to open.
Receipt(a) == [tip |-> facts[a].tip, capture |-> facts[a].capture,
               applied |-> facts[a].applied]

Remember(a) ==
    /\ call[a] = "files" /\ a \notin cancelled
    /\ receipts' = [receipts EXCEPT ![Direction(a)] = Receipt(a)]
    /\ call' = [call EXCEPT ![a] = IF facts[a].mirror THEN "session"
                                                      ELSE "moved"]
    /\ UNCHANGED <<source, parked, objects, incoming, copy, land, facts,
                   cancelled, cut, tear, strayed, bounds>>

\* The mirror's session opens on two trees in step, or takes the copy back.
OpenSession(a) ==
    /\ call[a] = "session" /\ a \notin cancelled
    /\ \E opens \in BOOLEAN :
         /\ opens => source.here /\ copy # None
         /\ call' = [call EXCEPT ![a] = IF opens THEN "moved" ELSE "undoing"]
    /\ UNCHANGED <<source, parked, objects, incoming, copy, land, facts,
                   cancelled, cut, receipts, tear, strayed, bounds>>

\* A pull's interrupt after its landing, which had been kept, undoes it.
PullGivesUp(a) ==
    /\ Direction(a) = "pull" /\ call[a] = "files" /\ a \in cancelled
    /\ call' = [call EXCEPT ![a] = "landing"]
    /\ Goes(a, "undo")
    /\ UNCHANGED <<source, parked, objects, incoming, copy, facts, cancelled,
                   cut, receipts, tear, strayed, bounds>>

\* Slip: the landing waited for.
SendGivesUpAfter(a) ==
    /\ Direction(a) = "send" /\ call[a] = "landing" /\ a \in cancelled
    /\ land[a] \notin Working
    /\ call' = [call EXCEPT ![a] = "cancelled"]
    /\ cut' = cut \cup {a}
    /\ UNCHANGED <<source, parked, objects, incoming, copy, land, facts,
                   cancelled, receipts, tear, strayed, bounds>>

\* A send's before its landing answered ends the call at once, and the link.
SendGivesUp(a) ==
    /\ Direction(a) = "send" /\ call[a] = "landing" /\ a \in cancelled
    /\ call' = [call EXCEPT ![a] = "cancelled"]
    /\ cut' = cut \cup {a}
    /\ UNCHANGED <<source, parked, objects, incoming, copy, land, facts,
                   cancelled, receipts, tear, strayed, bounds>>

\* Slip: the late answer dropped.
LateAnswerDropped(a) ==
    /\ land[a] = "answered" /\ call[a] = "cancelled"
    /\ Goes(a, "over")
    /\ UNCHANGED <<source, parked, objects, incoming, copy, call, facts,
                   cancelled, cut, receipts, tear, strayed, bounds>>

\* offer's onLate: the answer already on its way, whose copy is taken back.
LateAnswer(a) ==
    /\ land[a] = "answered" /\ call[a] = "cancelled"
    /\ CopyGoes
    /\ Goes(a, "over")
    /\ UNCHANGED <<source, parked, objects, incoming, call, facts, cancelled,
                   cut, receipts, tear, bounds>>

\* After it: rollBackSent, over the peer's delete.
SendTakesBack(a) ==
    /\ Direction(a) = "send" /\ a \in cancelled
    /\ call[a] \in {"files", "session"}
    /\ call' = [call EXCEPT ![a] = "undoing"]
    /\ UNCHANGED <<source, parked, objects, incoming, copy, land, facts,
                   cancelled, cut, receipts, tear, strayed, bounds>>

RollBackSent(a) ==
    /\ call[a] = "undoing"
    /\ CopyGoes
    /\ call' = [call EXCEPT ![a] = IF a \in cancelled THEN "cancelled"
                                                      ELSE "failed"]
    /\ UNCHANGED <<source, parked, objects, incoming, land, facts, cancelled,
                   cut, receipts, tear, bounds>>

--------------------------------------------------------------------------------
(* A device that stops, and a connection that drops. *)

\* The sender's call fails with its connection, and the link is gone.
Drop(a) ==
    /\ Direction(a) = "send" /\ call[a] = "landing" /\ stops < MaxStops
    /\ stops' = stops + 1
    /\ call' = [call EXCEPT ![a] = "failed"]
    /\ cut' = cut \cup {a}
    /\ strayed' = TRUE
    /\ Goes(a, IF land[a] = "answered" THEN "over" ELSE land[a])
    /\ UNCHANGED <<source, parked, objects, incoming, copy, facts, cancelled,
                   receipts, tear, edits, cancels>>

Calls(d) == {a \in Attempts : call[a] # "unused" /\ Direction(a) = d}
Lost(d) == [a \in Attempts |->
              IF a \in Calls(d) /\ call[a] \in UnderWay THEN "lost" ELSE call[a]]
Forgotten(d) == [e \in Directions |-> IF e = d THEN None ELSE receipts[e]]

\* The source's device: its sends are lost with the take-backs they owed, and
\* its receipts.  Their landings hear of it by the link.
SourceStops ==
    /\ stops < MaxStops
    /\ stops' = stops + 1
    /\ call' = Lost("send")
    /\ land' = [a \in Attempts |->
                  IF land[a] = "answered" THEN "over" ELSE land[a]]
    /\ cut' = cut \cup Calls("send")
    /\ receipts' = Forgotten("send")
    /\ tear' = [d \in Directions |-> NoTear]
    /\ strayed' = TRUE
    /\ UNCHANGED <<source, parked, objects, incoming, copy, facts, cancelled,
                   edits, cancels>>

\* The destination's: its pulls, and the landings it ran, with nothing swept
\* or undone.
DestinationStops ==
    /\ stops < MaxStops
    /\ stops' = stops + 1
    /\ call' = [a \in Attempts |->
                  IF a \in Calls("send") /\ call[a] = "landing" THEN "failed"
                  ELSE Lost("pull")[a]]
    /\ land' = [a \in Attempts |-> IF call[a] = "unused" THEN "none"
                                                         ELSE "over"]
    /\ receipts' = Forgotten("pull")
    /\ tear' = [d \in Directions |->
                  IF d = "pull" THEN NoTear ELSE tear[d]]
    /\ strayed' = TRUE
    /\ UNCHANGED <<source, parked, objects, incoming, copy, facts, cancelled,
                   cut, edits, cancels>>

--------------------------------------------------------------------------------
(* The source's teardown: teardownSource on the device that ran the move, *)
(* the removal on the source's own.                                       *)

TearGoes(d, stage) == tear' = [tear EXCEPT ![d].stage = stage]
TearEnds(d) == tear' = [tear EXCEPT ![d] = NoTear]

\* Refused without a receipt.
TearAsk(d) ==
    /\ tear[d].stage = "idle" /\ receipts[d] # None
    /\ tear' = [tear EXCEPT ![d].stage = "tip", ![d].receipt = receipts[d]]
    /\ UNCHANGED <<source, parked, objects, incoming, copy, moving, receipts,
                   strayed, bounds>>

\* sourceChangedSince: the tip, then a capture, asked of the source.
TearTip(d) ==
    /\ tear[d].stage = "tip" /\ source.here
    /\ tear' = [tear EXCEPT ![d].stage = "capture", ![d].tip = source.tip]
    /\ UNCHANGED <<source, parked, objects, incoming, copy, moving, receipts,
                   strayed, bounds>>

\* movedSourceChange
Unchanged(d, tip) ==
    /\ tip = tear[d].receipt.tip
    /\ Fresh = tear[d].receipt.capture

\* Slip: work that was never applied, taken for moved.
TearCaptureUnapplied(d) ==
    /\ tear[d].stage = "capture" /\ source.here
    /\ parked' = Fresh
    /\ IF Unchanged(d, tear[d].tip) THEN TearGoes(d, "look") ELSE TearEnds(d)
    /\ UNCHANGED <<source, objects, incoming, copy, moving, receipts, strayed,
                   bounds>>

\* And tearDown's own refusal, of work that was captured and never applied.
TearCapture(d) ==
    /\ tear[d].stage = "capture" /\ source.here
    /\ parked' = Fresh
    /\ IF /\ Unchanged(d, tear[d].tip)
          /\ tear[d].receipt.capture # None => tear[d].receipt.applied
         THEN TearGoes(d, "look") ELSE TearEnds(d)
    /\ UNCHANGED <<source, objects, incoming, copy, moving, receipts, strayed,
                   bounds>>

Deleting == {"cleanup", "recheck", "recapture", "delete"}

\* The removal on the source's device, one at a time: asked before any script
\* stops, then whether the files are clean where it is not forced.
TearLook(d) ==
    /\ tear[d].stage = "look" /\ source.here
    /\ \A e \in Directions : tear[e].stage \notin Deleting
    /\ parked' = Fresh
    /\ IF source.onBranch /\ Unchanged(d, source.tip)
         THEN TearGoes(d, "cleanup") ELSE TearEnds(d)
    /\ UNCHANGED <<source, objects, incoming, copy, moving, receipts, strayed,
                   bounds>>

\* The cleanup scripts, which may fail and end it (TearStops).
TearCleanup(d) ==
    /\ tear[d].stage = "cleanup"
    /\ TearGoes(d, "recheck")
    /\ UNCHANGED <<source, parked, objects, incoming, copy, moving, receipts,
                   strayed, bounds>>

\* refuseChangedSince, right before the delete: HEAD and the tip...
TearRecheck(d) ==
    /\ tear[d].stage = "recheck"
    /\ IF source.onBranch
         THEN tear' = [tear EXCEPT ![d].stage = "recapture",
                                   ![d].tip = source.tip]
         ELSE TearEnds(d)
    /\ UNCHANGED <<source, parked, objects, incoming, copy, moving, receipts,
                   strayed, bounds>>

\* Slip: only the tip asked again.
TearRecaptureTip(d) ==
    /\ tear[d].stage = "recapture"
    /\ parked' = Fresh
    /\ IF tear[d].tip = tear[d].receipt.tip THEN TearGoes(d, "delete")
                                            ELSE TearEnds(d)
    /\ UNCHANGED <<source, objects, incoming, copy, moving, receipts, strayed,
                   bounds>>

\* ... then a capture.
TearRecapture(d) ==
    /\ tear[d].stage = "recapture"
    /\ parked' = Fresh
    /\ IF Unchanged(d, tear[d].tip) THEN TearGoes(d, "delete")
                                    ELSE TearEnds(d)
    /\ UNCHANGED <<source, objects, incoming, copy, moving, receipts, strayed,
                   bounds>>

\* The worktree and its branch, forced over uncommitted work that was
\* captured, else only as far as git finds none.
TearDelete(d) ==
    /\ tear[d].stage = "delete"
    /\ IF tear[d].receipt.capture # None \/ source.work = 0
         THEN /\ source' = [source EXCEPT !.here = FALSE, !.late = tear[d].late]
              /\ TearGoes(d, "answer")
         ELSE TearEnds(d) /\ UNCHANGED source
    /\ UNCHANGED <<parked, objects, incoming, copy, moving, receipts, strayed,
                   bounds>>

\* Only a source that went takes its receipt with it.
TearForget(d) ==
    /\ tear[d].stage = "answer"
    /\ receipts' = [receipts EXCEPT ![d] = None]
    /\ TearEnds(d)
    /\ UNCHANGED <<source, parked, objects, incoming, copy, moving, strayed,
                   bounds>>

\* A source that is gone or does not answer, a cleanup that failed, a caller
\* gone, an answer lost: the receipt stays, for another try.
TearStops(d) ==
    /\ tear[d].stage # "idle"
    /\ TearEnds(d)
    /\ UNCHANGED <<source, parked, objects, incoming, copy, moving, receipts,
                   strayed, bounds>>

--------------------------------------------------------------------------------
LandStep(a) ==
    \/ LandRefusals(a) \/ LandTip(a) \/ LandCapture(a) \/ LandLocal(a)
    \/ LandFetch(a) \/ LandBase(a) \/ LandCreate(a) \/ LandSetup(a)
    \/ LandApply(a) \/ LandKeep(a) \/ LandFails(a)

\* What is left to do once a landing or a call was cut short.
Unwind(a) ==
    \/ LandInterrupted(a) \/ Sweep(a) \/ Undo(a) \/ Closes(a)
    \/ PullGivesUp(a) \/ SendGivesUp(a) \/ LateAnswer(a) \/ SendTakesBack(a)
    \/ RollBackSent(a)

CallStep(a) == Answer(a) \/ Remember(a) \/ OpenSession(a)

TearStep(d) ==
    \/ TearAsk(d) \/ TearTip(d) \/ TearCapture(d) \/ TearLook(d)
    \/ TearCleanup(d) \/ TearRecheck(d) \/ TearRecapture(d) \/ TearDelete(d)
    \/ TearForget(d) \/ TearStops(d)

\* Nothing under way, and nothing more asked for.
Quiet ==
    /\ \A a \in Attempts : land[a] \in Settled
    /\ \A a \in Attempts : call[a] \notin UnderWay
    /\ \A d \in Directions : tear[d].stage = "idle"
    /\ UNCHANGED vars

Environment == Edit \/ Commit \/ Switch \/ SourceStops \/ DestinationStops

Next ==
    \/ \E a \in Attempts :
         \/ \E d \in Directions, mirror \in BOOLEAN : Start(a, d, mirror)
         \/ Cancel(a) \/ Drop(a)
         \/ LandStep(a) \/ Unwind(a) \/ CallStep(a)
    \/ \E d \in Directions : TearStep(d)
    \/ Environment \/ Quiet

Spec == Init /\ [][Next]_vars

\* What each device does by itself goes on.  Nothing says the other answers a
\* question, a script ends, or anyone asks for a thing.
FairSpec == Spec /\ \A a \in Attempts : WF_vars(Unwind(a))

--------------------------------------------------------------------------------
CallStages == UnderWay \cup {"unused", "moved", "failed", "cancelled", "lost"}
LandStages == Working \cup {"none", "sweep", "undo", "closed", "answered",
                            "kept", "over"}
Receipts == [tip : Commits, capture : Captures \cup {None}, applied : BOOLEAN]
TearStages == Deleting \cup {"idle", "tip", "capture", "look", "answer"}

Attempted == [direction : {"pull", "send"}, mirror : BOOLEAN, tip : Commits,
              capture : Captures \cup {None}, local : BOOLEAN,
              applied : BOOLEAN]
Tears == [stage : TearStages, receipt : Receipts \cup {None}, tip : Commits,
          late : BOOLEAN]

SourceOK ==
    /\ source \in [here : BOOLEAN, tip : Commits, onBranch : BOOLEAN,
                   work : Edits, late : BOOLEAN]
    /\ parked \in Captures \cup {None}

DestinationOK ==
    /\ objects \in [tip : Commits, captures : SUBSET Captures]
    /\ incoming \in Commits \cup {None}
    /\ copy \in Copies \cup {None}

MovingOK ==
    /\ call \in [Attempts -> CallStages]
    /\ land \in [Attempts -> LandStages]
    /\ facts \in [Attempts -> Attempted]
    /\ cancelled \subseteq Attempts
    /\ cut \subseteq Attempts

TearOK ==
    /\ receipts \in [Directions -> Receipts \cup {None}]
    /\ tear \in [Directions -> Tears]

BoundsOK ==
    /\ strayed \in BOOLEAN
    /\ edits \in Edits /\ cancels \in 0..MaxCancels /\ stops \in 0..MaxStops

\* Every variable is of its type.
TypeOK == SourceOK /\ DestinationOK /\ MovingOK /\ TearOK /\ BoundsOK

\* The copy has what the source has, or had as it went: its commits, and the
\* uncommitted work on the commit it was on.
Whole ==
    /\ copy # None
    /\ source.onBranch /\ source.tip <= copy.base
    /\ source.work # 0 => copy.base = source.tip /\ copy.work = source.work

\* A teardown takes a source only when nothing of it can be lost: whatever ran
\* meanwhile, what went is at the copy, unless it was written once the
\* removal had taken its last look (receipts.ts, refuseChangedSince).
NothingLost == source.here \/ source.late \/ Whole

\* A kept receipt is of a copy that stands and has what the receipt says: the
\* tip, and the capture where it says applied (Moves.remember).
ReceiptStands ==
    \A d \in Directions : receipts[d] # None =>
      LET receipt == receipts[d] IN
      /\ copy # None /\ receipt.tip <= copy.base
      /\ receipt.applied => copy.work = receipt.capture.work

\* A move that was cancelled or failed leaves no copy behind: once it is over
\* a copy is one a caller was told of, unless its removal was refused or a
\* device stopped or went out of reach (createHeld, onLate, rollBackSent).
NoCopyLeft ==
    (copy # None /\ ~strayed) =>
      \/ call[copy.by] \in UnderWay \cup {"moved"}
      \/ land[copy.by] \in Working \cup {"sweep", "undo", "answered"}

\* The ref a branch arrives under outlives every landing only where a device
\* stopped: a stale one would block a later landing's (the sweep).
IncomingSwept ==
    (incoming # None /\ ~strayed) =>
      \E a \in Attempts : land[a] \in Working \cup {"sweep"}

\* What a move that did not finish leaves behind is neither a copy nor the ref.
LeavesNothing == NoCopyLeft /\ IncomingSwept

\* The undo of one move never takes the copy another has finished with, though
\* a copy is removed by its id, which is its path's.
FinishedCopyStays ==
    [][copy # None /\ call[copy.by] = "moved" => copy' = copy]_vars

\* A cancelled call ends, though the other device never answers a question or
\* a landing's script never ends.
CancelledEnds ==
    \A a \in Attempts : a \in cancelled ~> call[a] \notin UnderWay

\* And a landing whose caller is gone goes, with what it made.
LandingFollows ==
    \A a \in Attempts :
      (a \in cut /\ land[a] \in Working) ~> land[a] \in {"over", "answered"}

\* A move that is cut short ends on both devices, whatever either was waiting for.
CutShortEnds == CancelledEnds /\ LandingFollows

--------------------------------------------------------------------------------
\* Where the worktree is, to anyone who wants its work.
Place ==
    IF source.here THEN IF Whole THEN "both" ELSE "source"
    ELSE IF source.late THEN "raced" ELSE IF Whole THEN "copy" ELSE "nowhere"

\* The move and its teardown take a worktree from one device to the other
\* without a time at which it is on neither, and from where it has gone it is
\* not taken back (Relocation).
Moved == INSTANCE Relocation WITH place <- Place
Relocates == Moved!Spec

================================================================================
