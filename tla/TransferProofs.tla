----------------------------- MODULE TransferProofs -----------------------------
(***************************************************************************)
(* For any number of moves, commits and edits, of either direction, one at *)
(* a time or two at once, with mirror starts or without: a move that did   *)
(* not finish leaves no copy and no ref behind, and takes none that        *)
(* another finished with.  One at a time and without a mirror, a teardown  *)
(* loses nothing, and move and teardown implement a relocation.            *)
(*                                                                         *)
(* An undo removes the copy it finds at its path.  That it is its own is   *)
(* HeldInv: an attempt that still owes or has a use for a copy has one,    *)
(* and it made it, since a create needs that there is none (LandCreate)    *)
(* and only an attempt's own end takes its copy away.  Who owes one is     *)
(* told by the stages of its call and its landing together (StageInv).     *)
(***************************************************************************)
EXTENDS Transfer, TLAPS

Running == Working \cup {"sweep", "undo", "closed", "answered"}
Holding == {"setup", "apply", "keep", "undo", "answered"}
Kept == {"files", "session", "undoing"}
RefHeld == {"base", "create", "setup", "apply", "keep", "sweep"}

\* How far a call is, by how far its landing is.
StageInv ==
    \A a \in Attempts :
       /\ call[a] = "unused" <=> land[a] = "none"
       /\ call[a] = "landing" => land[a] \in Running
       /\ call[a] \in Kept \cup {"moved"} => land[a] \in {"kept", "over"}
       /\ Direction(a) = "pull" => land[a] # "answered"
       /\ ~strayed /\ land[a] \in Running => call[a] \in {"landing", "cancelled"}

\* An attempt whose landing or call has a copy in its hands made it.
Holds(a) == land[a] \in Holding \/ call[a] \in Kept
HeldInv == \A a \in Attempts : Holds(a) => Made(a)

\* A copy is in its maker's hands, about to be, or was handed over.
LeftInv ==
    (copy # None /\ ~strayed) =>
      \/ land[copy.by] \in Holding \cup {"sweep"}
      \/ call[copy.by] \in Kept \cup {"moved"}

\* A ref that arrived is one some landing will still sweep.
SweptInv ==
    (incoming # None /\ ~strayed) => \E a \in Attempts : land[a] \in RefHeld

IInv == TypeOK /\ StageInv /\ HeldInv /\ LeftInv /\ SweptInv

--------------------------------------------------------------------------------
(* The types of what the actions put together. *)

\* A capture is of a commit and a state of the files, or there is none.
LEMMA FreshType ==
    ASSUME SourceOK
    PROVE  Fresh \in Captures \cup {None}
  BY DEF SourceOK, Fresh, Head, Captures, Bases, Edits

\* The first commit is one.
LEMMA ZeroType == 0 \in Commits
  BY BoundsAssumption DEF Commits

\* A teardown's record stays one as its fields are set.
LEMMA TearType ==
    ASSUME TearOK, NEW d \in Directions, NEW stage \in TearStages,
           NEW receipt \in Receipts \cup {None}, NEW tip \in Commits
    PROVE  /\ [tear[d] EXCEPT !.stage = stage] \in Tears
           /\ [tear[d] EXCEPT !.stage = stage, !.receipt = receipt] \in Tears
           /\ [tear[d] EXCEPT !.stage = stage, !.tip = tip] \in Tears
<1>1. tear[d] \in Tears
  BY DEF TearOK
<1>2. QED
  BY <1>1 DEF Tears

\* A teardown that goes on is one.
LEMMA TearGoesType ==
    ASSUME TearOK, NEW d \in Directions, NEW stage \in TearStages,
           TearGoes(d, stage)
    PROVE  tear' \in [Directions -> Tears]
<1>1. [tear[d] EXCEPT !.stage = stage] \in Tears
  BY TearType, ZeroType
<1>2. QED
  BY <1>1 DEF TearOK, TearGoes

\* And so is one that ends.
LEMMA TearEndsType ==
    ASSUME TearOK, NEW d \in Directions, TearEnds(d)
    PROVE  tear' \in [Directions -> Tears]
<1>1. "idle" \in TearStages
  BY DEF TearStages
<1>2. NoTear \in Tears
  BY <1>1, ZeroType DEF NoTear, Tears
<1>3. QED
  BY <1>2 DEF TearOK, TearEnds

\* What a teardown has not seen of a change is noted in its record.
LEMMA ChangedType ==
    ASSUME TearOK, NEW edit \in BOOLEAN, Changed(edit)
    PROVE  TearOK'
<1>1. ASSUME NEW d \in Directions
      PROVE  [tear[d] EXCEPT !.late = @ \/ Missed(d, edit)] \in Tears
  <2>1. tear[d] \in Tears
    BY DEF TearOK
  <2>2. (tear[d].late \/ Missed(d, edit)) \in BOOLEAN
    OBVIOUS
  <2>3. QED
    BY <2>1, <2>2 DEF Tears
<1>2. QED
  BY <1>1 DEF TearOK, Changed

\* The latest of one to three commits is one of them.
LEMMA LatestOf ==
    ASSUME NEW S \in SUBSET Nat, NEW x \in Nat, NEW y \in Nat, NEW z \in Nat,
           \/ S = {x} \cup {y} \cup {z}
           \/ S = {x} \cup {y}
           \/ S = {x} \cup {z}
           \/ S = {x}
    PROVE  (CHOOSE c \in S : \A b \in S : b <= c) \in S
<1>1. \E c \in S : \A b \in S : b <= c
  <2>1. CASE \A b \in S : b <= x
    BY <2>1
  <2>2. CASE y \in S /\ \A b \in S : b <= y
    BY <2>2
  <2>3. CASE z \in S /\ \A b \in S : b <= z
    BY <2>3
  <2>4. QED
    BY <2>1, <2>2, <2>3
<1>2. QED
  BY <1>1

\* What a fetch brings: the tip, a capture and the commit it was taken on.
LEMMA FetchType ==
    ASSUME TypeOK, NEW a \in Attempts, LandFetch(a)
    PROVE  DestinationOK'
<1> DEFINE branch == ~facts[a].local
           captured == facts[a].capture # None
           onCommit == captured /\ parked # None /\ parked.base # Elsewhere
           based == IF onCommit THEN {parked.base} ELSE {}
           tip == IF branch THEN {source.tip} ELSE {}
           came == {objects.tip} \cup based \cup tip
           latest == CHOOSE c \in came : \A b \in came : b <= c
           brought == objects.captures
                        \cup (IF captured THEN {parked} ELSE {})
<1>1. objects.tip \in Commits /\ source.tip \in Commits
  BY DEF TypeOK, SourceOK, DestinationOK
<1>2. based = {} \/ (parked.base \in Commits /\ based = {parked.base})
  <2>1. CASE onCommit
    BY <2>1 DEF TypeOK, SourceOK, Captures, Bases
  <2>2. CASE ~onCommit
    BY <2>2
  <2>3. QED
    BY <2>1, <2>2
<1>3. tip = {} \/ tip = {source.tip}
  OBVIOUS
<1>4. came \subseteq Commits
  BY <1>1, <1>2, <1>3
<1>5. latest \in came
  <2> HIDE DEF based, tip
  <2>1. Commits \subseteq Nat
    BY DEF Commits
  <2>2. CASE based = {}
    BY <1>1, <1>3, <2>1, <2>2, LatestOf
  <2>3. CASE based # {} /\ tip = {}
    BY <1>1, <1>2, <2>1, <2>3, LatestOf
  <2>4. CASE based # {} /\ tip # {}
    BY <1>1, <1>2, <1>3, <2>1, <2>4, LatestOf
  <2>5. QED
    BY <2>2, <2>3, <2>4
<1>6. brought \in SUBSET Captures
  BY DEF TypeOK, SourceOK, DestinationOK, LandFetch
<1>7. /\ objects' = [tip |-> latest, captures |-> brought]
      /\ incoming' \in {source.tip, incoming} /\ copy' = copy
  BY DEF LandFetch
<1> HIDE DEF latest, brought
<1>8. QED
  BY <1>1, <1>4, <1>5, <1>6, <1>7 DEF TypeOK, DestinationOK

\* A landing that applies has a copy to apply to.
LEMMA HeldApply ==
    ASSUME IInv, NEW a \in Attempts, LandApply(a)
    PROVE  TypeOK /\ copy \in Copies /\ copy.by = a
  BY DEF IInv, TypeOK, DestinationOK, HeldInv, Holds, Holding, Made, LandApply,
         At

\* The copy an apply writes in is the one there was.
LEMMA ApplyType ==
    ASSUME TypeOK, copy \in Copies, NEW a \in Attempts, LandApply(a)
    PROVE  MovingOK' /\ copy' \in Copies /\ copy'.by = copy.by
<1> DEFINE capture == facts[a].capture
           fits == capture # None /\ capture.base = copy.base
<1>1. PICK clear \in BOOLEAN :
        /\ facts' = [facts EXCEPT ![a].applied = clear /\ fits]
        /\ copy' = IF clear /\ fits THEN [copy EXCEPT !.work = capture.work]
                                    ELSE copy
  BY DEF LandApply
<1>2. facts[a] \in Attempted
  BY DEF TypeOK, MovingOK
<1>3. [facts[a] EXCEPT !.applied = clear /\ fits] \in Attempted
  <2>1. (clear /\ fits) \in BOOLEAN
    OBVIOUS
  <2>2. QED
    BY <1>2, <2>1 DEF Attempted
<1>4. MovingOK'
  BY <1>1, <1>3
  DEF TypeOK, MovingOK, LandApply, Goes, LandStages, Working
<1>5. fits => [copy EXCEPT !.work = capture.work] \in Copies
  BY <1>2 DEF Attempted, Captures, Copies
<1>6. copy' \in Copies /\ copy'.by = copy.by
  BY <1>1, <1>5 DEF Copies
<1>7. QED
  BY <1>4, <1>6

--------------------------------------------------------------------------------
(* Every step keeps the types. *)

\* A move starts on an attempt that was not used.
LEMMA StartTypes ==
    ASSUME IInv, NEW a \in Attempts, NEW d \in Directions,
           NEW mirror \in BOOLEAN, Start(a, d, mirror)
    PROVE  TypeOK'
<1>1. facts[a] \in Attempted
  BY DEF IInv, TypeOK, MovingOK
<1>2. [facts[a] EXCEPT !.direction = d, !.mirror = mirror] \in Attempted
  BY <1>1, DirectionsAssumption DEF Attempted
<1>3. facts' \in [Attempts -> Attempted]
  BY <1>1, <1>2 DEF IInv, TypeOK, MovingOK, Start, Attempted
<1>4. MovingOK'
  BY <1>3
  DEF IInv, TypeOK, MovingOK, Start, CallStages, LandStages, Working, UnderWay
<1>5. QED
  BY <1>4
  DEF IInv, TypeOK, SourceOK, DestinationOK, TearOK, BoundsOK, Start, bounds

\* Of what may befall a move.
LEMMA CancelTypes ==
    ASSUME IInv, NEW a \in Attempts, Cancel(a) \/ Drop(a)
    PROVE  TypeOK'
<1>1. CASE Cancel(a)
  BY <1>1, BoundsAssumption
  DEF IInv, TypeOK, SourceOK, DestinationOK, MovingOK, TearOK, BoundsOK, Cancel
<1>2. CASE Drop(a)
  BY <1>2, BoundsAssumption
  DEF IInv, TypeOK, SourceOK, DestinationOK, MovingOK, TearOK, BoundsOK, Drop,
      Goes, CallStages, LandStages
<1>3. QED
  BY <1>1, <1>2

\* Of a landing.
LEMMA LandTypes ==
    ASSUME IInv, NEW a \in Attempts, LandStep(a)
    PROVE  TypeOK'
<1>1. CASE LandRefusals(a)
  BY <1>1
  DEF IInv, TypeOK, SourceOK, DestinationOK, MovingOK, TearOK, BoundsOK,
      LandRefusals, Goes, Working, bounds, LandStages
<1>2. CASE LandTip(a)
  BY <1>2
  DEF IInv, TypeOK, SourceOK, DestinationOK, MovingOK, TearOK, BoundsOK,
      LandTip, At, Goes, bounds, LandStages, Attempted, Working
<1>3. CASE LandCapture(a)
  BY <1>3, FreshType
  DEF IInv, TypeOK, SourceOK, DestinationOK, MovingOK, TearOK, BoundsOK,
      LandCapture, Goes, bounds, LandStages, Attempted, Working
<1>4. CASE LandLocal(a)
  <2>1. facts[a] \in Attempted
    BY DEF IInv, TypeOK, MovingOK
  <2>2. (facts[a].tip <= objects.tip) \in BOOLEAN
    OBVIOUS
  <2>3. [facts[a] EXCEPT !.local = facts[a].tip <= objects.tip] \in Attempted
    BY <2>1, <2>2 DEF Attempted
  <2>4. MovingOK'
    BY <1>4, <2>3
    DEF IInv, TypeOK, MovingOK, LandLocal, Goes, LandStages, Working
  <2>5. QED
    BY <1>4, <2>4
    DEF IInv, TypeOK, SourceOK, DestinationOK, TearOK, BoundsOK, LandLocal,
        bounds
<1>5. CASE LandFetch(a)
  <2>1. DestinationOK'
    BY <1>5, FetchType DEF IInv
  <2>2. QED
    BY <1>5, <2>1
    DEF IInv, TypeOK, SourceOK, MovingOK, TearOK, BoundsOK, LandFetch, Goes,
        LandStages, Working, bounds
<1>6. CASE LandBase(a)
  BY <1>6
  DEF IInv, TypeOK, SourceOK, DestinationOK, MovingOK, TearOK, BoundsOK,
      LandBase, Goes, bounds, Attempted, LandStages, Working
<1>7. CASE LandCreate(a)
  BY <1>7, BoundsAssumption
  DEF IInv, TypeOK, SourceOK, DestinationOK, MovingOK, TearOK, BoundsOK,
      LandCreate, Goes, bounds, Edits, Copies, LandStages, Working
<1>8. CASE LandSetup(a)
  BY <1>8
  DEF IInv, TypeOK, SourceOK, DestinationOK, MovingOK, TearOK, BoundsOK,
      LandSetup, Goes, bounds, LandStages, Working
<1>9. CASE LandApply(a)
  <2>1. MovingOK' /\ copy' \in Copies
    BY <1>9, HeldApply, ApplyType
  <2>2. QED
    BY <1>9, <2>1
    DEF IInv, TypeOK, SourceOK, DestinationOK, TearOK, BoundsOK, LandApply,
        bounds
<1>10. CASE LandKeep(a)
  BY <1>10, DirectionsAssumption
  DEF IInv, TypeOK, SourceOK, DestinationOK, MovingOK, TearOK, BoundsOK,
      LandKeep, At, Goes, bounds, CallStages, LandStages, UnderWay
<1>11. CASE LandFails(a)
  BY <1>11
  DEF IInv, TypeOK, SourceOK, DestinationOK, MovingOK, TearOK, BoundsOK,
      LandFails, Leaves, Goes, bounds, LandStages
<1>12. QED
  BY <1>1, <1>2, <1>3, <1>4, <1>5, <1>6, <1>7, <1>8, <1>9, <1>10, <1>11
  DEF LandStep

\* Of what is left to do once one was cut short.
LEMMA UnwindTypes ==
    ASSUME IInv, NEW a \in Attempts, Unwind(a)
    PROVE  TypeOK'
<1>1. CASE LandInterrupted(a)
  BY <1>1
  DEF IInv, TypeOK, SourceOK, DestinationOK, MovingOK, TearOK, BoundsOK,
      LandInterrupted, Leaves, Goes, bounds, LandStages
<1>2. CASE Sweep(a)
  BY <1>2
  DEF IInv, TypeOK, SourceOK, DestinationOK, MovingOK, TearOK, BoundsOK, Sweep,
      Goes, bounds, LandStages
<1>3. CASE Undo(a)
  BY <1>3
  DEF IInv, TypeOK, SourceOK, DestinationOK, MovingOK, TearOK, BoundsOK, Undo,
      CopyGoes, Goes, bounds, LandStages
<1>4. CASE Closes(a)
  BY <1>4
  DEF IInv, TypeOK, SourceOK, DestinationOK, MovingOK, TearOK, BoundsOK,
      Closes, Goes, bounds, CallStages, LandStages
<1>5. CASE PullGivesUp(a)
  BY <1>5
  DEF IInv, TypeOK, SourceOK, DestinationOK, MovingOK, TearOK, BoundsOK,
      PullGivesUp, Goes, bounds, CallStages, LandStages, UnderWay
<1>6. CASE SendGivesUp(a)
  BY <1>6
  DEF IInv, TypeOK, SourceOK, DestinationOK, MovingOK, TearOK, BoundsOK,
      SendGivesUp, bounds, CallStages
<1>7. CASE LateAnswer(a)
  BY <1>7
  DEF IInv, TypeOK, SourceOK, DestinationOK, MovingOK, TearOK, BoundsOK,
      LateAnswer, CopyGoes, Goes, bounds, LandStages
<1>8. CASE SendTakesBack(a)
  BY <1>8
  DEF IInv, TypeOK, SourceOK, DestinationOK, MovingOK, TearOK, BoundsOK,
      SendTakesBack, bounds, CallStages, UnderWay
<1>9. CASE RollBackSent(a)
  BY <1>9
  DEF IInv, TypeOK, SourceOK, DestinationOK, MovingOK, TearOK, BoundsOK,
      RollBackSent, CopyGoes, bounds, CallStages
<1>10. QED
  BY <1>1, <1>2, <1>3, <1>4, <1>5, <1>6, <1>7, <1>8, <1>9 DEF Unwind

\* Of a call.
LEMMA CallTypes ==
    ASSUME IInv, NEW a \in Attempts, CallStep(a)
    PROVE  TypeOK'
<1>1. CASE Answer(a)
  BY <1>1
  DEF IInv, TypeOK, SourceOK, DestinationOK, MovingOK, TearOK, BoundsOK,
      Answer, Goes, bounds, CallStages, LandStages, UnderWay
<1>2. CASE Remember(a)
  <2>1. Receipt(a) \in Receipts
    BY DEF IInv, TypeOK, MovingOK, Attempted, Receipt, Receipts
  <2>2. TearOK'
    BY <1>2, <2>1 DEF IInv, TypeOK, TearOK, Remember
  <2>3. QED
    BY <1>2, <2>2
    DEF IInv, TypeOK, SourceOK, DestinationOK, MovingOK, BoundsOK, Remember,
        CallStages, UnderWay, bounds
<1>3. CASE OpenSession(a)
  BY <1>3
  DEF IInv, TypeOK, SourceOK, DestinationOK, MovingOK, TearOK, BoundsOK,
      OpenSession, bounds, CallStages, UnderWay
<1>4. QED
  BY <1>1, <1>2, <1>3 DEF CallStep

\* Of a teardown.
LEMMA TearTypes ==
    ASSUME IInv, NEW d \in Directions, TearStep(d)
    PROVE  TypeOK'
<1>1. CASE TearAsk(d)
  <2>1. "tip" \in TearStages /\ receipts[d] \in Receipts \cup {None}
    BY DEF IInv, TypeOK, TearOK, TearStages
  <2>2. [tear[d] EXCEPT !.stage = "tip", !.receipt = receipts[d]] \in Tears
    BY <2>1, TearType, ZeroType DEF IInv, TypeOK
  <2>3. TearOK'
    BY <1>1, <2>2 DEF IInv, TypeOK, TearOK, TearAsk
  <2>4. QED
    BY <1>1, <2>3
    DEF IInv, TypeOK, SourceOK, DestinationOK, MovingOK, BoundsOK, TearAsk,
        moving, bounds
<1>2. CASE TearTip(d)
  <2>1. "capture" \in TearStages /\ source.tip \in Commits
    BY DEF IInv, TypeOK, SourceOK, TearStages
  <2>2. [tear[d] EXCEPT !.stage = "capture", !.tip = source.tip] \in Tears
    BY <2>1, TearType DEF IInv, TypeOK
  <2>3. TearOK'
    BY <1>2, <2>2 DEF IInv, TypeOK, TearOK, TearTip
  <2>4. QED
    BY <1>2, <2>3
    DEF IInv, TypeOK, SourceOK, DestinationOK, MovingOK, BoundsOK, TearTip,
        moving, bounds
<1>3. CASE TearCapture(d)
  BY <1>3, FreshType, TearGoesType, TearEndsType
  DEF IInv, TypeOK, SourceOK, DestinationOK, MovingOK, TearOK, BoundsOK,
      TearCapture, moving, bounds, TearStages
<1>4. CASE TearLook(d)
  BY <1>4, FreshType, TearGoesType, TearEndsType
  DEF IInv, TypeOK, SourceOK, DestinationOK, MovingOK, TearOK, BoundsOK,
      TearLook, moving, bounds, TearStages, Deleting
<1>5. CASE TearCleanup(d)
  BY <1>5, TearGoesType
  DEF IInv, TypeOK, SourceOK, DestinationOK, MovingOK, TearOK, BoundsOK,
      TearCleanup, moving, bounds, TearStages, Deleting
<1>6. CASE TearRecheck(d)
  <2>1. "recapture" \in TearStages /\ source.tip \in Commits
    BY DEF IInv, TypeOK, SourceOK, TearStages, Deleting
  <2>2. [tear[d] EXCEPT !.stage = "recapture", !.tip = source.tip] \in Tears
    BY <2>1, TearType DEF IInv, TypeOK
  <2>3. [tear EXCEPT ![d].stage = "recapture", ![d].tip = source.tip]
          \in [Directions -> Tears]
    BY <2>2 DEF IInv, TypeOK, TearOK
  <2>4. TearOK'
    BY <1>6, <2>3, TearEndsType DEF IInv, TypeOK, TearOK, TearRecheck
  <2>5. QED
    BY <1>6, <2>4
    DEF IInv, TypeOK, SourceOK, DestinationOK, MovingOK, BoundsOK, TearRecheck,
        moving, bounds
<1>7. CASE TearRecapture(d)
  BY <1>7, FreshType, TearGoesType, TearEndsType
  DEF IInv, TypeOK, SourceOK, DestinationOK, MovingOK, TearOK, BoundsOK,
      TearRecapture, moving, bounds, TearStages, Deleting
<1>8. CASE TearDelete(d)
  <2>1. "answer" \in TearStages /\ tear[d].late \in BOOLEAN
    BY DEF IInv, TypeOK, TearOK, Tears, TearStages
  <2>2. [source EXCEPT !.here = FALSE, !.late = tear[d].late] \in
          [here : BOOLEAN, tip : Commits, onBranch : BOOLEAN,
           work : Edits, late : BOOLEAN]
    BY <2>1 DEF IInv, TypeOK, SourceOK
  <2>3. SourceOK'
    BY <1>8, <2>2 DEF IInv, TypeOK, SourceOK, TearDelete
  <2>4. TearOK'
    BY <1>8, <2>1, TearGoesType, TearEndsType
    DEF IInv, TypeOK, TearOK, TearDelete
  <2>5. QED
    BY <1>8, <2>3, <2>4
    DEF IInv, TypeOK, DestinationOK, MovingOK, BoundsOK, TearDelete, moving,
        bounds
<1>9. CASE TearForget(d)
  BY <1>9, TearEndsType
  DEF IInv, TypeOK, SourceOK, DestinationOK, MovingOK, TearOK, BoundsOK,
      TearForget, moving, bounds
<1>10. CASE TearStops(d)
  BY <1>10, TearEndsType
  DEF IInv, TypeOK, SourceOK, DestinationOK, MovingOK, TearOK, BoundsOK,
      TearStops, moving, bounds
<1>11. QED
  BY <1>1, <1>2, <1>3, <1>4, <1>5, <1>6, <1>7, <1>8, <1>9, <1>10 DEF TearStep

\* Of people and devices.
LEMMA EnvironmentTypes ==
    ASSUME IInv, Environment
    PROVE  TypeOK'
<1>1. CASE Edit
  <2>1. \A work \in {0, edits + 1} : work \in Edits
    BY <1>1, BoundsAssumption DEF IInv, TypeOK, BoundsOK, Edit, Edits
  <2>2. SourceOK'
    BY <1>1, <2>1 DEF IInv, TypeOK, SourceOK, Edit, Changed
  <2>3. TearOK'
    BY <1>1, ChangedType DEF IInv, TypeOK, Edit
  <2>4. QED
    BY <1>1, <2>2, <2>3, BoundsAssumption
    DEF IInv, TypeOK, DestinationOK, MovingOK, BoundsOK, Edit, Changed,
        moving, Edits
<1>2. CASE Commit
  <2>1. source.tip + 1 \in Commits /\ 0 \in Edits
    BY <1>2, BoundsAssumption
    DEF IInv, TypeOK, SourceOK, Commit, Commits, Edits
  <2>2. SourceOK'
    BY <1>2, <2>1 DEF IInv, TypeOK, SourceOK, Commit, Changed
  <2>3. TearOK'
    BY <1>2, ChangedType DEF IInv, TypeOK, Commit
  <2>4. QED
    BY <1>2, <2>2, <2>3
    DEF IInv, TypeOK, DestinationOK, MovingOK, BoundsOK, Commit, Changed,
        moving
<1>3. CASE Switch
  <2>1. SourceOK'
    BY <1>3 DEF IInv, TypeOK, SourceOK, Switch, Changed
  <2>2. TearOK'
    BY <1>3, ChangedType DEF IInv, TypeOK, Switch
  <2>3. QED
    BY <1>3, <2>1, <2>2, BoundsAssumption
    DEF IInv, TypeOK, DestinationOK, MovingOK, BoundsOK, Switch, Changed,
        moving, Edits
<1>4. CASE SourceStops
  BY <1>4, BoundsAssumption
  DEF IInv, TypeOK, SourceOK, DestinationOK, MovingOK, TearOK, BoundsOK,
      SourceStops, Lost, Calls, Forgotten, NoTear, CallStages, LandStages,
      Commits, TearStages, Tears
<1>5. CASE DestinationStops
  BY <1>5, BoundsAssumption
  DEF IInv, TypeOK, SourceOK, DestinationOK, MovingOK, TearOK, BoundsOK,
      DestinationStops, Lost, Forgotten, NoTear, CallStages, LandStages,
      Commits, TearStages, Tears
<1>6. QED
  BY <1>1, <1>2, <1>3, <1>4, <1>5 DEF Environment

--------------------------------------------------------------------------------
(* Every step keeps the rest of the invariant. *)

\* An attempt that starts had no landing, so no copy either.
LEMMA StartStages ==
    ASSUME IInv, NEW a \in Attempts, NEW d \in Directions,
           NEW mirror \in BOOLEAN, Start(a, d, mirror)
    PROVE  StageInv' /\ HeldInv' /\ LeftInv' /\ SweptInv'
  BY DEF IInv, TypeOK, MovingOK, Running, Holding, Kept, Working, StageInv,
      HeldInv, LeftInv, SweptInv, Holds, Made, RefHeld, Direction, Start

\* A cancel is only noted, and a drop owes nothing any more.
LEMMA CancelStages ==
    ASSUME IInv, NEW a \in Attempts, Cancel(a) \/ Drop(a)
    PROVE  StageInv' /\ HeldInv' /\ LeftInv' /\ SweptInv'
<1>1. CASE Cancel(a)
  BY <1>1
  DEF IInv, StageInv, HeldInv, LeftInv, SweptInv, Holds, Made, Direction,
      Cancel
<1>2. CASE Drop(a)
  BY <1>2
  DEF IInv, TypeOK, MovingOK, Holding, Kept, StageInv, HeldInv, LeftInv,
      SweptInv, Holds, Made, Direction, Drop, Goes
<1>3. QED
  BY <1>1, <1>2

\* A landing has a copy from its create on, which finds that nobody else has.
LEMMA LandingStages ==
    ASSUME IInv, NEW a \in Attempts, LandStep(a)
    PROVE  StageInv' /\ HeldInv' /\ LeftInv' /\ SweptInv'
<1>1. CASE LandRefusals(a)
  BY <1>1
  DEF IInv, Running, Holding, Working, StageInv, HeldInv, LeftInv, SweptInv,
      Holds, Made, RefHeld, LandRefusals, At, Goes
<1>2. CASE LandTip(a)
  BY <1>2
  DEF IInv, Running, Holding, Working, StageInv, HeldInv, LeftInv, SweptInv,
      Holds, Made, RefHeld, Direction, LandTip, At, Goes
<1>3. CASE LandCapture(a)
  BY <1>3
  DEF IInv, Running, Holding, Working, StageInv, HeldInv, LeftInv, SweptInv,
      Holds, Made, RefHeld, Direction, LandCapture, At, Goes
<1>4. CASE LandLocal(a)
  BY <1>4
  DEF IInv, Running, Holding, Working, StageInv, HeldInv, LeftInv, SweptInv,
      Holds, Made, RefHeld, Direction, LandLocal, At, Goes
<1>5. CASE LandFetch(a)
  BY <1>5
  DEF IInv, TypeOK, MovingOK, Running, Holding, Working, StageInv, HeldInv,
      LeftInv, SweptInv, Holds, Made, RefHeld, Direction, LandFetch, At, Goes
<1>6. CASE LandBase(a)
  BY <1>6
  DEF IInv, Running, Holding, Working, StageInv, HeldInv, LeftInv, SweptInv,
      Holds, Made, RefHeld, Direction, LandBase, At, Goes
<1>7. CASE LandCreate(a)
  <2>1. [by |-> a, base |-> incoming, work |-> 0] \in Copies
    BY <1>7, BoundsAssumption
    DEF IInv, TypeOK, DestinationOK, LandCreate, Copies, Edits
  <2>2. copy' # None /\ copy'.by = a
    BY <1>7, <2>1, NoneAssumption DEF LandCreate
  <2>3. \A b \in Attempts \ {a} : ~Holds(b)'
    BY <1>7
    DEF IInv, TypeOK, MovingOK, LandCreate, Goes, HeldInv, Holds, Made
  <2>4. HeldInv'
    BY <2>2, <2>3 DEF HeldInv, Made
  <2>5. StageInv'
    BY <1>7
    DEF IInv, TypeOK, MovingOK, StageInv, LandCreate, At, Goes, Direction,
        Running, Kept, Working
  <2>6. LeftInv' /\ SweptInv'
    BY <1>7, <2>2
    DEF IInv, TypeOK, MovingOK, LeftInv, SweptInv, LandCreate, At, Goes,
        Holding, RefHeld
  <2>7. QED
    BY <2>4, <2>5, <2>6
<1>8. CASE LandSetup(a)
  BY <1>8
  DEF IInv, Running, Holding, Working, StageInv, HeldInv, LeftInv, SweptInv,
      Holds, Made, RefHeld, LandSetup, At, Goes
<1>9. CASE LandApply(a)
  <2>1. copy' \in Copies /\ copy \in Copies /\ copy'.by = copy.by
    BY <1>9, HeldApply, ApplyType
  <2>2. copy # None /\ copy' # None
    BY <2>1, NoneAssumption
  <2>3. \A b \in Attempts : Direction(b)' = Direction(b)
    BY <1>9 DEF IInv, TypeOK, MovingOK, LandApply, Direction, Attempted
  <2>4. StageInv'
    BY <1>9, <2>3
    DEF IInv, TypeOK, MovingOK, StageInv, LandApply, At, Goes, Running, Kept,
        Working
  <2>5. HeldInv'
    BY <1>9, <2>1, <2>2
    DEF IInv, TypeOK, MovingOK, HeldInv, Holds, Made, LandApply, At, Goes,
        Holding, Kept
  <2>6. LeftInv' /\ SweptInv'
    BY <1>9, <2>1, <2>2
    DEF IInv, TypeOK, MovingOK, LeftInv, SweptInv, LandApply, At, Goes,
        Holding, Kept, RefHeld, Copies
  <2>7. QED
    BY <2>4, <2>5, <2>6
<1>10. CASE LandKeep(a)
  BY <1>10
  DEF IInv, TypeOK, MovingOK, Running, Holding, Kept, Working, StageInv,
      HeldInv, LeftInv, SweptInv, Holds, Made, Direction, LandKeep, At, Goes
<1>11. CASE LandFails(a)
  BY <1>11
  DEF IInv, TypeOK, MovingOK, DestinationOK, Running, Holding, Working,
      StageInv, HeldInv, LeftInv, SweptInv, Holds, Made, Copies, RefHeld,
      Direction, LandFails, Leaves, Goes
<1>12. QED
  BY <1>1, <1>2, <1>3, <1>4, <1>5, <1>6, <1>7, <1>8, <1>9, <1>10, <1>11
  DEF LandStep

\* A landing or a call that goes takes away its own copy, or says it could not.
LEMMA UnwindStages ==
    ASSUME IInv, NEW a \in Attempts, Unwind(a)
    PROVE  StageInv' /\ HeldInv' /\ LeftInv' /\ SweptInv'
<1>1. CASE LandInterrupted(a)
  BY <1>1
  DEF IInv, TypeOK, MovingOK, DestinationOK, Running, Holding, Working,
      StageInv, HeldInv, LeftInv, SweptInv, Holds, Made, Copies, RefHeld,
      Direction, LandInterrupted, Leaves, Goes
<1>2. CASE Sweep(a)
  BY <1>2
  DEF IInv, Running, Holding, StageInv, HeldInv, LeftInv, SweptInv, Holds,
      Made, Direction, Sweep, Goes
<1>3. CASE Undo(a)
  <2>1. Made(a)
    BY <1>3 DEF IInv, HeldInv, Holds, Holding, Undo
  <2>2. copy' = None \/ (copy' = copy /\ strayed' = TRUE)
    BY <1>3 DEF IInv, TypeOK, BoundsOK, Undo, CopyGoes
  <2>3. StageInv'
    BY <1>3
    DEF IInv, TypeOK, MovingOK, StageInv, Undo, CopyGoes, Goes, Direction,
        Running, Kept, Working
  <2>4. ~Holds(a)' /\ \A b \in Attempts : Holds(b)' => Holds(b)
    BY <1>3
    DEF IInv, TypeOK, MovingOK, StageInv, Holds, Undo, CopyGoes, Goes,
        Holding, Kept, Running, Working
  <2>5. HeldInv'
    BY <2>1, <2>2, <2>4 DEF IInv, HeldInv, Made
  <2>6. LeftInv' /\ SweptInv'
    BY <1>3, <2>1, <2>2
    DEF IInv, TypeOK, MovingOK, LeftInv, SweptInv, Undo, CopyGoes, Goes,
        RefHeld
  <2>7. QED
    BY <2>3, <2>5, <2>6
<1>4. CASE Closes(a)
  BY <1>4
  DEF IInv, TypeOK, MovingOK, Running, Holding, Kept, Working, StageInv,
      HeldInv, LeftInv, SweptInv, Holds, Made, RefHeld, Direction, Closes, Goes
<1>5. CASE PullGivesUp(a)
  BY <1>5
  DEF IInv, TypeOK, MovingOK, Running, Holding, Kept, StageInv, HeldInv,
      LeftInv, SweptInv, Holds, Made, RefHeld, PullGivesUp, Goes
<1>6. CASE SendGivesUp(a)
  BY <1>6
  DEF IInv, Kept, StageInv, HeldInv, LeftInv, SweptInv, Holds, Made, Direction,
      SendGivesUp
<1>7. CASE LateAnswer(a)
  <2>1. Made(a)
    BY <1>7 DEF IInv, HeldInv, Holds, Holding, LateAnswer
  <2>2. copy' = None \/ (copy' = copy /\ strayed' = TRUE)
    BY <1>7 DEF IInv, TypeOK, BoundsOK, LateAnswer, CopyGoes
  <2>3. StageInv'
    BY <1>7
    DEF IInv, TypeOK, MovingOK, StageInv, LateAnswer, CopyGoes, Goes, Direction,
        Running, Kept, Working
  <2>4. ~Holds(a)' /\ \A b \in Attempts : Holds(b)' => Holds(b)
    BY <1>7
    DEF IInv, TypeOK, MovingOK, StageInv, Holds, LateAnswer, CopyGoes, Goes,
        Holding, Kept, Running, Working
  <2>5. HeldInv'
    BY <2>1, <2>2, <2>4 DEF IInv, HeldInv, Made
  <2>6. LeftInv' /\ SweptInv'
    BY <1>7, <2>1, <2>2
    DEF IInv, TypeOK, MovingOK, LeftInv, SweptInv, LateAnswer, CopyGoes, Goes,
        RefHeld
  <2>7. QED
    BY <2>3, <2>5, <2>6
<1>8. CASE SendTakesBack(a)
  BY <1>8
  DEF IInv, Kept, StageInv, HeldInv, LeftInv, SweptInv, Holds, Made, Direction,
      SendTakesBack
<1>9. CASE RollBackSent(a)
  <2>1. Made(a)
    BY <1>9 DEF IInv, HeldInv, Holds, Kept, RollBackSent
  <2>2. copy' = None \/ (copy' = copy /\ strayed' = TRUE)
    BY <1>9 DEF IInv, TypeOK, BoundsOK, RollBackSent, CopyGoes
  <2>3. StageInv'
    BY <1>9
    DEF IInv, TypeOK, MovingOK, StageInv, RollBackSent, CopyGoes, Direction,
        Running, Kept, Working
  <2>4. ~Holds(a)' /\ \A b \in Attempts : Holds(b)' => Holds(b)
    BY <1>9
    DEF IInv, TypeOK, MovingOK, StageInv, Holds, RollBackSent, CopyGoes,
        Holding, Kept, Running, Working
  <2>5. HeldInv'
    BY <2>1, <2>2, <2>4 DEF IInv, HeldInv, Made
  <2>6. LeftInv' /\ SweptInv'
    BY <1>9, <2>1, <2>2
    DEF IInv, TypeOK, MovingOK, LeftInv, SweptInv, RollBackSent, CopyGoes,
        RefHeld
  <2>7. QED
    BY <2>3, <2>5, <2>6
<1>10. QED
  BY <1>1, <1>2, <1>3, <1>4, <1>5, <1>6, <1>7, <1>8, <1>9 DEF Unwind

\* A call that goes on has the copy its landing made.
LEMMA CallStepStages ==
    ASSUME IInv, NEW a \in Attempts, CallStep(a)
    PROVE  StageInv' /\ HeldInv' /\ LeftInv' /\ SweptInv'
<1>1. CASE Answer(a)
  BY <1>1
  DEF IInv, TypeOK, MovingOK, Running, Holding, Kept, Working, StageInv,
      HeldInv, LeftInv, SweptInv, Holds, Made, RefHeld, Answer, Goes
<1>2. CASE Remember(a)
  BY <1>2
  DEF IInv, Kept, StageInv, HeldInv, LeftInv, SweptInv, Holds, Made, Direction,
      Remember
<1>3. CASE OpenSession(a)
  BY <1>3
  DEF IInv, Kept, StageInv, HeldInv, LeftInv, SweptInv, Holds, Made, Direction,
      OpenSession
<1>4. QED
  BY <1>1, <1>2, <1>3 DEF CallStep

\* A teardown leaves the destination, and every move, alone.
LEMMA TearDownStages ==
    ASSUME IInv, NEW d \in Directions, TearStep(d)
    PROVE  StageInv' /\ HeldInv' /\ LeftInv' /\ SweptInv'
<1>1. UNCHANGED <<incoming, copy, moving, strayed>>
  BY DEF TearStep, TearAsk, TearTip, TearCapture, TearLook, TearCleanup,
         TearRecheck, TearRecapture, TearDelete, TearForget, TearStops
<1>2. QED
  BY <1>1
  DEF IInv, StageInv, HeldInv, LeftInv, SweptInv, Holds, Made, Direction,
      moving

\* So do people, and a device that stops leaves nothing to answer for.
LEMMA EnvironmentStages ==
    ASSUME IInv, Environment
    PROVE  StageInv' /\ HeldInv' /\ LeftInv' /\ SweptInv'
<1>1. CASE Edit
  BY <1>1
  DEF IInv, StageInv, HeldInv, LeftInv, SweptInv, Holds, Made, Direction, Edit,
      Changed, moving
<1>2. CASE Commit
  BY <1>2
  DEF IInv, StageInv, HeldInv, LeftInv, SweptInv, Holds, Made, Direction,
      Commit, Changed, moving
<1>3. CASE Switch
  BY <1>3
  DEF IInv, StageInv, HeldInv, LeftInv, SweptInv, Holds, Made, Direction,
      Switch, Changed, moving
<1>4. CASE SourceStops
  BY <1>4
  DEF IInv, TypeOK, MovingOK, Holding, Kept, UnderWay, StageInv, HeldInv,
      LeftInv, SweptInv, Holds, Made, Direction, Attempted, SourceStops, Lost,
      Calls
<1>5. CASE DestinationStops
  BY <1>5
  DEF IInv, TypeOK, MovingOK, Holding, Kept, UnderWay, StageInv, HeldInv,
      LeftInv, SweptInv, Holds, Made, Direction, Attempted, DestinationStops,
      Lost, Calls
<1>6. QED
  BY <1>1, <1>2, <1>3, <1>4, <1>5 DEF Environment

--------------------------------------------------------------------------------
\* Nothing is held before anything starts.
LEMMA InitHolds == Init => IInv
<1> SUFFICES ASSUME Init PROVE IInv
  OBVIOUS
<1>1. TypeOK
  <2>1. SourceOK /\ DestinationOK
    BY ZeroType, BoundsAssumption
    DEF Init, SourceOK, DestinationOK, Edits
  <2>2. MovingOK
    BY ZeroType
    DEF Init, MovingOK, CallStages, LandStages, NoFacts, Attempted
  <2>3. NoTear \in Tears
    BY ZeroType DEF NoTear, Tears, TearStages
  <2>4. TearOK
    BY <2>3 DEF Init, TearOK
  <2>5. edits \in Edits /\ cancels \in 0..MaxCancels /\ stops \in 0..MaxStops
    BY BoundsAssumption DEF Init, Edits
  <2>6. BoundsOK
    BY <2>5 DEF Init, BoundsOK
  <2>7. QED
    BY <2>1, <2>2, <2>4, <2>6 DEF TypeOK
<1>2. StageInv /\ HeldInv /\ LeftInv /\ SweptInv
  BY DEF Init, StageInv, HeldInv, LeftInv, SweptInv, Holds, Holding, Kept,
         Running, Working, NoFacts, Direction
<1>3. QED
  BY <1>1, <1>2 DEF IInv

\* A step that changes nothing keeps it.
LEMMA StutterKeeps ==
    ASSUME IInv, UNCHANGED vars
    PROVE  IInv'
<1>1. TypeOK'
  BY DEF IInv, TypeOK, SourceOK, DestinationOK, MovingOK, TearOK, BoundsOK,
         vars, moving, bounds
<1>2. StageInv' /\ HeldInv' /\ LeftInv' /\ SweptInv'
  BY DEF IInv, StageInv, HeldInv, LeftInv, SweptInv, Holds, Made, Direction,
         vars, moving, bounds
<1>3. QED
  BY <1>1, <1>2 DEF IInv

\* The invariant is inductive.
LEMMA StepKeeps == IInv /\ [Next]_vars => IInv'
<1> SUFFICES ASSUME IInv, [Next]_vars PROVE IInv'
  OBVIOUS
<1>1. ASSUME NEW a \in Attempts, NEW d \in Directions, NEW mirror \in BOOLEAN,
             Start(a, d, mirror)
      PROVE  IInv'
  BY <1>1, StartTypes, StartStages DEF IInv
<1>2. ASSUME NEW a \in Attempts, Cancel(a) \/ Drop(a)
      PROVE  IInv'
  BY <1>2, CancelTypes, CancelStages DEF IInv
<1>3. ASSUME NEW a \in Attempts, LandStep(a)
      PROVE  IInv'
  BY <1>3, LandTypes, LandingStages DEF IInv
<1>4. ASSUME NEW a \in Attempts, Unwind(a)
      PROVE  IInv'
  BY <1>4, UnwindTypes, UnwindStages DEF IInv
<1>5. ASSUME NEW a \in Attempts, CallStep(a)
      PROVE  IInv'
  BY <1>5, CallTypes, CallStepStages DEF IInv
<1>6. ASSUME NEW d \in Directions, TearStep(d)
      PROVE  IInv'
  BY <1>6, TearTypes, TearDownStages DEF IInv
<1>7. CASE Environment
  BY <1>7, EnvironmentTypes, EnvironmentStages DEF IInv
<1>8. CASE Quiet \/ UNCHANGED vars
  BY <1>8, StutterKeeps DEF Quiet
<1>9. QED
  BY <1>1, <1>2, <1>3, <1>4, <1>5, <1>6, <1>7, <1>8 DEF Next

\* In every behaviour the invariant holds throughout.
LEMMA Invariance == Spec => []IInv
<1>1. Init => IInv
  BY InitHolds
<1>2. IInv /\ [Next]_vars => IInv'
  BY StepKeeps
<1>3. QED
  BY <1>1, <1>2, PTL DEF Spec

--------------------------------------------------------------------------------
\* Every variable is of its type, for any number of moves, commits and edits.
THEOREM TypeCorrect == Spec => []TypeOK
<1>1. IInv => TypeOK
  BY DEF IInv
<1>2. QED
  BY <1>1, Invariance, PTL

\* A move that was cancelled or failed leaves no copy on the destination: its
\* undo, the late answer and the take-back cover every step it can end at.
THEOREM LeavesNoCopy == Spec => []NoCopyLeft
<1>1. IInv => NoCopyLeft
  BY DEF IInv, LeftInv, NoCopyLeft, Holding, Kept, UnderWay, Working
<1>2. QED
  BY <1>1, Invariance, PTL

\* The ref a branch arrived under goes with the last landing, though two
\* landings share it and either may sweep it.
THEOREM SweepsIncoming == Spec => []IncomingSwept
<1>1. IInv => IncomingSwept
  BY DEF IInv, SweptInv, IncomingSwept, RefHeld, Working
<1>2. QED
  BY <1>1, Invariance, PTL

\* Neither is left by a move that did not finish.
THEOREM LeavesNothingBehind == Spec => []LeavesNothing
  BY LeavesNoCopy, SweepsIncoming, PTL DEF LeavesNothing

\* The removal of a copy by its path's id is of the attempt's own.
LEMMA OwnRemoval ==
    ASSUME IInv, NEW a \in Attempts, copy # None, call[copy.by] = "moved"
    PROVE  /\ ~Undo(a) /\ ~LateAnswer(a) /\ ~RollBackSent(a)
           /\ ~LandCreate(a) /\ ~LandApply(a)
<1>1. Holds(a) => copy.by = a
  BY DEF IInv, HeldInv, Made
<1>2. land[a] \in Holding => call[a] # "moved"
  BY DEF IInv, StageInv, Holding
<1>3. QED
  BY <1>1, <1>2
  DEF Holds, Holding, Kept, Undo, LateAnswer, RollBackSent, LandCreate,
      LandApply, At

\* A finished move's copy outlives every step, whatever other moves of the same
\* worktree are under way.
LEMMA FinishedStays ==
    ASSUME IInv, [Next]_vars, copy # None, call[copy.by] = "moved"
    PROVE  copy' = copy
<1>1. ASSUME NEW a \in Attempts,
             \/ \E d \in Directions, m \in BOOLEAN : Start(a, d, m)
             \/ Cancel(a) \/ Drop(a)
      PROVE  copy' = copy
  BY <1>1 DEF Start, Cancel, Drop
<1>2. ASSUME NEW a \in Attempts, LandStep(a)
      PROVE  copy' = copy
  BY <1>2, OwnRemoval
  DEF LandStep, LandRefusals, LandTip, LandCapture, LandLocal, LandFetch,
      LandBase, LandSetup, LandKeep, LandFails, Leaves
<1>3. ASSUME NEW a \in Attempts, Unwind(a) \/ CallStep(a)
      PROVE  copy' = copy
  BY <1>3, OwnRemoval
  DEF Unwind, CallStep, LandInterrupted, Leaves, Sweep, Closes, PullGivesUp,
      SendGivesUp, SendTakesBack, Answer, Remember, OpenSession
<1>4. ASSUME NEW d \in Directions, TearStep(d)
      PROVE  copy' = copy
  BY <1>4
  DEF TearStep, TearAsk, TearTip, TearCapture, TearLook, TearCleanup,
      TearRecheck, TearRecapture, TearDelete, TearForget, TearStops
<1>5. CASE Environment \/ Quiet \/ UNCHANGED vars
  BY <1>5
  DEF Environment, Edit, Commit, Switch, Changed, SourceStops,
      DestinationStops, Quiet, vars
<1>6. QED
  BY <1>1, <1>2, <1>3, <1>4, <1>5 DEF Next

\* No undo takes the copy of a move that finished.
THEOREM KeepsFinishedCopy == Spec => FinishedCopyStays
<1> DEFINE A == copy # None /\ call[copy.by] = "moved" => copy' = copy
<1>1. IInv /\ [Next]_vars => [A]_vars
  BY FinishedStays
<1>2. QED
  BY <1>1, Invariance, PTL DEF Spec, FinishedCopyStays

--------------------------------------------------------------------------------
(* Nothing is lost, where one move is under way at a time and none starts a    *)
(* mirror (transfer_twice shows what two at once lose).  A copy has what its   *)
(* attempt read (CarriedInv), because nobody else's ref comes between that     *)
(* attempt's fetch and its create (AloneInv); a kept receipt is of that copy   *)
(* (ReceiptInv), which stands; and a teardown works from it and from what the  *)
(* source was at each of its looks (TearInv).                                  *)

OneAtATime == ~Overlap /\ ~Mirrors

Landing == Working \ {"refusals"}
Early == {"none", "refusals", "tip", "capture", "local", "fetch", "base",
          "create"}

\* A move begins once those before it are over; one of the other direction when
\* their landings are, too.
SeqInv ==
    \A a, b \in Attempts : a < b /\ call[b] # "unused" =>
       /\ call[a] \notin UnderWay \cup {"unused"}
       /\ Direction(a) # Direction(b) => land[a] \in Settled

\* A landing works for a call, or its link is gone.
EndInv ==
    \A a \in Attempts :
       /\ ~facts[a].mirror
       /\ land[a] \in Working =>
            call[a] = "landing" \/ (Direction(a) = "send" /\ a \in cut)

\* One landing works at a time, past the refusals.
AloneInv ==
    \A a, b \in Attempts :
       a < b /\ land[b] \in Landing => land[a] \notin Working

\* Before its create an attempt has no copy and has applied nothing.
EarlyInv ==
    \A a \in Attempts :
       /\ facts[a].tip <= source.tip
       /\ land[a] \in Early => ~Made(a) /\ ~facts[a].applied

\* The ref that came is not behind the tip the landing read.
BroughtInv ==
    \A a \in Attempts :
       /\ incoming # None
       /\ land[a] = "create" \/ (land[a] = "base" /\ ~facts[a].local)
       => facts[a].tip <= incoming

\* A copy has what its attempt read, as far as it says it does.
CarriedInv ==
    copy # None =>
      LET f == facts[copy.by] IN
      /\ f.tip <= copy.base
      /\ f.applied => /\ f.capture # None /\ f.capture.base = copy.base
                      /\ copy.work = f.capture.work

\* A receipt is the last move's, whose copy stands.
ReceiptInv ==
    \A d \in Directions : receipts[d] # None =>
       /\ copy # None /\ call[copy.by] = "moved" /\ Direction(copy.by) = d
       /\ receipts[d] = Receipt(copy.by)

\* What a removal saw last is still so.
LastLook(t) ==
    /\ t.stage = "recapture" => source.onBranch /\ source.tip = t.tip
    /\ t.stage = "delete" =>
         /\ source.onBranch /\ source.tip = t.receipt.tip
         /\ t.receipt.capture \in {None, Fresh}
TearInv ==
    \A d \in Directions : tear[d].stage # "idle" =>
       /\ receipts[d] # None /\ tear[d].receipt = receipts[d]
       /\ /\ tear[d].stage \in Deleting \cup {"look"}
          /\ tear[d].receipt.capture # None
          => tear[d].receipt.applied
       /\ tear[d].stage \in Deleting => source.here
       /\ ~tear[d].late => LastLook(tear[d])

\* What went is at a copy that stays.
GoneInv ==
    ~source.here /\ ~source.late => Whole /\ call[copy.by] = "moved"

CallInv == SeqInv /\ EndInv /\ AloneInv
CopyInv == EarlyInv /\ BroughtInv /\ CarriedInv
WorkInv == IInv /\ CallInv /\ CopyInv /\ ReceiptInv /\ TearInv /\ GoneInv

\* Calls and landings, where neither moves, or a step of theirs leaves each
\* landing as it was, further along or at its end.
LEMMA CallsApart ==
    ASSUME CallInv, UNCHANGED moving
    PROVE  CallInv'
  BY DEF CallInv, SeqInv, EndInv, AloneInv, moving, Direction

\* A move that starts is alone with those that are over.
LEMMA StartCalls ==
    ASSUME OneAtATime, IInv, CallInv, NEW a \in Attempts, NEW d \in Directions,
           NEW mirror \in BOOLEAN, Start(a, d, mirror)
    PROVE  CallInv'
<1>1. /\ call' = [call EXCEPT ![a] = "landing"]
      /\ land' = [land EXCEPT ![a] = "refusals"]
      /\ facts' = [facts EXCEPT ![a].direction = d, ![a].mirror = mirror]
      /\ call[a] = "unused" /\ land[a] = "none"
      /\ mirror = FALSE /\ UNCHANGED cut
  BY DEF Start, OneAtATime, IInv, StageInv
<1>2. /\ \A b \in Attempts \ {a} : /\ call'[b] = call[b] /\ land'[b] = land[b]
                                   /\ facts'[b] = facts[b]
      /\ call'[a] = "landing" /\ land'[a] = "refusals" /\ cut' = cut
      /\ facts'[a].direction = d /\ ~facts'[a].mirror
  BY <1>1 DEF IInv, TypeOK, MovingOK, Attempted
<1>3. /\ \A b \in Attempts : b < a => call[b] # "unused"
      /\ \A b \in Attempts : call[b] \notin UnderWay
      /\ \A b \in Attempts : Direction(b) # d => land[b] \in Settled
  BY DEF Start, OneAtATime, Busy, OtherDevice
<1>4. \A b \in Attempts : a < b => call[b] = "unused"
  BY <1>1 DEF CallInv, SeqInv
<1>5. SeqInv'
  BY <1>2, <1>3, <1>4 DEF CallInv, SeqInv, Direction
<1>6. EndInv'
  BY <1>2 DEF CallInv, EndInv, Direction
<1>7. AloneInv'
  <2>1. \A b \in Attempts : a < b => land[b] = "none"
    BY <1>4 DEF IInv, StageInv
  <2>2. QED
    BY <1>2, <2>1 DEF CallInv, AloneInv, Landing, Working
<1>8. QED
  BY <1>5, <1>6, <1>7 DEF CallInv

\* A step of one attempt's call or landing that goes no way back.
LEMMA OneMoves ==
    ASSUME CallInv, NEW a \in Attempts,
           \A b \in Attempts \ {a} :
              call'[b] = call[b] /\ land'[b] = land[b] /\ facts'[b] = facts[b],
           facts'[a].direction = facts[a].direction,
           facts'[a].mirror = facts[a].mirror,
           cut \subseteq cut',
           call[a] # "unused", call'[a] # "unused",
           call'[a] \in UnderWay => call[a] \in UnderWay,
           land[a] \in Settled /\ call[a] \notin UnderWay => land'[a] \in Settled,
           land'[a] \in Working =>
              /\ land[a] \in Working
              /\ call'[a] = "landing" \/ (Direction(a) = "send" /\ a \in cut'),
           land'[a] \in Landing =>
              \/ land[a] \in Landing
              \/ \A b \in Attempts : b < a => land[b] \notin Working
    PROVE  CallInv'
<1>1. SeqInv'
  BY DEF CallInv, SeqInv, Direction
<1>2. EndInv'
  BY DEF CallInv, EndInv, Direction
<1>3. AloneInv'
  BY DEF CallInv, AloneInv
<1>4. QED
  BY <1>1, <1>2, <1>3 DEF CallInv

\* An interrupt is only noted, and a drop fails the call and ends its link.
LEMMA CancelCalls ==
    ASSUME IInv, CallInv, NEW a \in Attempts, Cancel(a) \/ Drop(a)
    PROVE  CallInv'
<1>1. CASE Cancel(a)
  BY <1>1 DEF CallInv, SeqInv, EndInv, AloneInv, Direction, Cancel
<1>2. CASE Drop(a)
  BY <1>2, OneMoves
  DEF IInv, TypeOK, MovingOK, Drop, Goes, UnderWay, Working, Settled, Landing,
      Direction
<1>3. QED
  BY <1>1, <1>2

\* Past its refusals a landing finds none before it at work: a link that is
\* gone was heard of, and a call that is over has ended its own.
LEMMA RefusalsAlone ==
    ASSUME CallInv, NEW a \in Attempts, LandRefusals(a), call[a] # "unused"
    PROVE  \A b \in Attempts : b < a => land[b] \notin Working
<1> SUFFICES ASSUME NEW b \in Attempts, b < a, land[b] \in Working
             PROVE  FALSE
  OBVIOUS
<1>1. call[b] # "landing" /\ Direction(b) = Direction(a)
  BY DEF CallInv, SeqInv, UnderWay, Working, Settled
<1>2. Direction(b) = "send" /\ b \in cut
  BY <1>1 DEF CallInv, EndInv
<1>3. QED
  BY <1>1, <1>2 DEF LandRefusals

\* A landing goes on, in its turn.
LEMMA LandCalls ==
    ASSUME IInv, CallInv, NEW a \in Attempts, LandStep(a)
    PROVE  CallInv'
<1>1. CASE LandRefusals(a)
  <2>1. call[a] # "unused"
    BY <1>1 DEF IInv, StageInv, LandRefusals, At
  <2>2. \A b \in Attempts : b < a => land[b] \notin Working
    BY <1>1, <2>1, RefusalsAlone
  <2>3. land[a] = "refusals" /\ land' = [land EXCEPT ![a] = "tip"]
        /\ UNCHANGED <<call, facts, cut>>
    BY <1>1 DEF LandRefusals, At, Goes
  <2>4. call[a] = "landing" \/ (Direction(a) = "send" /\ a \in cut)
    BY <2>3 DEF CallInv, EndInv, Working
  <2>5. QED
    BY <2>1, <2>2, <2>3, <2>4, OneMoves
    DEF IInv, TypeOK, MovingOK, UnderWay, Working, Settled, Direction
<1>2. ASSUME land[a] \in Working \ {"refusals"},
             \/ LandTip(a) \/ LandCapture(a) \/ LandLocal(a) \/ LandFetch(a)
             \/ LandBase(a) \/ LandCreate(a) \/ LandSetup(a) \/ LandApply(a)
             \/ LandKeep(a)
      PROVE  CallInv'
  <2>1. /\ \A b \in Attempts \ {a} : /\ call'[b] = call[b] /\ land'[b] = land[b]
                                     /\ facts'[b] = facts[b]
        /\ facts'[a].direction = facts[a].direction
        /\ facts'[a].mirror = facts[a].mirror
        /\ cut' = cut
    BY <1>2
    DEF IInv, TypeOK, MovingOK, Attempted, LandTip, LandCapture, LandLocal,
        LandFetch, LandBase, LandCreate, LandSetup, LandApply, LandKeep, Goes
  <2>2. /\ land'[a] \in Working => call'[a] = call[a]
        /\ call'[a] # call[a] => call'[a] = "files" /\ Direction(a) = "pull"
    BY <1>2
    DEF IInv, TypeOK, MovingOK, LandTip, LandCapture, LandLocal,
        LandFetch, LandBase, LandCreate, LandSetup, LandApply, LandKeep, Goes,
        Working
  <2>3. /\ call[a] # "unused"
        /\ call[a] = "landing" \/ (Direction(a) = "send" /\ a \in cut)
    BY <1>2 DEF IInv, StageInv, CallInv, EndInv, Working
  <2>4. QED
    BY <1>2, <2>1, <2>2, <2>3, OneMoves
    DEF UnderWay, Working, Settled, Landing, Direction
<1>3. CASE LandFails(a)
  BY <1>3, OneMoves
  DEF IInv, TypeOK, MovingOK, StageInv, LandFails, Leaves, Goes, UnderWay,
      Working, Settled, Landing
<1>4. QED
  BY <1>1, <1>2, <1>3
  DEF LandStep, LandTip, LandCapture, LandLocal, LandFetch, LandBase, LandCreate,
      LandSetup, LandApply, LandKeep, At, Working

\* A landing that ends does no more work, and a call that does starts none.
LEMMA UnwindCalls ==
    ASSUME IInv, CallInv, NEW a \in Attempts, Unwind(a)
    PROVE  CallInv'
<1>1. /\ \A b \in Attempts \ {a} : call'[b] = call[b] /\ land'[b] = land[b]
      /\ facts' = facts /\ cut \subseteq cut'
  BY DEF IInv, TypeOK, MovingOK, Unwind, LandInterrupted, Leaves, Sweep, Undo,
         Closes, PullGivesUp, SendGivesUp, LateAnswer, SendTakesBack,
         RollBackSent, CopyGoes, Goes
<1>2. /\ call[a] # "unused" /\ call'[a] # "unused"
      /\ call'[a] \in UnderWay => call[a] \in UnderWay
      /\ land[a] \in Settled /\ call[a] \notin UnderWay => land'[a] \in Settled
  BY DEF IInv, TypeOK, MovingOK, StageInv, Unwind, LandInterrupted, Leaves,
         Sweep, Undo, Closes, PullGivesUp, SendGivesUp, LateAnswer,
         SendTakesBack, RollBackSent, CopyGoes, Goes, UnderWay, Working, Settled
<1>3. land'[a] \in Working =>
         /\ land[a] = land'[a]
         /\ call'[a] = "landing" \/ (Direction(a) = "send" /\ a \in cut')
  <2>1. CASE SendGivesUp(a)
    BY <2>1 DEF SendGivesUp
  <2>2. CASE SendTakesBack(a) \/ RollBackSent(a)
    BY <2>2
    DEF IInv, StageInv, SendTakesBack, RollBackSent, CopyGoes, Kept, Working
  <2>3. CASE \/ LandInterrupted(a) \/ Sweep(a) \/ Undo(a) \/ Closes(a)
             \/ PullGivesUp(a) \/ LateAnswer(a)
    BY <2>3
    DEF IInv, TypeOK, MovingOK, LandInterrupted, Leaves, Sweep, Undo, Closes,
        PullGivesUp, LateAnswer, CopyGoes, Goes, Working
  <2>4. QED
    BY <2>1, <2>2, <2>3 DEF Unwind
<1>4. QED
  BY <1>1, <1>2, <1>3, OneMoves DEF Landing

\* A call goes on past its landing.
LEMMA CallStepCalls ==
    ASSUME IInv, CallInv, NEW a \in Attempts, CallStep(a)
    PROVE  CallInv'
<1>1. /\ \A b \in Attempts \ {a} : call'[b] = call[b] /\ land'[b] = land[b]
      /\ facts' = facts /\ cut' = cut
      /\ call[a] \in UnderWay /\ call'[a] # "unused"
      /\ land'[a] \in {"kept", "over"}
  BY DEF IInv, TypeOK, MovingOK, StageInv, CallStep, Answer, Remember,
         OpenSession, Goes, UnderWay, Kept
<1>2. QED
  BY <1>1, OneMoves DEF UnderWay, Working, Settled, Landing

\* A device that stops ends its calls, and the links of those it sent with.
LEMMA StopsCalls ==
    ASSUME IInv, CallInv, SourceStops \/ DestinationStops
    PROVE  CallInv'
<1>1. facts' = facts /\ \A a \in Attempts : Direction(a)' = Direction(a)
  BY DEF SourceStops, DestinationStops, Direction
<1>2. /\ \A a \in Attempts : Direction(a) \in {"pull", "send"}
      /\ \A a \in Attempts : call[a] = "unused" <=> land[a] = "none"
  BY DEF IInv, TypeOK, MovingOK, Attempted, StageInv, Direction
<1>3. CASE SourceStops
  <2>1. \A a \in Attempts :
           /\ call'[a] = "unused" <=> call[a] = "unused"
           /\ call'[a] \in UnderWay => call'[a] = call[a]
           /\ land[a] \in Settled => land'[a] \in Settled
           /\ land'[a] \in Working => land'[a] = land[a]
           /\ land'[a] \in Working /\ call'[a] # call[a]
                => Direction(a) = "send" /\ a \in cut'
    BY <1>2, <1>3
    DEF SourceStops, Lost, Calls, UnderWay, Settled, Working
  <2>2. cut \subseteq cut'
    BY <1>3 DEF SourceStops
  <2>3. SeqInv'
    BY <1>1, <2>1 DEF CallInv, SeqInv, UnderWay
  <2>4. EndInv'
    BY <1>1, <2>1, <2>2 DEF CallInv, EndInv
  <2>5. AloneInv'
    BY <2>1 DEF CallInv, AloneInv, Landing
  <2>6. QED
    BY <2>3, <2>4, <2>5 DEF CallInv
<1>4. CASE DestinationStops
  <2>1. \A a \in Attempts :
           /\ call'[a] = "unused" <=> call[a] = "unused"
           /\ call'[a] \in UnderWay => call'[a] = call[a]
           /\ land'[a] \in Settled /\ land'[a] \notin Working
    BY <1>2, <1>4
    DEF DestinationStops, Lost, Calls, UnderWay, Settled, Working
  <2>2. SeqInv'
    BY <1>1, <2>1 DEF CallInv, SeqInv, UnderWay
  <2>3. EndInv' /\ AloneInv'
    BY <1>1, <2>1 DEF CallInv, EndInv, AloneInv, Landing
  <2>4. QED
    BY <2>2, <2>3 DEF CallInv
<1>5. QED
  BY <1>3, <1>4

\* What a landing read, and the copy, where none of both comes to be.
LEMMA CopyStays ==
    ASSUME IInv, CopyInv,
           \A a \in Attempts : /\ facts'[a].tip = facts[a].tip
                               /\ facts'[a].capture = facts[a].capture
                               /\ facts'[a].local = facts[a].local
                               /\ facts'[a].applied = facts[a].applied,
           \A a \in Attempts : /\ land'[a] \in Early => land[a] \in Early
                               /\ land'[a] \in {"base", "create"}
                                    => land'[a] = land[a],
           source.tip <= source'.tip, source'.tip \in Commits,
           copy' \in {copy, None}, incoming' \in {incoming, None}
    PROVE  CopyInv'
<1>1. \A a \in Attempts : /\ facts[a].tip \in Nat
                          /\ source.tip \in Nat /\ source'.tip \in Nat
  BY DEF IInv, TypeOK, SourceOK, MovingOK, Attempted, Commits
<1>2. EarlyInv'
  BY <1>1 DEF CopyInv, EarlyInv, Made
<1>3. BroughtInv'
  BY DEF CopyInv, BroughtInv
<1>4. CarriedInv'
  BY DEF IInv, TypeOK, DestinationOK, Copies, CopyInv, CarriedInv
<1>5. QED
  BY <1>2, <1>3, <1>4 DEF CopyInv

\* A question's answer goes into what its landing knows, before it has a copy.
LEMMA ReadsCopy ==
    ASSUME IInv, CopyInv, NEW a \in Attempts,
           LandTip(a) \/ LandCapture(a) \/ LandLocal(a)
    PROVE  CopyInv'
<1>1. /\ land[a] \in {"tip", "capture", "local"}
      /\ land'[a] \in {"capture", "local", "fetch"}
      /\ \A b \in Attempts \ {a} : land'[b] = land[b] /\ facts'[b] = facts[b]
      /\ facts'[a].applied = facts[a].applied
      /\ facts'[a].tip \in {facts[a].tip, source.tip}
      /\ UNCHANGED <<source, copy, incoming>>
  BY DEF IInv, TypeOK, MovingOK, Attempted, LandTip, LandCapture, LandLocal, At,
         Goes
<1>2. copy # None => copy.by # a /\ copy.by \in Attempts
  BY <1>1 DEF IInv, TypeOK, DestinationOK, Copies, CopyInv, EarlyInv, Early, Made
<1>3. EarlyInv'
  <2>1. facts'[a].tip <= source.tip
    BY <1>1
    DEF IInv, TypeOK, SourceOK, MovingOK, Attempted, Commits, CopyInv, EarlyInv
  <2>2. QED
    BY <1>1, <2>1 DEF CopyInv, EarlyInv, Early, Made
<1>4. BroughtInv'
  BY <1>1 DEF CopyInv, BroughtInv
<1>5. CarriedInv'
  BY <1>1, <1>2 DEF CopyInv, CarriedInv
<1>6. QED
  BY <1>3, <1>4, <1>5 DEF CopyInv

\* The ref comes as the source's, or is set to the tip that was there already;
\* no other landing is then on its way to a create.
LEMMA BringsCopy ==
    ASSUME IInv, CallInv, CopyInv, NEW a \in Attempts, LandFetch(a) \/ LandBase(a)
    PROVE  CopyInv'
<1>1. /\ land[a] \in {"fetch", "base"}
      /\ land'[a] = IF land[a] = "fetch" THEN "base" ELSE "create"
      /\ \A b \in Attempts \ {a} : land'[b] = land[b]
      /\ UNCHANGED <<source, copy, facts>>
      /\ land[a] = "fetch" => incoming' = IF ~facts[a].local THEN source.tip
                                                            ELSE incoming
      /\ land[a] = "base" => incoming' = IF facts[a].local THEN facts[a].tip
                                                           ELSE incoming
  BY DEF IInv, TypeOK, MovingOK, LandFetch, LandBase, At, Goes
<1>2. \A b \in Attempts \ {a} : land[b] \notin {"base", "create"}
  BY <1>1
  DEF IInv, TypeOK, MovingOK, CallInv, AloneInv, Landing, Working, Attempts
<1>3. facts[a].tip <= source.tip /\ facts[a].tip <= facts[a].tip
  BY DEF IInv, TypeOK, MovingOK, Attempted, Commits, CopyInv, EarlyInv
<1>4. EarlyInv'
  BY <1>1 DEF CopyInv, EarlyInv, Early, Made
<1>5. BroughtInv'
  BY <1>1, <1>2, <1>3 DEF CopyInv, BroughtInv
<1>6. CarriedInv'
  BY <1>1 DEF CopyInv, CarriedInv
<1>7. QED
  BY <1>4, <1>5, <1>6 DEF CopyInv

\* A copy is made of the ref that came, not behind the tip that was read.
LEMMA CreatesCopy ==
    ASSUME IInv, CopyInv, NEW a \in Attempts, LandCreate(a)
    PROVE  CopyInv'
<1>1. /\ land[a] = "create" /\ incoming # None
      /\ land' = [land EXCEPT ![a] = "setup"]
      /\ copy' = [by |-> a, base |-> incoming, work |-> 0]
      /\ UNCHANGED <<source, incoming, facts>>
  BY DEF LandCreate, At, Goes
<1>2. facts[a].tip <= incoming /\ ~facts[a].applied
  BY <1>1 DEF CopyInv, EarlyInv, BroughtInv, Early
<1>3. EarlyInv'
  BY <1>1 DEF IInv, TypeOK, MovingOK, CopyInv, EarlyInv, Early, Made
<1>4. BroughtInv'
  BY <1>1 DEF IInv, TypeOK, MovingOK, CopyInv, BroughtInv
<1>5. CarriedInv'
  BY <1>1, <1>2 DEF CarriedInv
<1>6. QED
  BY <1>3, <1>4, <1>5 DEF CopyInv

\* The capture goes onto the commit it was taken on, or stays unapplied.
LEMMA AppliesCopy ==
    ASSUME IInv, CopyInv, NEW a \in Attempts, LandApply(a)
    PROVE  CopyInv'
<1> DEFINE capture == facts[a].capture
           fits == capture # None /\ capture.base = copy.base
<1>1. PICK clear \in BOOLEAN :
        /\ facts' = [facts EXCEPT ![a].applied = clear /\ fits]
        /\ copy' = IF clear /\ fits THEN [copy EXCEPT !.work = capture.work]
                                    ELSE copy
  BY DEF LandApply
<1>2. facts[a] \in Attempted /\ copy \in Copies /\ copy.by = a
  BY HeldApply DEF TypeOK, MovingOK
<1>3. copy # None
  BY <1>2, NoneAssumption
<1>4. /\ land[a] = "apply" /\ land' = [land EXCEPT ![a] = "keep"]
      /\ UNCHANGED <<source, incoming>>
  BY DEF LandApply, At, Goes
<1>5. /\ \A b \in Attempts \ {a} : facts'[b] = facts[b]
      /\ facts'[a] = [facts[a] EXCEPT !.applied = clear /\ fits]
  BY <1>1 DEF IInv, TypeOK, MovingOK
<1>6. /\ facts'[a].tip = facts[a].tip /\ facts'[a].capture = capture
      /\ facts'[a].applied = (clear /\ fits)
  BY <1>2, <1>5 DEF Attempted
<1>7. /\ copy'.by = a /\ copy'.base = copy.base
      /\ clear /\ fits => copy'.work = capture.work
  BY <1>1, <1>2 DEF Copies
<1>8. EarlyInv'
  BY <1>3, <1>4, <1>5, <1>6, <1>7
  DEF IInv, TypeOK, MovingOK, CopyInv, EarlyInv, Early, Made
<1>9. BroughtInv'
  BY <1>4, <1>5 DEF IInv, TypeOK, MovingOK, CopyInv, BroughtInv
<1>10. CarriedInv'
  BY <1>2, <1>3, <1>6, <1>7 DEF CopyInv, CarriedInv
<1>11. QED
  BY <1>8, <1>9, <1>10 DEF CopyInv

\* What a landing read and the copy it made, whatever the step.
LEMMA StepCopies ==
    ASSUME IInv, CallInv, CopyInv, [Next]_vars
    PROVE  CopyInv'
<1>1. source.tip <= source.tip /\ source.tip \in Commits
  BY DEF IInv, TypeOK, SourceOK, Commits
<1>2. ASSUME NEW a \in Attempts, NEW d \in Directions, NEW mirror \in BOOLEAN,
             Start(a, d, mirror)
      PROVE  CopyInv'
  <2>1. \A b \in Attempts : /\ facts'[b].tip = facts[b].tip
                            /\ facts'[b].capture = facts[b].capture
                            /\ facts'[b].local = facts[b].local
                            /\ facts'[b].applied = facts[b].applied
    BY <1>2 DEF IInv, TypeOK, MovingOK, Attempted, Start
  <2>2. land[a] = "none" /\ land' = [land EXCEPT ![a] = "refusals"]
    BY <1>2 DEF IInv, StageInv, Start
  <2>3. UNCHANGED <<source, copy, incoming>>
    BY <1>2 DEF Start
  <2>4. QED
    BY <1>1, <2>1, <2>2, <2>3, CopyStays DEF IInv, TypeOK, MovingOK, Early
<1>3. ASSUME NEW a \in Attempts, Cancel(a) \/ Drop(a) \/ CallStep(a)
      PROVE  CopyInv'
  BY <1>1, <1>3, CopyStays
  DEF IInv, TypeOK, MovingOK, Cancel, Drop, CallStep, Answer, Remember,
      OpenSession, Goes, Early
<1>4. ASSUME NEW a \in Attempts,
             \/ LandRefusals(a) \/ LandSetup(a) \/ LandKeep(a) \/ LandFails(a)
      PROVE  CopyInv'
  BY <1>1, <1>4, CopyStays
  DEF IInv, TypeOK, MovingOK, LandRefusals, LandSetup, LandKeep, LandFails,
      Leaves, At, Goes, Early
<1>5. ASSUME NEW a \in Attempts, LandStep(a)
      PROVE  CopyInv'
  BY <1>4, <1>5, ReadsCopy, BringsCopy, CreatesCopy, AppliesCopy DEF LandStep
<1>6. ASSUME NEW a \in Attempts, Unwind(a)
      PROVE  CopyInv'
  <2>1. /\ \A b \in Attempts \ {a} : land'[b] = land[b]
        /\ land'[a] \notin Early \/ land'[a] = land[a]
        /\ copy' \in {copy, None} /\ incoming' \in {incoming, None}
        /\ UNCHANGED <<source, facts>>
    BY <1>6
    DEF IInv, TypeOK, MovingOK, Unwind, LandInterrupted, Leaves, Sweep, Undo,
        Closes, PullGivesUp, SendGivesUp, LateAnswer, SendTakesBack,
        RollBackSent, CopyGoes, Goes, Early
  <2>2. QED
    BY <1>1, <2>1, CopyStays DEF Early
<1>7. ASSUME NEW d \in Directions, TearStep(d)
      PROVE  CopyInv'
  <2>1. /\ UNCHANGED <<land, facts, copy, incoming>>
        /\ source'.tip = source.tip
    BY <1>7
    DEF TearStep, TearAsk, TearTip, TearCapture, TearLook, TearCleanup,
        TearRecheck, TearRecapture, TearDelete, TearForget, TearStops, moving,
        IInv, TypeOK, SourceOK
  <2>2. QED
    BY <1>1, <2>1, CopyStays
<1>8. CASE Environment
  <2>1. UNCHANGED <<facts, copy, incoming>>
    BY <1>8
    DEF Environment, Edit, Commit, Switch, Changed, SourceStops,
        DestinationStops, moving
  <2>2. source.tip <= source'.tip /\ source'.tip \in Commits
    <3>1. CASE Edit \/ Switch \/ SourceStops \/ DestinationStops
      <4>1. source'.tip = source.tip
        BY <3>1
        DEF Edit, Switch, SourceStops, DestinationStops, IInv, TypeOK, SourceOK
      <4>2. QED
        BY <1>1, <4>1
    <3>2. CASE Commit
      <4>1. source'.tip = source.tip + 1 /\ source.tip < MaxCommits
        BY <3>2 DEF Commit, IInv, TypeOK, SourceOK
      <4>2. QED
        BY <1>1, <4>1, BoundsAssumption DEF Commits
    <3>3. QED
      BY <1>8, <3>1, <3>2 DEF Environment
  <2>3. \A a \in Attempts : /\ land'[a] \in Early => land[a] \in Early
                            /\ land'[a] \in {"base", "create"}
                                 => land'[a] = land[a]
    BY <1>8
    DEF Environment, Edit, Commit, Switch, Changed, SourceStops,
        DestinationStops, moving, IInv, StageInv, Early
  <2>4. QED
    BY <2>1, <2>2, <2>3, CopyStays
<1>9. CASE Quiet \/ UNCHANGED vars
  BY <1>1, <1>9, CopyStays DEF Quiet, vars, moving
<1>10. QED
  BY <1>2, <1>3, <1>5, <1>6, <1>7, <1>8, <1>9 DEF Next

\* And the calls and landings together, one move being under way at a time.
LEMMA StepCalls ==
    ASSUME OneAtATime, IInv, CallInv, [Next]_vars
    PROVE  CallInv'
<1>1. ASSUME NEW d \in Directions, TearStep(d)
      PROVE  UNCHANGED moving
  BY <1>1
  DEF TearStep, TearAsk, TearTip, TearCapture, TearLook, TearCleanup,
      TearRecheck, TearRecapture, TearDelete, TearForget, TearStops
<1>2. CASE Edit \/ Commit \/ Switch \/ Quiet \/ UNCHANGED vars
  <2>1. UNCHANGED moving
    BY <1>2 DEF Edit, Commit, Switch, Changed, Quiet, vars
  <2>2. QED
    BY <2>1, CallsApart
<1>3. QED
  BY <1>1, <1>2, StartCalls, CancelCalls, LandCalls, UnwindCalls, CallStepCalls,
     StopsCalls, CallsApart
  DEF Next, Environment

\* A move that is done stays so, and what it read with it.
LEMMA DoneStays ==
    ASSUME IInv, [Next]_vars, NEW a \in Attempts, call[a] = "moved"
    PROVE  call'[a] = "moved" /\ facts'[a] = facts[a]
<1>1. land[a] \in {"kept", "over"}
  BY DEF IInv, StageInv
<1>2. ASSUME NEW b \in Attempts,
             \/ \E d \in Directions, m \in BOOLEAN : Start(b, d, m)
             \/ Cancel(b) \/ Drop(b) \/ CallStep(b)
      PROVE  call'[a] = "moved" /\ facts'[a] = facts[a]
  BY <1>1, <1>2
  DEF IInv, TypeOK, MovingOK, Start, Cancel, Drop, CallStep, Answer, Remember,
      OpenSession
<1>3. ASSUME NEW b \in Attempts, LandStep(b)
      PROVE  call'[a] = "moved" /\ facts'[a] = facts[a]
  BY <1>1, <1>3
  DEF IInv, TypeOK, MovingOK, LandStep, LandRefusals, LandTip, LandCapture,
      LandLocal, LandFetch, LandBase, LandCreate, LandSetup, LandApply,
      LandKeep, LandFails, Leaves, At
<1>4. ASSUME NEW b \in Attempts, Unwind(b)
      PROVE  call'[a] = "moved" /\ facts'[a] = facts[a]
  BY <1>1, <1>4
  DEF IInv, TypeOK, MovingOK, Unwind, LandInterrupted, Leaves, Sweep, Undo,
      Closes, PullGivesUp, SendGivesUp, LateAnswer, SendTakesBack,
      RollBackSent, CopyGoes
<1>5. ASSUME NEW d \in Directions, TearStep(d)
      PROVE  call'[a] = "moved" /\ facts'[a] = facts[a]
  BY <1>5
  DEF TearStep, TearAsk, TearTip, TearCapture, TearLook, TearCleanup,
      TearRecheck, TearRecapture, TearDelete, TearForget, TearStops, moving
<1>6. CASE Environment \/ Quiet \/ UNCHANGED vars
  BY <1>6
  DEF Environment, Edit, Commit, Switch, Changed, SourceStops,
      DestinationStops, Lost, UnderWay, Quiet, vars, moving
<1>7. QED
  BY <1>2, <1>3, <1>4, <1>5, <1>6 DEF Next

\* A receipt goes, or a new one is of the move just done, which had the copy in
\* its hands: no other could be kept while it did.
LEMMA StepReceipts ==
    ASSUME WorkInv, [Next]_vars
    PROVE  /\ ReceiptInv'
           /\ \A d \in Directions : tear[d].stage # "idle" =>
                receipts'[d] \in {receipts[d], None}
<1>1. CASE \A d \in Directions : receipts'[d] \in {receipts[d], None}
  <2>1. ASSUME NEW d \in Directions, receipts'[d] # None
        PROVE  (/\ copy # None /\ call[copy.by] = "moved"
                /\ Direction(copy.by) = d /\ receipts[d] = Receipt(copy.by))'
    <3>1. /\ receipts'[d] = receipts[d] /\ copy # None
          /\ call[copy.by] = "moved" /\ Direction(copy.by) = d
          /\ receipts[d] = Receipt(copy.by)
      BY <1>1, <2>1 DEF WorkInv, ReceiptInv
    <3>2. copy.by \in Attempts
      BY <3>1 DEF WorkInv, IInv, TypeOK, DestinationOK, Copies
    <3>3. /\ copy' = copy /\ call'[copy.by] = "moved"
          /\ facts'[copy.by] = facts[copy.by]
      BY <3>1, <3>2, FinishedStays, DoneStays DEF WorkInv
    <3>4. QED
      BY <3>1, <3>3 DEF Receipt, Direction
  <2>2. QED
    BY <1>1, <2>1 DEF ReceiptInv
<1>2. ASSUME NEW a \in Attempts, Remember(a)
      PROVE  /\ ReceiptInv'
             /\ \A d \in Directions : tear[d].stage # "idle" =>
                  receipts'[d] \in {receipts[d], None}
  <2>1. /\ call[a] = "files" /\ call' = [call EXCEPT ![a] = "moved"]
        /\ receipts' = [receipts EXCEPT ![Direction(a)] = Receipt(a)]
        /\ UNCHANGED <<copy, facts>>
    BY <1>2 DEF Remember, WorkInv, CallInv, EndInv
  <2>2. copy # None /\ copy.by = a
    BY <2>1 DEF WorkInv, IInv, HeldInv, Holds, Kept, Made
  <2>3. \A d \in Directions : receipts[d] = None
    BY <2>1, <2>2 DEF WorkInv, ReceiptInv
  <2>4. \A d \in Directions : tear[d].stage = "idle"
    BY <2>3 DEF WorkInv, TearInv
  <2>5. ReceiptInv'
    BY <2>1, <2>2, <2>3
    DEF ReceiptInv, WorkInv, IInv, TypeOK, MovingOK, TearOK, Receipt, Direction
  <2>6. QED
    BY <2>4, <2>5
<1>3. \/ \A d \in Directions : receipts'[d] \in {receipts[d], None}
      \/ \E a \in Attempts : Remember(a)
  <2>1. ASSUME NEW a \in Attempts,
               \/ \E d \in Directions, m \in BOOLEAN : Start(a, d, m)
               \/ Cancel(a) \/ Drop(a) \/ Answer(a) \/ OpenSession(a)
        PROVE  receipts' = receipts
    BY <2>1 DEF Start, Cancel, Drop, Answer, OpenSession
  <2>2. ASSUME NEW a \in Attempts, LandStep(a)
        PROVE  receipts' = receipts
    BY <2>2
    DEF LandStep, LandRefusals, LandTip, LandCapture, LandLocal, LandFetch,
        LandBase, LandCreate, LandSetup, LandApply, LandKeep, LandFails, Leaves
  <2>3. ASSUME NEW a \in Attempts, Unwind(a)
        PROVE  receipts' = receipts
    BY <2>3
    DEF Unwind, LandInterrupted, Leaves, Sweep, Undo, Closes, PullGivesUp,
        SendGivesUp, LateAnswer, SendTakesBack, RollBackSent
  <2>4. ASSUME NEW d \in Directions, TearStep(d)
        PROVE  \A e \in Directions : receipts'[e] \in {receipts[e], None}
    BY <2>4
    DEF TearStep, TearAsk, TearTip, TearCapture, TearLook, TearCleanup,
        TearRecheck, TearRecapture, TearDelete, TearForget, TearStops, WorkInv,
        IInv, TypeOK, TearOK
  <2>5. ASSUME Environment \/ Quiet \/ UNCHANGED vars
        PROVE  \A e \in Directions : receipts'[e] \in {receipts[e], None}
    BY <2>5
    DEF Environment, Edit, Commit, Switch, Changed, SourceStops,
        DestinationStops, Forgotten, Quiet, vars
  <2>6. QED
    BY <2>1, <2>2, <2>3, <2>4, <2>5 DEF Next, CallStep
<1>4. QED
  BY <1>1, <1>2, <1>3

\* A move in flight leaves the source and the teardowns alone.
LEMMA MovesApart ==
    ASSUME NEW a \in Attempts,
           \/ \E d \in Directions, m \in BOOLEAN : Start(a, d, m)
           \/ Cancel(a) \/ Drop(a) \/ LandStep(a) \/ Unwind(a) \/ CallStep(a)
    PROVE  UNCHANGED <<source, tear>>
<1>1. CASE \/ \E d \in Directions, m \in BOOLEAN : Start(a, d, m)
           \/ Cancel(a) \/ Drop(a) \/ CallStep(a)
  BY <1>1 DEF Start, Cancel, Drop, CallStep, Answer, Remember, OpenSession
<1>2. CASE LandStep(a)
  BY <1>2
  DEF LandStep, LandRefusals, LandTip, LandCapture, LandLocal, LandFetch,
      LandBase, LandCreate, LandSetup, LandApply, LandKeep, LandFails, Leaves
<1>3. CASE Unwind(a)
  BY <1>3
  DEF Unwind, LandInterrupted, Leaves, Sweep, Undo, Closes, PullGivesUp,
      SendGivesUp, LateAnswer, SendTakesBack, RollBackSent
<1>4. QED
  BY <1>1, <1>2, <1>3

\* A worktree that is written to after a removal's look is late, or the look
\* still holds.
LEMMA WorkedLooks ==
    ASSUME WorkInv, Edit \/ Commit \/ Switch
    PROVE  TearInv'
<1>1. PICK edit \in BOOLEAN :
        /\ Changed(edit)
        /\ edit => source'.onBranch = source.onBranch /\ source'.tip = source.tip
  <2>1. CASE Edit
    <3>1. Changed(TRUE) /\ source'.onBranch = source.onBranch
          /\ source'.tip = source.tip
      BY <2>1 DEF Edit, WorkInv, IInv, TypeOK, SourceOK
    <3>2. QED
      BY <3>1
  <2>2. CASE Commit \/ Switch
    <3>1. Changed(FALSE)
      BY <2>2 DEF Commit, Switch
    <3>2. QED
      BY <3>1
  <2>3. QED
    BY <2>1, <2>2
<1>2. source'.here
  BY DEF Edit, Commit, Switch, WorkInv, IInv, TypeOK, SourceOK
<1>3. ASSUME NEW d \in Directions
      PROVE  /\ tear'[d].stage = tear[d].stage
             /\ tear'[d].receipt = tear[d].receipt
             /\ tear'[d].tip = tear[d].tip
             /\ tear'[d].late = (tear[d].late \/ Missed(d, edit))
             /\ receipts' = receipts
  BY <1>1 DEF Changed, WorkInv, IInv, TypeOK, TearOK, Tears
<1>4. ASSUME NEW d \in Directions, tear[d].stage # "idle", ~tear'[d].late
      PROVE  LastLook(tear[d])'
  <2>1. LastLook(tear[d]) /\ ~Missed(d, edit)
    BY <1>3, <1>4 DEF WorkInv, TearInv
  <2>2. CASE tear[d].stage = "recapture"
    BY <1>1, <1>3, <2>1, <2>2 DEF LastLook, Missed
  <2>3. CASE tear[d].stage = "delete"
    <3>1. edit = TRUE /\ tear[d].receipt.capture = None
      BY <2>1, <2>3 DEF Missed
    <3>2. QED
      BY <1>1, <1>3, <2>1, <2>3, <3>1 DEF LastLook
  <2>4. CASE tear[d].stage \notin {"recapture", "delete"}
    BY <1>3, <2>4 DEF LastLook
  <2>5. QED
    BY <2>2, <2>3, <2>4
<1>5. QED
  BY <1>2, <1>3, <1>4 DEF WorkInv, TearInv

\* A device that stops forgets its teardowns.
LEMMA StopsLooks ==
    ASSUME WorkInv, SourceStops \/ DestinationStops
    PROVE  TearInv'
  BY DEF SourceStops, DestinationStops, Forgotten, NoTear, WorkInv, IInv, TypeOK,
         TearOK, TearInv, LastLook, Fresh, Head

\* A teardown's own next look takes what the source is then.
LEMMA TearLooks ==
    ASSUME WorkInv, NEW d \in Directions, TearStep(d)
    PROVE  TearInv'
<1> DEFINE Alright(e) ==
             tear[e].stage # "idle" =>
               /\ receipts[e] # None /\ tear[e].receipt = receipts[e]
               /\ /\ tear[e].stage \in Deleting \cup {"look"}
                  /\ tear[e].receipt.capture # None
                  => tear[e].receipt.applied
               /\ tear[e].stage \in Deleting => source.here
               /\ ~tear[e].late => LastLook(tear[e])
<1>1. receipts[d] # None /\ tear[d] \in Tears
  BY DEF WorkInv, IInv, TypeOK, TearOK, TearInv, TearStep, TearAsk, TearTip,
         TearCapture, TearLook, TearCleanup, TearRecheck, TearRecapture,
         TearDelete, TearForget, TearStops
<1>2. ASSUME NEW e \in Directions, e # d
      PROVE  tear[e].stage = "idle"
  BY <1>1, <1>2 DEF WorkInv, TearInv, ReceiptInv
<1>3. \A e \in Directions \ {d} : tear'[e] = tear[e]
  BY DEF WorkInv, IInv, TypeOK, TearOK, TearStep, TearAsk, TearTip, TearCapture,
         TearLook, TearCleanup, TearRecheck, TearRecapture, TearDelete,
         TearForget, TearStops, TearGoes, TearEnds
<1>4. Alright(d)
  BY DEF WorkInv, TearInv
<1>5. ASSUME tear'[d] = NoTear
      PROVE  Alright(d)'
  BY <1>5 DEF NoTear
<1>6. ASSUME TearAsk(d)
      PROVE  Alright(d)'
  <2>1. tear'[d] = [tear[d] EXCEPT !.stage = "tip", !.receipt = receipts[d]]
        /\ receipts' = receipts
    BY <1>6 DEF TearAsk, WorkInv, IInv, TypeOK, TearOK
  <2>2. QED
    BY <1>1, <2>1 DEF Tears, LastLook, Deleting
<1>7. ASSUME TearTip(d)
      PROVE  Alright(d)'
  <2>1. tear'[d] = [tear[d] EXCEPT !.stage = "capture", !.tip = source.tip]
        /\ receipts' = receipts /\ tear[d].stage # "idle"
    BY <1>7 DEF TearTip, WorkInv, IInv, TypeOK, TearOK
  <2>2. QED
    BY <1>1, <1>4, <2>1 DEF Tears, LastLook, Deleting
<1>8. ASSUME TearCapture(d) /\ tear'[d] # NoTear
      PROVE  Alright(d)'
  <2>1. /\ tear'[d] = [tear[d] EXCEPT !.stage = "look"]
        /\ receipts' = receipts /\ tear[d].stage # "idle"
        /\ tear[d].receipt.capture # None => tear[d].receipt.applied
    BY <1>8 DEF TearCapture, TearGoes, TearEnds, WorkInv, IInv, TypeOK, TearOK
  <2>2. QED
    BY <1>1, <1>4, <2>1 DEF Tears, LastLook, Deleting
<1>9. ASSUME (TearLook(d) \/ TearCleanup(d)) /\ tear'[d] # NoTear
      PROVE  Alright(d)'
  <2>1. /\ tear'[d] = [tear[d] EXCEPT !.stage = tear'[d].stage]
        /\ tear'[d].stage \in {"cleanup", "recheck"}
        /\ tear[d].stage \in {"look", "cleanup"} /\ source'.here
        /\ receipts' = receipts
    BY <1>1, <1>4, <1>9
    DEF TearLook, TearCleanup, TearGoes, TearEnds, WorkInv, IInv, TypeOK, TearOK,
        Tears, Deleting
  <2>2. QED
    BY <1>1, <1>4, <2>1 DEF Tears, LastLook, Deleting
<1>10. ASSUME TearRecheck(d) /\ tear'[d] # NoTear
       PROVE  Alright(d)'
  <2>1. /\ tear'[d] = [tear[d] EXCEPT !.stage = "recapture", !.tip = source.tip]
        /\ tear[d].stage = "recheck" /\ source' = source /\ source.onBranch
        /\ receipts' = receipts
    BY <1>10 DEF TearRecheck, TearEnds, WorkInv, IInv, TypeOK, TearOK
  <2>2. QED
    BY <1>1, <1>4, <2>1 DEF Tears, LastLook, Deleting
<1>11. ASSUME TearRecapture(d) /\ tear'[d] # NoTear
       PROVE  Alright(d)'
  <2>1. /\ tear'[d] = [tear[d] EXCEPT !.stage = "delete"]
        /\ tear[d].stage = "recapture" /\ source' = source
        /\ Unchanged(d, tear[d].tip) /\ receipts' = receipts
    BY <1>11
    DEF TearRecapture, TearGoes, TearEnds, WorkInv, IInv, TypeOK, TearOK
  <2>2. Fresh' = Fresh
    BY <2>1 DEF Fresh, Head
  <2>3. QED
    BY <1>1, <1>4, <2>1, <2>2 DEF Tears, LastLook, Deleting, Unchanged
<1>12. ASSUME TearDelete(d) /\ tear'[d] # NoTear
       PROVE  Alright(d)'
  <2>1. /\ tear'[d] = [tear[d] EXCEPT !.stage = "answer"]
        /\ tear[d].stage = "delete" /\ receipts' = receipts
    BY <1>12 DEF TearDelete, TearGoes, TearEnds, WorkInv, IInv, TypeOK, TearOK
  <2>2. QED
    BY <1>1, <1>4, <2>1 DEF Tears, LastLook, Deleting
<1>13. ASSUME TearForget(d) \/ TearStops(d)
       PROVE  Alright(d)'
  BY <1>5, <1>13 DEF TearForget, TearStops, TearEnds, WorkInv, IInv, TypeOK, TearOK
<1>14. Alright(d)'
  BY <1>5, <1>6, <1>7, <1>8, <1>9, <1>10, <1>11, <1>12, <1>13 DEF TearStep
<1>15. QED
  BY <1>2, <1>3, <1>14 DEF TearInv

\* What a teardown knows, whatever the step.
LEMMA StepLooks ==
    ASSUME WorkInv, [Next]_vars
    PROVE  TearInv'
<1>1. ASSUME NEW a \in Attempts,
             \/ \E d \in Directions, m \in BOOLEAN : Start(a, d, m)
             \/ Cancel(a) \/ Drop(a) \/ LandStep(a) \/ Unwind(a) \/ CallStep(a)
      PROVE  TearInv'
  <2>1. UNCHANGED <<source, tear>>
    BY <1>1, MovesApart
  <2>2. \A d \in Directions : tear[d].stage # "idle" => receipts'[d] = receipts[d]
    <3>1. ASSUME NEW d \in Directions, tear[d].stage # "idle", Remember(a)
          PROVE  FALSE
      <4>1. call[copy.by] = "moved" /\ call[a] = "files"
        BY <3>1 DEF WorkInv, TearInv, ReceiptInv, Remember
      <4>2. copy.by = a
        BY <4>1 DEF WorkInv, IInv, HeldInv, Holds, Kept, Made
      <4>3. QED
        BY <4>1, <4>2
    <3>2. Remember(a) \/ receipts' = receipts
      <4>1. CASE \/ \E d \in Directions, m \in BOOLEAN : Start(a, d, m)
                 \/ Cancel(a) \/ Drop(a) \/ CallStep(a)
        BY <4>1 DEF Start, Cancel, Drop, CallStep, Answer, OpenSession
      <4>2. CASE LandStep(a)
        BY <4>2
        DEF LandStep, LandRefusals, LandTip, LandCapture, LandLocal, LandFetch,
            LandBase, LandCreate, LandSetup, LandApply, LandKeep, LandFails,
            Leaves
      <4>3. CASE Unwind(a)
        BY <4>3
        DEF Unwind, LandInterrupted, Leaves, Sweep, Undo, Closes, PullGivesUp,
            SendGivesUp, LateAnswer, SendTakesBack, RollBackSent
      <4>4. QED
        BY <1>1, <4>1, <4>2, <4>3
    <3>3. QED
      BY <3>1, <3>2
  <2>3. Fresh' = Fresh
    BY <2>1 DEF Fresh, Head
  <2>4. QED
    BY <2>1, <2>2, <2>3 DEF WorkInv, TearInv, LastLook
<1>2. CASE Quiet \/ UNCHANGED vars
  BY <1>2 DEF Quiet, vars, WorkInv, TearInv, LastLook, Fresh, Head
<1>3. QED
  BY <1>1, <1>2, TearLooks, WorkedLooks, StopsLooks DEF Next, Environment

\* A step that leaves a source that is gone as it is, or takes one: only the
\* delete does that, and only of a source that stood.
LEMMA SourceGoes ==
    ASSUME WorkInv, [Next]_vars
    PROVE  \/ source.here /\ source'.here
           \/ ~source.here /\ source' = source
           \/ \E d \in Directions :
                TearDelete(d) /\ source.here /\ source' # source
<1>1. ASSUME NEW a \in Attempts,
             \/ \E d \in Directions, m \in BOOLEAN : Start(a, d, m)
             \/ Cancel(a) \/ Drop(a) \/ LandStep(a) \/ Unwind(a) \/ CallStep(a)
      PROVE  source' = source
  BY <1>1, MovesApart
<1>2. ASSUME NEW d \in Directions, TearStep(d), source' # source
      PROVE  TearDelete(d) /\ source.here
  <2>1. TearDelete(d)
    BY <1>2
    DEF TearStep, TearAsk, TearTip, TearCapture, TearLook, TearCleanup,
        TearRecheck, TearRecapture, TearForget, TearStops
  <2>2. QED
    BY <2>1 DEF TearDelete, WorkInv, TearInv, Deleting
<1>3. ASSUME Edit \/ Commit \/ Switch
      PROVE  source.here /\ source'.here
  BY <1>3 DEF Edit, Commit, Switch, WorkInv, IInv, TypeOK, SourceOK
<1>4. ASSUME SourceStops \/ DestinationStops \/ Quiet \/ UNCHANGED vars
      PROVE  source' = source
  BY <1>4 DEF SourceStops, DestinationStops, Quiet, vars
<1>5. source.here \/ ~source.here
  OBVIOUS
<1>6. QED
  BY <1>1, <1>2, <1>3, <1>4, <1>5 DEF Next, Environment

\* What a delete takes, if the last look still holds, is at the copy: the tip
\* is the receipt's, and uncommitted work the capture that was applied.
LEMMA DeletesWhole ==
    ASSUME WorkInv, NEW d \in Directions, TearDelete(d), source' # source
    PROVE  /\ source' = [source EXCEPT !.here = FALSE, !.late = tear[d].late]
           /\ copy' = copy /\ call' = call
           /\ copy # None /\ call[copy.by] = "moved"
           /\ ~tear[d].late => Whole
<1>1. /\ source' = [source EXCEPT !.here = FALSE, !.late = tear[d].late]
      /\ tear[d].stage = "delete"
      /\ tear[d].receipt.capture # None \/ source.work = 0
      /\ copy' = copy /\ call' = call
  BY DEF TearDelete, moving
<1>2. /\ receipts[d] # None /\ tear[d].receipt = receipts[d]
      /\ tear[d].receipt.capture # None => tear[d].receipt.applied
      /\ ~tear[d].late => LastLook(tear[d])
  BY <1>1 DEF WorkInv, TearInv, Deleting
<1>3. /\ copy # None /\ call[copy.by] = "moved"
      /\ receipts[d] = Receipt(copy.by)
  BY <1>2 DEF WorkInv, ReceiptInv
<1>4. /\ receipts[d].tip <= copy.base
      /\ receipts[d].applied => /\ receipts[d].capture # None
                                /\ receipts[d].capture.base = copy.base
                                /\ copy.work = receipts[d].capture.work
  BY <1>3 DEF WorkInv, CopyInv, CarriedInv, Receipt
<1>5. ASSUME ~tear[d].late PROVE Whole
  <2>1. /\ source.onBranch /\ source.tip = receipts[d].tip
        /\ receipts[d].capture \in {None, Fresh}
    BY <1>1, <1>2, <1>5 DEF LastLook
  <2>2. ASSUME source.work # 0
        PROVE  copy.base = source.tip /\ copy.work = source.work
    <3>1. receipts[d].capture = Fresh /\ receipts[d].capture # None
          /\ receipts[d].applied
      BY <1>1, <1>2, <2>1, <2>2
    <3>2. Fresh = [base |-> source.tip, work |-> source.work]
      BY <2>1, <2>2 DEF Fresh, Head
    <3>3. QED
      BY <1>4, <3>1, <3>2
  <2>3. QED
    BY <1>3, <1>4, <2>1, <2>2 DEF Whole
<1>6. QED
  BY <1>1, <1>3, <1>5

\* And stays there.
LEMMA StepGone ==
    ASSUME WorkInv, [Next]_vars
    PROVE  GoneInv'
<1>1. CASE source.here /\ source'.here
  BY <1>1 DEF GoneInv
<1>2. CASE ~source.here /\ source' = source
  <2>1. SUFFICES ASSUME ~source.late PROVE (Whole /\ call[copy.by] = "moved")'
    BY <1>2 DEF GoneInv
  <2>2. Whole /\ copy # None /\ call[copy.by] = "moved"
    BY <1>2, <2>1 DEF WorkInv, GoneInv, Whole
  <2>3. copy.by \in Attempts
    BY <2>2 DEF WorkInv, IInv, TypeOK, DestinationOK, Copies
  <2>4. copy' = copy /\ call'[copy.by] = "moved"
    BY <2>2, <2>3, FinishedStays, DoneStays DEF WorkInv
  <2>5. QED
    BY <1>2, <2>2, <2>4 DEF Whole
<1>3. ASSUME NEW d \in Directions, TearDelete(d), source.here, source' # source
      PROVE  GoneInv'
  <2>1. /\ source' = [source EXCEPT !.here = FALSE, !.late = tear[d].late]
        /\ copy' = copy /\ call' = call
        /\ copy # None /\ call[copy.by] = "moved"
        /\ ~tear[d].late => Whole
    BY <1>3, DeletesWhole
  <2>2. /\ source'.late = tear[d].late /\ source'.onBranch = source.onBranch
        /\ source'.tip = source.tip /\ source'.work = source.work
    BY <2>1 DEF WorkInv, IInv, TypeOK, SourceOK
  <2>3. QED
    BY <2>1, <2>2 DEF GoneInv, Whole
<1>4. QED
  BY <1>1, <1>2, <1>3, SourceGoes

\* Together the invariants are inductive.
LEMMA WorkStepKeeps == OneAtATime /\ WorkInv /\ [Next]_vars => WorkInv'
<1> SUFFICES ASSUME OneAtATime, WorkInv, [Next]_vars PROVE WorkInv'
  OBVIOUS
<1>1. IInv'
  BY StepKeeps DEF WorkInv
<1>2. CallInv' /\ CopyInv'
  BY StepCalls, StepCopies DEF WorkInv
<1>3. ReceiptInv' /\ TearInv' /\ GoneInv'
  BY StepReceipts, StepLooks, StepGone
<1>4. QED
  BY <1>1, <1>2, <1>3 DEF WorkInv

\* They hold before anything starts.
LEMMA WorkInitHolds == Init => WorkInv
<1> SUFFICES ASSUME Init PROVE WorkInv
  OBVIOUS
<1>1. IInv
  BY InitHolds
<1>2. CallInv
  BY DEF Init, CallInv, SeqInv, EndInv, AloneInv, NoFacts, Working, Landing,
         UnderWay
<1>3. CopyInv
  BY DEF Init, CopyInv, EarlyInv, BroughtInv, CarriedInv, NoFacts, Made
<1>4. ReceiptInv /\ TearInv /\ GoneInv
  BY DEF Init, ReceiptInv, TearInv, GoneInv, NoTear
<1>5. QED
  BY <1>1, <1>2, <1>3, <1>4 DEF WorkInv

\* In every behaviour they hold throughout.
LEMMA WorkInvariance ==
    ASSUME OneAtATime
    PROVE  Spec => []WorkInv
<1>1. Init => WorkInv
  BY WorkInitHolds
<1>2. WorkInv /\ [Next]_vars => WorkInv'
  BY WorkStepKeeps
<1>3. QED
  BY <1>1, <1>2, PTL DEF Spec

\* A teardown takes a source only once all of it is at the copy, or as somebody
\* writes to it after the removal's last look, however the steps of its looks
\* interleave with edits, commits, switches, stops and further moves.
THEOREM LosesNothing ==
    ASSUME OneAtATime
    PROVE  Spec => []NothingLost
<1>1. WorkInv => NothingLost
  BY DEF WorkInv, GoneInv, NothingLost
<1>2. QED
  BY <1>1, WorkInvariance, PTL

\* A kept receipt is of a copy that stands and has what it says.
THEOREM KeepsReceipts ==
    ASSUME OneAtATime
    PROVE  Spec => []ReceiptStands
<1>1. WorkInv => ReceiptStands
  BY DEF WorkInv, CopyInv, CarriedInv, ReceiptInv, ReceiptStands, Receipt
<1>2. QED
  BY <1>1, WorkInvariance, PTL

\* The place of a worktree's work takes only the steps a relocation has.
LEMMA PlaceMaps ==
    ASSUME WorkInv, WorkInv', [Next]_vars
    PROVE  [Moved!Next]_Place
<1>1. ~source.here => Place = IF source.late THEN "raced" ELSE "copy"
  BY DEF Place, WorkInv, GoneInv
<1>2. source.here => Place = IF Whole THEN "both" ELSE "source"
  BY DEF Place
<1>3. CASE source.here /\ source'.here
  BY <1>2, <1>3
  DEF Place, Moved!Next, Moved!Land, Moved!TakeBack
<1>4. CASE ~source.here /\ source' = source
  BY <1>1, <1>4 DEF Place, WorkInv, GoneInv
<1>5. ASSUME NEW d \in Directions, TearDelete(d), source.here, source' # source
      PROVE  [Moved!Next]_Place
  <2>1. /\ source' = [source EXCEPT !.here = FALSE, !.late = tear[d].late]
        /\ ~tear[d].late => Whole
    BY <1>5, DeletesWhole
  <2>2. ~source'.here /\ source'.late = tear[d].late
    BY <2>1 DEF WorkInv, IInv, TypeOK, SourceOK
  <2>3. Place' = IF tear[d].late THEN "raced" ELSE "copy"
    BY <2>2 DEF Place, WorkInv, GoneInv
  <2>4. Place \in {"source", "both"} /\ (~tear[d].late => Place = "both")
    BY <1>2, <1>5, <2>1
  <2>5. QED
    BY <2>3, <2>4 DEF Moved!Next, Moved!Settle, Moved!Race
<1>6. QED
  BY <1>3, <1>4, <1>5, SourceGoes

\* A move and its teardown implement a relocation: the work goes from one device
\* to the other and is at no time on neither.
THEOREM ImplementsRelocation ==
    ASSUME OneAtATime
    PROVE  Spec => Relocates
<1>1. Init => Moved!Init
  BY DEF Init, Moved!Init, Place, Whole
<1>2. WorkInv /\ WorkInv' /\ [Next]_vars => [Moved!Next]_Place
  BY PlaceMaps
<1>3. QED
  BY <1>1, <1>2, WorkInvariance, PTL DEF Spec, Relocates, Moved!Spec

================================================================================
