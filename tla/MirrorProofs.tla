------------------------------ MODULE MirrorProofs ------------------------------
(* What is proved of a mirror, for any sessions, works, asks and troubles.      *)
(* Shape gives every variable its type, and TurnInv lets one thing at a time    *)
(* take or move the original. WorkInv holds what a delete read of the other     *)
(* side against what its own side has since: work never leaves a side, so a     *)
(* side that goes with the other held nothing of its own. WaitInv and StillInv  *)
(* keep stopped what a delete stopped, so nothing crosses while files go, and   *)
(* StoppedInv that who stopped a session still knows of it. PairInv has one     *)
(* session of the pair lead, and every other end behind the one replacing it.   *)
EXTENDS Mirror, SequenceTheorems, TLAPS

--------------------------------------------------------------------------------
(* The shape of the state.                                                     *)

Session == [paused : BOOLEAN, root : 0..MaxAsks, replaces : 0..MaxSessions]
Read == {None} \cup Work
Seen == {None} \cup [session : Nat, read : Work]
Deletes == [stage : {"no", "look", "settled", "pause", "cleanup", "going", "gone"},
            look : Seen, of : Nat, read : Read, paused : SUBSET Nat]
CopyDeletes == [stage : {"no", "ask", "read", "again", "cleanup", "going"},
                of : Nat, read : Read]
SidesOK ==
    /\ at \in [Sides -> {"here", "deleted", "taken", "stopped", "vanished"}]
    /\ holds \in [Sides -> Work]
    /\ place \in 0..MaxAsks
EngineOK ==
    /\ daemon \in BOOLEAN /\ link \in BOOLEAN
    /\ sess \in Seq(Session \cup {None}) /\ Len(sess) <= MaxSessions
    /\ \A s \in Live : sess[s].root <= place /\ sess[s].replaces < s
MarksOK ==
    /\ endingSessions \subseteq DOMAIN sess
    /\ rootLooks \subseteq DOMAIN sess
    /\ looking \subseteq DOMAIN sess
DeletesOK ==
    /\ del \in Deletes /\ taking \in Deletes /\ copyDel \in CopyDeletes
    /\ jobs \in [Ids -> {"no", "end", "take", "ask"}]
ToldOK ==
    /\ news \subseteq Read
    /\ heard \subseteq [expect : Read, doomed : SUBSET Nat]
\* A session another was made for, is made for or may yet turn up for.
Opens(s) == reopen[s].stage \notin {"no", "unwanted"}
ReopenOK ==
    /\ reopen \in [Ids -> [stage : {"no", "creating", "replacing", "abandoned", "cut",
                                   "unwanted"},
                           to : Nat, why : {"rule", "move"}]]
    /\ \A s \in Ids : Opens(s) => s \in DOMAIN sess /\ reopen[s].to <= place
PeopleOK ==
    /\ stop \in [stage : {"no", "end", "ask"}, of : Nat]
    /\ move \in [stage : {"no", "going", "moved", "reopening"}, from : Nat]
Spending == [works : 0..MaxWorks, asks : 0..MaxAsks, troubles : 0..MaxTroubles,
             quiet : BOOLEAN]
SpentOK ==
    /\ spent \in Spending
    /\ place <= spent.asks
    /\ move.stage = "going" => place < spent.asks
Shape == /\ SidesOK /\ EngineOK /\ MarksOK /\ DeletesOK
         /\ ToldOK /\ ReopenOK /\ PeopleOK /\ SpentOK

\* One thing at a time takes the original or moves it, and while it does the
\* original is there; what is owed of a delete, it is gone.
TurnInv ==
    /\ del.stage \in {"look", "settled", "pause", "cleanup", "going"} => Here("original")
    /\ taking.stage # "no" => taking.stage \in {"pause", "cleanup", "gone"}
    /\ taking.stage \in {"pause", "cleanup"} => Here("original")
    /\ del.stage = "gone" \/ taking.stage = "gone" \/ (\E s \in Ids : jobs[s] # "no")
          => ~Here("original")
    /\ del.stage = "no" \/ taking.stage = "no"
    /\ move.stage = "no" \/ (del.stage = "no" /\ taking.stage = "no")

\* What a delete read of the other side is still part of what its own holds.
Within(work, x) == work.files \subseteq holds[x].files /\ work.commits \subseteq holds[x].commits
LookInv ==
    /\ del.stage = "settled" /\ del.read # None =>
          /\ del.read.files \subseteq holds["copy"].files
          /\ del.read.commits \subseteq holds["original"].commits
    /\ del.look # None => del.look.read # None /\ Within(del.look.read, "original")
    /\ \A s \in Ids : jobs[s] \in {"take", "ask"} => del.look # None
CopyLookInv ==
    /\ copyDel.stage \in {"no", "ask", "read"} => copyDel.read = None
    /\ copyDel.read # None =>
          /\ copyDel.read.files \subseteq holds["original"].files
          /\ copyDel.read.commits \subseteq holds["copy"].commits
    /\ copyDel.stage \in {"cleanup", "going"} /\ copyDel.read # None =>
          Within(copyDel.read, "copy")
Brought(work) == ~Here("copy") /\ Within(work, "copy")
ToldInv ==
    /\ \A work \in news \ {None} : Brought(work)
    /\ \A h \in heard : h.expect # None => Brought(h.expect)
    /\ taking.stage \in {"pause", "cleanup"} => Brought(taking.read)
    /\ taking.stage # "no" => ~Here("copy")
WorkInv == LookInv /\ CopyLookInv /\ ToldInv /\ TakesNothing

\* A session that waits for the peer waits for where its original is.
WaitInv ==
    /\ move.stage = "going" => move.from = place
    /\ \A s \in DOMAIN waitingOnPeer :
          waitingOnPeer[s] = place \/ (move.stage = "moved" /\ waitingOnPeer[s] = move.from)

\* Once a delete has stopped the sessions of its worktree they stay so, and none is
\* being opened anew.
StillInv ==
    /\ del.stage # "no" /\ Here("original") => ~Reopening
    /\ del.stage \in {"cleanup", "going"} =>
          \A s \in Live : sess[s].root = place => sess[s].paused

\* While nothing was refused, who stopped a session still knows of it.
Excused(s) ==
    \/ s \in DOMAIN waitingOnPeer
    \/ Recreating(s)
    \/ del.stage \in {"cleanup", "going"} /\ s \in del.paused
    \/ taking.stage = "cleanup" /\ s \in taking.paused
StoppedInv ==
    /\ Calm => daemon /\ link
    /\ del.stage \in {"cleanup", "going"} =>
          /\ del.paused \subseteq DOMAIN sess
          /\ \A s \in del.paused \cap Live : s \in DOMAIN waitingOnPeer \/ sess[s].root = place
    /\ Calm /\ Here("original") => \A s \in Live : sess[s].paused => Excused(s)

\* What a step may do to the sessions: end some, stop some and let some go on.
Left(new) ==
    /\ new \in Seq(Session \cup {None})
    /\ Len(new) = Len(sess)
    /\ \A s \in DOMAIN sess : new[s] # None =>
          /\ sess[s] # None
          /\ new[s].root = sess[s].root /\ new[s].replaces = sess[s].replaces

LEMMA SessionsLeft ==
    ASSUME EngineOK, NEW those, NEW paused \in BOOLEAN
    PROVE  Left(sess) /\ Left(Without(those)) /\ Left(With(those, paused))
<1> DEFINE S == Session \cup {None}  n == Len(sess)
<1>1. n \in Nat /\ DOMAIN sess = 1..n /\ \A s \in 1..n : sess[s] \in S
  BY LenProperties, ElementOfSeq DEF EngineOK
<1>2. ASSUME NEW new \in [1..n -> S] PROVE new \in Seq(S) /\ Len(new) = n
  BY <1>1
<1>3. Left(sess)
  BY DEF Left, EngineOK
<1>4. Left(Without(those))
  <2>1. Without(those) \in [1..n -> S]
    BY <1>1 DEF Without
  <2>. QED  BY <1>1, <1>2, <2>1 DEF Left, Without
<1>5. Left(With(those, paused))
  <2>1. ASSUME NEW s \in 1..n, sess[s] # None
        PROVE  /\ [sess[s] EXCEPT !.paused = paused] \in Session
               /\ [sess[s] EXCEPT !.paused = paused].root = sess[s].root
               /\ [sess[s] EXCEPT !.paused = paused].replaces = sess[s].replaces
    <3>1. sess[s] \in Session
      BY <1>1, <2>1
    <3>. QED  BY <3>1 DEF Session
  <2>2. \A s \in 1..n : With(those, paused)[s] \in S
    BY <1>1, <2>1 DEF With
  <2>3. With(those, paused) \in [1..n -> S]
    BY <1>1, <2>2 DEF With
  <2>4. \A s \in 1..n : With(those, paused)[s] # None =>
          /\ sess[s] # None
          /\ With(those, paused)[s].root = sess[s].root
          /\ With(those, paused)[s].replaces = sess[s].replaces
    BY <1>1, <2>1 DEF With
  <2>. QED  BY <1>1, <1>2, <2>3, <2>4 DEF Left
<1>. QED  BY <1>3, <1>4, <1>5

LEMMA SessionsListed ==
    ASSUME EngineOK
    PROVE  Len(sess) \in Nat /\ DOMAIN sess = 1..Len(sess) /\ DOMAIN sess \subseteq Ids
<1>1. Len(sess) \in Nat /\ DOMAIN sess = 1..Len(sess)
  BY LenProperties DEF EngineOK
<1>. QED  BY <1>1, MirrorAssumption DEF EngineOK, Ids

Spends == \/ UNCHANGED spent
          \/ Spend("works", MaxWorks)
          \/ Spend("asks", MaxAsks)
          \/ Spend("troubles", MaxTroubles)
          \/ Quietly(spent.troubles < MaxTroubles)
          \/ spent' = [spent EXCEPT !.quiet = FALSE]

LEMMA SpendsWithin ==
    ASSUME SidesOK, SpentOK, Spends, UNCHANGED place,
           move'.stage = "going" => move.stage = "going"
    PROVE  SpentOK'
<1> USE MirrorAssumption DEF Spending
<1>1. CASE UNCHANGED spent
  BY <1>1 DEF SpentOK
<1>2. CASE Spend("works", MaxWorks)
  <2>1. spent' = [spent EXCEPT !.works = spent.works + 1] /\ spent.works < MaxWorks
    BY <1>2 DEF Spend
  <2>. QED  BY <2>1 DEF SpentOK
<1>3. CASE Spend("asks", MaxAsks)
  <2>1. spent' = [spent EXCEPT !.asks = spent.asks + 1] /\ spent.asks < MaxAsks
    BY <1>3 DEF Spend
  <2>2. /\ spent' \in Spending
        /\ spent'.asks = spent.asks + 1
    BY <2>1 DEF SpentOK
  <2>3. place <= spent.asks + 1 /\ (move.stage = "going" => place < spent.asks + 1)
    BY DEF SidesOK, SpentOK
  <2>. QED  BY <2>2, <2>3 DEF SpentOK
<1>4. CASE Spend("troubles", MaxTroubles)
  <2>1. spent' = [spent EXCEPT !.troubles = spent.troubles + 1] /\ spent.troubles < MaxTroubles
    BY <1>4 DEF Spend
  <2>. QED  BY <2>1 DEF SpentOK
<1>5. CASE Quietly(spent.troubles < MaxTroubles)
  <2> DEFINE more == [spent EXCEPT !.troubles = spent.troubles + 1]
  <2>1. spent' = [more EXCEPT !.quiet = TRUE] /\ spent.troubles < MaxTroubles
    BY <1>5 DEF Quietly
  <2>2. more \in Spending /\ more.asks = spent.asks
    BY <2>1 DEF SpentOK
  <2> HIDE DEF more
  <2>3. spent' \in Spending /\ spent'.asks = more.asks
    BY <2>1, <2>2
  <2>. QED  BY <2>2, <2>3 DEF SpentOK
<1>6. CASE spent' = [spent EXCEPT !.quiet = FALSE]
  BY <1>6 DEF SpentOK
<1>. QED  BY <1>1, <1>2, <1>3, <1>4, <1>5, <1>6 DEF Spends

\* The parts of the state a step leaves alone.
LEMMA Rests ==
    ASSUME Shape, Left(sess')
    PROVE  /\ DOMAIN sess' = DOMAIN sess /\ Live' \subseteq Live
           /\ UNCHANGED sides => SidesOK'
           /\ UNCHANGED <<daemon, link, place>> => EngineOK'
           /\ UNCHANGED <<endingSessions, rootLooks, looking>> => MarksOK'
           /\ UNCHANGED deletes => DeletesOK'
           /\ UNCHANGED <<news, heard>> => ToldOK'
           /\ UNCHANGED <<reopen, place>> => ReopenOK'
           /\ UNCHANGED people => PeopleOK'
           /\ Spends /\ UNCHANGED <<place, move>> => SpentOK'
<1> USE DEF Shape
<1>1. DOMAIN sess' = DOMAIN sess
  BY LenProperties DEF Left, EngineOK
<1>2. Live' \subseteq Live
  BY <1>1 DEF Left, Live
<1>3. UNCHANGED <<daemon, link, place>> => EngineOK'
  BY <1>1, <1>2 DEF Left, EngineOK, Live
<1>4. UNCHANGED <<reopen, place>> => ReopenOK'
  BY <1>1 DEF ReopenOK, Opens
<1>5. Spends /\ UNCHANGED <<place, move>> => SpentOK'
  BY SpendsWithin
<1>. QED
  BY <1>1, <1>2, <1>3, <1>4, <1>5
  DEF SidesOK, MarksOK, DeletesOK, ToldOK, PeopleOK, sides, deletes, people

\* What the engine does when it is asked to end sessions, to stop or to resume them.
LEMMA EngineAsked ==
    ASSUME EngineOK, NEW those
    PROVE  /\ Left(sess)
           /\ Ends(those) => Left(sess') /\ Spends
           /\ resumeMirrors(those) => Left(sess') /\ Spends
           /\ \A paused \in BOOLEAN : Left(With(those, paused))
           /\ Left(Without(those))
<1>1. Left(sess) /\ Left(Without(those)) /\ \A paused \in BOOLEAN : Left(With(those, paused))
  BY SessionsLeft
<1>2. Refused(those) => Spends
  BY DEF Refused, Quietly, Spends
<1>3. Ends(those) => Left(sess') /\ Spends
  <2>1. UNCHANGED sess => Left(sess')
    BY <1>1
  <2>. QED  BY <1>1, <1>2, <2>1 DEF Ends, Spends
<1>4. resumeMirrors(those) => Left(sess') /\ Spends
  <2>1. UNCHANGED sess => Left(sess')
    BY <1>1
  <2>. QED  BY <1>1, <1>2, <2>1 DEF resumeMirrors, Spends
<1>. QED  BY <1>1, <1>3, <1>4

LEMMA DeleteKeepsShape == Shape /\ (DeleteSteps) => Shape'
<1> SUFFICES ASSUME Shape, DeleteSteps PROVE Shape'
  OBVIOUS
<1> USE MirrorAssumption
<1>1. CASE LookReads
  <2>1. Left(sess') /\ Spends
    BY <1>1, EngineAsked DEF LookReads, Shape, engine, Spends
  <2>2. DOMAIN sess' = DOMAIN sess /\ Live' \subseteq Live
    BY <2>1, Rests DEF Shape
  <2>3. DeletesOK'
    <3>1. Reads("copy", "original") \in Read /\ OnWorktree(place) \subseteq Nat
      BY SessionsListed DEF Shape, SidesOK, Reads, Read, Sides, OnWorktree, Live, Ids
    <3>. QED  BY <1>1, <3>1 DEF LookReads, Shape, DeletesOK, Deletes, Read
  <2>. QED  BY <1>1, <2>1, <2>2, <2>3, Rests
    DEF LookReads, Shape, sides, engine, marks, deletes, told, people
<1>2. CASE LookSettles
  <2>1. Left(sess') /\ Spends
    BY <1>2, EngineAsked DEF LookSettles, Shape, engine, Spends
  <2>2. DOMAIN sess' = DOMAIN sess /\ Live' \subseteq Live
    BY <2>1, Rests DEF Shape
  <2>3. DeletesOK'
    BY <1>2, <2>2 DEF LookSettles, Shape, DeletesOK, Deletes, Read, Seen, Look
  <2>. QED  BY <1>2, <2>1, <2>2, <2>3, Rests
    DEF LookSettles, Shape, sides, engine, marks, deletes, told, people
<1>3. CASE DeletePauses
  <2>1. Left(sess') /\ Spends
    BY <1>3, EngineAsked DEF DeletePauses, Shape, engine, Spends, pauseMirrorsOn
  <2>2. DOMAIN sess' = DOMAIN sess /\ Live' \subseteq Live
    BY <2>1, Rests DEF Shape
  <2>3. DeletesOK'
    <3>1. DOMAIN sess \subseteq Nat
      BY SessionsListed DEF Shape
    <3>. QED  BY <1>3, <3>1 DEF DeletePauses, pauseMirrorsOn, Shape, DeletesOK, Deletes
  <2>. QED  BY <1>3, <2>1, <2>2, <2>3, Rests
    DEF DeletePauses, pauseMirrorsOn, Shape, sides, engine, marks, deletes, told, people
<1>4. CASE DeleteShort
  <2>1. Left(sess') /\ Spends
    BY <1>4, EngineAsked DEF DeleteShort, Shape, engine, Spends
  <2>2. DOMAIN sess' = DOMAIN sess /\ Live' \subseteq Live
    BY <2>1, Rests DEF Shape
  <2>3. DeletesOK'
    BY <1>4, <2>2 DEF DeleteShort, Shape, DeletesOK, Deletes, Read, Seen, NoDelete
  <2>. QED  BY <1>4, <2>1, <2>2, <2>3, Rests
    DEF DeleteShort, Shape, sides, engine, marks, deletes, told, people
<1>5. CASE DeleteGoes
  <2>1. Left(sess') /\ Spends
    BY <1>5, EngineAsked DEF DeleteGoes, Shape, engine, Spends
  <2>2. DOMAIN sess' = DOMAIN sess /\ Live' \subseteq Live
    BY <2>1, Rests DEF Shape
  <2>3. DeletesOK'
    BY <1>5, <2>2 DEF DeleteGoes, Shape, DeletesOK, Deletes, Read, Seen
  <2>. QED  BY <1>5, <2>1, <2>2, <2>3, Rests
    DEF DeleteGoes, Shape, sides, engine, marks, deletes, told, people
<1>6. CASE DeleteKept
  <2>1. Left(sess') /\ Spends
    BY <1>6, EngineAsked DEF DeleteKept, Shape, engine, Spends
  <2>2. DOMAIN sess' = DOMAIN sess /\ Live' \subseteq Live
    BY <2>1, Rests DEF Shape
  <2>3. DeletesOK'
    BY <1>6, <2>2 DEF DeleteKept, Shape, DeletesOK, Deletes, Read, Seen, NoDelete
  <2>. QED  BY <1>6, <2>1, <2>2, <2>3, Rests
    DEF DeleteKept, Shape, sides, engine, marks, deletes, told, people
<1>7. CASE DeleteGone
  <2>1. Left(sess') /\ Spends
    BY <1>7, EngineAsked DEF DeleteGone, Shape, engine, Spends
  <2>2. DOMAIN sess' = DOMAIN sess /\ Live' \subseteq Live
    BY <2>1, Rests DEF Shape
  <2>3. SidesOK'
    BY <1>7, <2>2 DEF DeleteGone, Shape, SidesOK, Sides
  <2>4. DeletesOK'
    BY <1>7, <2>2 DEF DeleteGone, Shape, DeletesOK, Deletes, Read, Seen
  <2>. QED  BY <1>7, <2>1, <2>2, <2>3, <2>4, Rests
    DEF DeleteGone, Shape, sides, engine, marks, deletes, told, people
<1>8. CASE deleteCopiesOf
  <2>1. Left(sess') /\ Spends
    BY <1>8, EngineAsked DEF deleteCopiesOf, Shape, engine, Spends
  <2>2. DOMAIN sess' = DOMAIN sess /\ Live' \subseteq Live
    BY <2>1, Rests DEF Shape
  <2>3. MarksOK'
    BY <1>8, <2>2 DEF deleteCopiesOf, Shape, MarksOK, DeletesOK, OnWorktree, Live, told
  <2>4. DeletesOK'
    BY <1>8, <2>2 DEF deleteCopiesOf, Shape, DeletesOK, Deletes, Read, Seen
  <2>. QED  BY <1>8, <2>1, <2>2, <2>3, <2>4, Rests
    DEF deleteCopiesOf, Shape, sides, engine, marks, deletes, told, people
<1>9. ASSUME NEW s \in Ids, JobEnds(s) PROVE Shape'
  <2>1. Left(sess') /\ Spends
    BY <1>9, EngineAsked DEF JobEnds, Shape, engine, Spends
  <2>2. DOMAIN sess' = DOMAIN sess /\ Live' \subseteq Live
    BY <2>1, Rests DEF Shape
  <2>3. MarksOK'
    BY <1>9, <2>2 DEF JobEnds, Shape, MarksOK, told
  <2>4. DeletesOK'
    BY <1>9, <2>2 DEF JobEnds, Shape, DeletesOK
  <2>. QED  BY <1>9, <2>1, <2>2, <2>3, <2>4, Rests
    DEF JobEnds, Shape, sides, engine, marks, deletes, told, people
<1>10. ASSUME NEW s \in Ids, JobAsks(s) PROVE Shape'
  <2>1. Left(sess') /\ Spends
    BY <1>10, EngineAsked DEF JobAsks, Shape, engine, Spends, CopyGoes
  <2>2. DOMAIN sess' = DOMAIN sess /\ Live' \subseteq Live
    BY <2>1, Rests DEF Shape
  <2>3. SidesOK'
    BY <1>10, <2>2 DEF JobAsks, Shape, SidesOK, CopyGoes, Sides
  <2>4. DeletesOK'
    BY <1>10, <2>2 DEF JobAsks, Shape, DeletesOK
  <2>5. ToldOK'
    BY <1>10, <2>2 DEF JobAsks, Shape, ToldOK, CopyGoes, Announced, Read
  <2>. QED  BY <1>10, <2>1, <2>2, <2>3, <2>4, <2>5, Rests
    DEF JobAsks, Shape, sides, engine, marks, deletes, told, people
<1>. QED  BY <1>1, <1>2, <1>3, <1>4, <1>5, <1>6, <1>7, <1>8, <1>9, <1>10 DEF DeleteSteps

LEMMA CopyKeepsShape == Shape /\ (CopySteps) => Shape'
<1> SUFFICES ASSUME Shape, CopySteps PROVE Shape'
  OBVIOUS
<1> USE MirrorAssumption
<1>1. CASE CopyAsks
  <2>1. Left(sess') /\ Spends
    BY <1>1, EngineAsked DEF CopyAsks, Shape, engine, Spends
  <2>2. DOMAIN sess' = DOMAIN sess /\ Live' \subseteq Live
    BY <2>1, Rests DEF Shape
  <2>3. DeletesOK'
    <3>1. Live \subseteq Nat
      BY SessionsListed DEF Shape, Live, Ids
    <3>. QED  BY <1>1, <3>1 DEF CopyAsks, Shape, DeletesOK, CopyDeletes
  <2>. QED  BY <1>1, <2>1, <2>2, <2>3, Rests
    DEF CopyAsks, Shape, sides, engine, marks, deletes, told, people
<1>2. CASE CopyReads
  <2>1. Left(sess') /\ Spends
    BY <1>2, EngineAsked DEF CopyReads, Shape, engine, Spends
  <2>2. DOMAIN sess' = DOMAIN sess /\ Live' \subseteq Live
    BY <2>1, Rests DEF Shape
  <2>3. DeletesOK'
    <3>1. Reads("original", "copy") \in Read
      BY DEF Shape, SidesOK, Reads, Read, Sides
    <3>. QED  BY <1>2, <3>1 DEF CopyReads, Shape, DeletesOK, CopyDeletes
  <2>. QED  BY <1>2, <2>1, <2>2, <2>3, Rests
    DEF CopyReads, Shape, sides, engine, marks, deletes, told, people
<1>3. CASE CopyAsksAgain
  <2>1. Left(sess') /\ Spends
    BY <1>3, EngineAsked DEF CopyAsksAgain, Shape, engine, Spends
  <2>2. DOMAIN sess' = DOMAIN sess /\ Live' \subseteq Live
    BY <2>1, Rests DEF Shape
  <2>3. DeletesOK'
    BY <1>3, <2>2 DEF CopyAsksAgain, Shape, DeletesOK, CopyDeletes, Read
  <2>. QED  BY <1>3, <2>1, <2>2, <2>3, Rests
    DEF CopyAsksAgain, Shape, sides, engine, marks, deletes, told, people
<1>4. CASE CopyDeleteGoes
  <2>1. Left(sess') /\ Spends
    BY <1>4, EngineAsked DEF CopyDeleteGoes, Shape, engine, Spends
  <2>2. DOMAIN sess' = DOMAIN sess /\ Live' \subseteq Live
    BY <2>1, Rests DEF Shape
  <2>3. DeletesOK'
    BY <1>4, <2>2 DEF CopyDeleteGoes, Shape, DeletesOK, CopyDeletes, Read
  <2>. QED  BY <1>4, <2>1, <2>2, <2>3, Rests
    DEF CopyDeleteGoes, Shape, sides, engine, marks, deletes, told, people
<1>5. CASE CopyDeleteStays
  <2>1. Left(sess') /\ Spends
    BY <1>5, EngineAsked DEF CopyDeleteStays, Shape, engine, Spends
  <2>2. DOMAIN sess' = DOMAIN sess /\ Live' \subseteq Live
    BY <2>1, Rests DEF Shape
  <2>3. DeletesOK'
    BY <1>5, <2>2 DEF CopyDeleteStays, Shape, DeletesOK, CopyDeletes, Read, NoCopyDelete
  <2>. QED  BY <1>5, <2>1, <2>2, <2>3, Rests
    DEF CopyDeleteStays, Shape, sides, engine, marks, deletes, told, people
<1>6. CASE CopyDeleteGone
  <2>1. Left(sess') /\ Spends
    BY <1>6, EngineAsked DEF CopyDeleteGone, Shape, engine, Spends
  <2>2. DOMAIN sess' = DOMAIN sess /\ Live' \subseteq Live
    BY <2>1, Rests DEF Shape
  <2>3. SidesOK'
    BY <1>6, <2>2 DEF CopyDeleteGone, Shape, SidesOK, Sides
  <2>4. DeletesOK'
    BY <1>6, <2>2 DEF CopyDeleteGone, Shape, DeletesOK, CopyDeletes, Read, NoCopyDelete
  <2>5. ToldOK'
    BY <1>6, <2>2 DEF CopyDeleteGone, Shape, ToldOK, DeletesOK, CopyDeletes, Read
  <2>. QED  BY <1>6, <2>1, <2>2, <2>3, <2>4, <2>5, Rests
    DEF CopyDeleteGone, Shape, sides, engine, marks, deletes, told, people
<1>. QED  BY <1>1, <1>2, <1>3, <1>4, <1>5, <1>6 DEF CopySteps

LEMMA HeardKeepsShape == Shape /\ (HeardSteps) => Shape'
<1> SUFFICES ASSUME Shape, HeardSteps PROVE Shape'
  OBVIOUS
<1> USE MirrorAssumption
<1>1. ASSUME NEW m \in news, Hears(m) PROVE Shape'
  <2>1. Left(sess') /\ Spends
    BY <1>1, EngineAsked DEF Hears, Shape, engine, Spends
  <2>2. DOMAIN sess' = DOMAIN sess /\ Live' \subseteq Live
    BY <2>1, Rests DEF Shape
  <2>3. ToldOK'
    <3>1. Doomed \in SUBSET Nat
      BY SessionsListed DEF Shape, Doomed, Live, Ids
    <3>2. [expect |-> m, doomed |-> Doomed] \in [expect : Read, doomed : SUBSET Nat]
      BY <3>1, m \in Read DEF Shape, ToldOK
    <3>. QED  BY <1>1, <3>2 DEF Hears, Shape, ToldOK
  <2>. QED  BY <1>1, <2>1, <2>2, <2>3, Rests
    DEF Hears, Shape, sides, engine, marks, deletes, told, people
<1>2. ASSUME NEW h \in heard, HeardEnds(h) PROVE Shape'
  <2>1. Left(sess') /\ Spends
    BY <1>2, EngineAsked DEF HeardEnds, Shape, engine, Spends
  <2>2. DOMAIN sess' = DOMAIN sess /\ Live' \subseteq Live
    BY <2>1, Rests DEF Shape
  <2>3. DeletesOK'
    <3>1. h.expect \in Read
      BY <1>2 DEF HeardEnds, Shape, ToldOK
    <3>2. [NoDelete EXCEPT !.stage = "pause", !.read = h.expect] \in Deletes
      BY <3>1 DEF NoDelete, Deletes, Read, Seen
    <3>. QED  BY <1>2, <3>2 DEF HeardEnds, Shape, DeletesOK
  <2>4. ToldOK'
    BY <1>2, <2>2 DEF HeardEnds, Shape, ToldOK
  <2>. QED  BY <1>2, <2>1, <2>2, <2>3, <2>4, Rests
    DEF HeardEnds, Shape, sides, engine, marks, deletes, told, people
<1>3. CASE endMirrorIfCopyGone
  <2>1. Left(sess') /\ Spends
    BY <1>3, EngineAsked DEF endMirrorIfCopyGone, Shape, engine, Spends
  <2>2. DOMAIN sess' = DOMAIN sess /\ Live' \subseteq Live
    BY <2>1, Rests DEF Shape
  <2>3. ToldOK'
    <3>1. Doomed \in SUBSET Nat
      BY SessionsListed DEF Shape, Doomed, Live, Ids
    <3>2. [expect |-> None, doomed |-> Doomed] \in [expect : Read, doomed : SUBSET Nat]
      BY <3>1, None \in Read DEF Read
    <3>. QED  BY <1>3, <3>2 DEF endMirrorIfCopyGone, Shape, ToldOK
  <2>. QED  BY <1>3, <2>1, <2>2, <2>3, Rests
    DEF endMirrorIfCopyGone, Shape, sides, engine, marks, deletes, told, people
<1>4. CASE TakingPauses
  <2>1. Left(sess') /\ Spends
    BY <1>4, EngineAsked DEF TakingPauses, Shape, engine, Spends, pauseMirrorsOn
  <2>2. DOMAIN sess' = DOMAIN sess /\ Live' \subseteq Live
    BY <2>1, Rests DEF Shape
  <2>3. DeletesOK'
    <3>1. DOMAIN sess \subseteq Nat
      BY SessionsListed DEF Shape
    <3>. QED  BY <1>4, <3>1 DEF TakingPauses, pauseMirrorsOn, Shape, DeletesOK, Deletes
  <2>. QED  BY <1>4, <2>1, <2>2, <2>3, Rests
    DEF TakingPauses, pauseMirrorsOn, Shape, sides, engine, marks, deletes, told, people
<1>5. CASE TakingStays
  <2>1. Left(sess') /\ Spends
    BY <1>5, EngineAsked DEF TakingStays, Shape, engine, Spends
  <2>2. DOMAIN sess' = DOMAIN sess /\ Live' \subseteq Live
    BY <2>1, Rests DEF Shape
  <2>3. DeletesOK'
    BY <1>5, <2>2 DEF TakingStays, Shape, DeletesOK, Deletes, Read, Seen, NoDelete
  <2>. QED  BY <1>5, <2>1, <2>2, <2>3, Rests
    DEF TakingStays, Shape, sides, engine, marks, deletes, told, people
<1>6. CASE TakingGone
  <2>1. Left(sess') /\ Spends
    BY <1>6, EngineAsked DEF TakingGone, Shape, engine, Spends
  <2>2. DOMAIN sess' = DOMAIN sess /\ Live' \subseteq Live
    BY <2>1, Rests DEF Shape
  <2>3. SidesOK'
    BY <1>6, <2>2 DEF TakingGone, Shape, SidesOK, Sides
  <2>4. DeletesOK'
    BY <1>6, <2>2 DEF TakingGone, Shape, DeletesOK, Deletes, Read, Seen
  <2>. QED  BY <1>6, <2>1, <2>2, <2>3, <2>4, Rests
    DEF TakingGone, Shape, sides, engine, marks, deletes, told, people
<1>7. CASE stopMirrorsForWorktree
  <2>1. Left(sess') /\ Spends
    BY <1>7, EngineAsked DEF stopMirrorsForWorktree, Shape, engine, Spends
  <2>2. DOMAIN sess' = DOMAIN sess /\ Live' \subseteq Live
    BY <2>1, Rests DEF Shape
  <2>3. DeletesOK'
    BY <1>7, <2>2 DEF stopMirrorsForWorktree, Shape, DeletesOK, Deletes, Read, Seen, NoDelete
  <2>. QED  BY <1>7, <2>1, <2>2, <2>3, Rests
    DEF stopMirrorsForWorktree, Shape, sides, engine, marks, deletes, told, people
<1>. QED  BY <1>1, <1>2, <1>3, <1>4, <1>5, <1>6, <1>7 DEF HeardSteps

AtWork ==
    \/ \E x \in Sides : \/ Writes(x) \/ Vanishes(x)
                         \/ \E s \in DOMAIN sess : Follow(s, x)
    \/ \E s \in DOMAIN sess : Cycle(s)
Asked ==
    \/ \E s \in DOMAIN sess : RuleChanges(s) \/ StopBegins(s) \/ StopKeeps(s)
    \/ StopEnds \/ StopAsks \/ \E s \in Ids : ReopenCut(s)
    \/ DeleteBegins \/ DeleteRefused \/ CopyDeleteBegins \/ MoveBegins \/ GoneCopyAges
Troubles == DaemonDies \/ DaemonComes \/ AppDies \/ LinkDrops \/ LinkComes

LEMMA WorkKeepsShape == Shape /\ AtWork => Shape'
<1> SUFFICES ASSUME Shape, AtWork PROVE Shape'
  OBVIOUS
<1> USE MirrorAssumption
<1>1. ASSUME NEW x \in Sides, Writes(x) PROVE Shape'
  <2>1. Left(sess') /\ Spends
    BY <1>1, EngineAsked DEF Writes, Shape, engine, Spends
  <2>2. DOMAIN sess' = DOMAIN sess /\ Live' \subseteq Live
    BY <2>1, Rests DEF Shape
  <2>3. SidesOK'
    <3>1. spent'.works \in Works
      <4>1. spent' = [spent EXCEPT !.works = spent.works + 1] /\ spent.works < MaxWorks
        BY <1>1 DEF Writes, Spend
      <4>. QED  BY <4>1 DEF Shape, SpentOK, Spending, Works
    <3>2. PICK kind \in {"files", "commits"} :
            holds' = [holds EXCEPT ![x][kind] = @ \cup {spent'.works}]
      BY <1>1 DEF Writes
    <3>3. CASE kind = "files"
      <4>1. holds' = [holds EXCEPT ![x].files = @ \cup {spent'.works}]
        BY <3>2, <3>3
      <4>. QED  BY <1>1, <3>1, <4>1 DEF Writes, Shape, SidesOK, Work
    <3>4. CASE kind = "commits"
      <4>1. holds' = [holds EXCEPT ![x].commits = @ \cup {spent'.works}]
        BY <3>2, <3>4
      <4>. QED  BY <1>1, <3>1, <4>1 DEF Writes, Shape, SidesOK, Work
    <3>. QED  BY <3>2, <3>3, <3>4
  <2>. QED  BY <1>1, <2>1, <2>2, <2>3, Rests
    DEF Writes, Shape, sides, engine, marks, deletes, told, people
<1>2. ASSUME NEW x \in Sides, Vanishes(x) PROVE Shape'
  <2>1. Left(sess') /\ Spends
    BY <1>2, EngineAsked DEF Vanishes, Shape, engine, Spends
  <2>2. DOMAIN sess' = DOMAIN sess /\ Live' \subseteq Live
    BY <2>1, Rests DEF Shape
  <2>3. SidesOK'
    BY <1>2, <2>2 DEF Vanishes, Shape, SidesOK
  <2>. QED  BY <1>2, <2>1, <2>2, <2>3, Rests
    DEF Vanishes, Shape, sides, engine, marks, deletes, told, people
<1>3. ASSUME NEW x \in Sides, NEW s \in DOMAIN sess, Follow(s, x) PROVE Shape'
  <2>1. Left(sess') /\ Spends
    BY <1>3, EngineAsked DEF Follow, Shape, engine, Spends
  <2>2. DOMAIN sess' = DOMAIN sess /\ Live' \subseteq Live
    BY <2>1, Rests DEF Shape
  <2>3. SidesOK'
    BY <1>3, <2>2 DEF Follow, Shape, SidesOK, Work, Other, Sides
  <2>. QED  BY <1>3, <2>1, <2>2, <2>3, Rests
    DEF Follow, Shape, sides, engine, marks, deletes, told, people
<1>4. ASSUME NEW s \in DOMAIN sess, Cycle(s) PROVE Shape'
  <2>1. Left(sess') /\ Spends
    BY <1>4, EngineAsked DEF Cycle, Shape, engine, Spends
  <2>2. DOMAIN sess' = DOMAIN sess /\ Live' \subseteq Live
    BY <2>1, Rests DEF Shape
  <2>3. SidesOK'
    BY <1>4, <2>2 DEF Cycle, Shape, SidesOK, Work, Sides
  <2>. QED  BY <1>4, <2>1, <2>2, <2>3, Rests
    DEF Cycle, Shape, sides, engine, marks, deletes, told, people
<1>. QED  BY <1>1, <1>2, <1>3, <1>4 DEF AtWork

LEMMA PeopleKeepShape == Shape /\ Asked => Shape'
<1> SUFFICES ASSUME Shape, Asked PROVE Shape'
  OBVIOUS
<1> USE MirrorAssumption
<1>1. ASSUME NEW s \in DOMAIN sess, RuleChanges(s) PROVE Shape'
  <2>1. Left(sess') /\ Spends
    BY <1>1, EngineAsked DEF RuleChanges, Shape, engine, Spends, Reopens
  <2>2. DOMAIN sess' = DOMAIN sess /\ Live' \subseteq Live
    BY <2>1, Rests DEF Shape
  <2>3. ReopenOK'
    <3>1. s \in Live /\ sess[s].root \in 0..MaxAsks /\ sess[s].root <= place
      <4>1. s \in Live
        BY <1>1 DEF RuleChanges, mirrorFilesSettled, Crossing
      <4>2. sess[s] \in Session
        BY <4>1, ElementOfSeq, SessionsListed DEF Shape, EngineOK, Live
      <4>. QED  BY <4>1, <4>2 DEF Session, Shape, EngineOK
    <3>2. /\ reopen' = [t \in Ids |-> IF t = s
                            THEN [stage |-> "creating", to |-> sess[s].root, why |-> "rule"]
                            ELSE reopen[t]]
          /\ UNCHANGED place
      BY <1>1 DEF RuleChanges, Reopens, sides
    <3>. QED  BY <2>2, <3>1, <3>2 DEF Shape, ReopenOK, Opens, Live
  <2>. QED  BY <1>1, <2>1, <2>2, <2>3, Rests
    DEF RuleChanges, Shape, sides, engine, marks, deletes, told, people
<1>2. ASSUME NEW s \in DOMAIN sess, StopBegins(s) PROVE Shape'
  <2>1. Left(sess') /\ Spends
    BY <1>2, EngineAsked DEF StopBegins, Shape, engine, Spends
  <2>2. DOMAIN sess' = DOMAIN sess /\ Live' \subseteq Live
    BY <2>1, Rests DEF Shape
  <2>3. PeopleOK'
    <3>1. s \in Nat
      BY SessionsListed DEF Shape, Ids
    <3>. QED  BY <1>2, <3>1 DEF StopBegins, Shape, PeopleOK
  <2>. QED  BY <1>2, <2>1, <2>2, <2>3, Rests
    DEF StopBegins, Shape, sides, engine, marks, deletes, told, people
<1>3. ASSUME NEW s \in DOMAIN sess, StopKeeps(s) PROVE Shape'
  <2>1. Left(sess') /\ Spends
    BY <1>3, EngineAsked DEF StopKeeps, Shape, engine, Spends
  <2>2. DOMAIN sess' = DOMAIN sess /\ Live' \subseteq Live
    BY <2>1, Rests DEF Shape
  <2>3. PeopleOK'
    <3>1. s \in Nat
      BY SessionsListed DEF Shape, Ids
    <3>. QED  BY <1>3, <3>1 DEF StopKeeps, Shape, PeopleOK
  <2>. QED  BY <1>3, <2>1, <2>2, <2>3, Rests
    DEF StopKeeps, Shape, sides, engine, marks, deletes, told, people
<1>4. CASE StopEnds
  <2>1. Left(sess') /\ Spends
    BY <1>4, EngineAsked DEF StopEnds, Shape, engine, Spends
  <2>2. DOMAIN sess' = DOMAIN sess /\ Live' \subseteq Live
    BY <2>1, Rests DEF Shape
  <2>3. PeopleOK'
    BY <1>4, <2>2 DEF StopEnds, Shape, PeopleOK, NoStop
  <2>. QED  BY <1>4, <2>1, <2>2, <2>3, Rests
    DEF StopEnds, Shape, sides, engine, marks, deletes, told, people
<1>5. CASE StopAsks
  <2>1. Left(sess') /\ Spends
    BY <1>5, EngineAsked DEF StopAsks, Shape, engine, Spends, CopyGoes
  <2>2. DOMAIN sess' = DOMAIN sess /\ Live' \subseteq Live
    BY <2>1, Rests DEF Shape
  <2>3. SidesOK'
    BY <1>5, <2>2 DEF StopAsks, Shape, SidesOK, CopyGoes, Sides
  <2>4. PeopleOK'
    BY <1>5, <2>2 DEF StopAsks, Shape, PeopleOK, NoStop
  <2>5. ToldOK'
    BY <1>5, <2>2 DEF StopAsks, Shape, ToldOK, CopyGoes, Announced, Read
  <2>. QED  BY <1>5, <2>1, <2>2, <2>3, <2>4, <2>5, Rests
    DEF StopAsks, Shape, sides, engine, marks, deletes, told, people
<1>6. CASE DeleteBegins
  <2>1. Left(sess') /\ Spends
    BY <1>6, EngineAsked DEF DeleteBegins, Shape, engine, Spends
  <2>2. DOMAIN sess' = DOMAIN sess /\ Live' \subseteq Live
    BY <2>1, Rests DEF Shape
  <2>3. DeletesOK'
    BY <1>6, <2>2 DEF DeleteBegins, Shape, DeletesOK, Deletes, Read, Seen, NoDelete
  <2>. QED  BY <1>6, <2>1, <2>2, <2>3, Rests
    DEF DeleteBegins, Shape, sides, engine, marks, deletes, told, people
<1>7. CASE DeleteRefused
  <2>1. Left(sess') /\ Spends
    BY <1>7, EngineAsked DEF DeleteRefused, Shape, engine, Spends
  <2>2. DOMAIN sess' = DOMAIN sess /\ Live' \subseteq Live
    BY <2>1, Rests DEF Shape
  <2>3. DeletesOK'
    BY <1>7, <2>2 DEF DeleteRefused, Shape, DeletesOK, Deletes, Read, Seen, NoDelete
  <2>. QED  BY <1>7, <2>1, <2>2, <2>3, Rests
    DEF DeleteRefused, Shape, sides, engine, marks, deletes, told, people
<1>8. CASE CopyDeleteBegins
  <2>1. Left(sess') /\ Spends
    BY <1>8, EngineAsked DEF CopyDeleteBegins, Shape, engine, Spends
  <2>2. DOMAIN sess' = DOMAIN sess /\ Live' \subseteq Live
    BY <2>1, Rests DEF Shape
  <2>3. DeletesOK'
    BY <1>8, <2>2 DEF CopyDeleteBegins, Shape, DeletesOK, CopyDeletes, Read, NoCopyDelete
  <2>. QED  BY <1>8, <2>1, <2>2, <2>3, Rests
    DEF CopyDeleteBegins, Shape, sides, engine, marks, deletes, told, people
<1>9. CASE MoveBegins
  <2>1. Left(sess') /\ Spends
    BY <1>9, EngineAsked DEF MoveBegins, Shape, engine, Spends
  <2>2. DOMAIN sess' = DOMAIN sess /\ Live' \subseteq Live
    BY <2>1, Rests DEF Shape
  <2>3. PeopleOK'
    BY <1>9, <2>2 DEF MoveBegins, Shape, PeopleOK, SidesOK
  <2>4. SpentOK'
    <3>1. /\ spent' = [spent EXCEPT !.asks = spent.asks + 1] /\ spent.asks < MaxAsks
          /\ move.stage = "no" /\ UNCHANGED place
      BY <1>9 DEF MoveBegins, Spend, Mutable, sides
    <3>2. /\ spent' \in Spending
          /\ spent'.asks = spent.asks + 1
      BY <3>1 DEF Shape, SpentOK, Spending
    <3>3. place <= spent.asks /\ spent.asks \in Nat
      BY <3>1 DEF Shape, SidesOK, SpentOK, Spending
    <3>. QED  BY <1>9, <3>1, <3>2, <3>3 DEF MoveBegins, Shape, SidesOK, SpentOK
  <2>. QED  BY <1>9, <2>1, <2>2, <2>3, <2>4, Rests
    DEF MoveBegins, Shape, sides, engine, marks, deletes, told, people
<1>10. CASE GoneCopyAges
  <2>1. Left(sess') /\ Spends
    BY <1>10, EngineAsked DEF GoneCopyAges, Shape, engine, Spends
  <2>2. DOMAIN sess' = DOMAIN sess /\ Live' \subseteq Live
    BY <2>1, Rests DEF Shape
  <2>. QED  BY <1>10, <2>1, <2>2, Rests
    DEF GoneCopyAges, Shape, sides, engine, marks, deletes, told, people
<1>11. ASSUME NEW s \in Ids, ReopenCut(s) PROVE Shape'
  <2>1. Left(sess') /\ Spends
    BY <1>11, EngineAsked DEF ReopenCut, Shape, engine, Spends
  <2>2. DOMAIN sess' = DOMAIN sess /\ Live' \subseteq Live
    BY <2>1, Rests DEF Shape
  <2>3. ReopenOK'
    <3>1. /\ UNCHANGED place /\ Opens(s)
          /\ \/ reopen' = [reopen EXCEPT ![s].stage = "cut"]
             \/ reopen' = [reopen EXCEPT ![s] = NoReopen]
      BY <1>11 DEF ReopenCut, Recreating, Opens, sides
    <3>. QED  BY <2>2, <3>1 DEF Shape, ReopenOK, NoReopen, Opens
  <2>. QED  BY <1>11, <2>1, <2>2, <2>3, Rests
    DEF ReopenCut, Shape, sides, engine, marks, deletes, told, people
<1>. QED
  BY <1>1, <1>2, <1>3, <1>4, <1>5, <1>6, <1>7, <1>8, <1>9, <1>10, <1>11 DEF Asked

LEMMA TroublesKeepShape == Shape /\ Troubles => Shape'
<1> SUFFICES ASSUME Shape, Troubles PROVE Shape'
  OBVIOUS
<1> USE MirrorAssumption
<1>1. CASE DaemonDies
  <2>1. Left(sess') /\ Spends
    BY <1>1, EngineAsked DEF DaemonDies, Shape, engine, Spends
  <2>2. DOMAIN sess' = DOMAIN sess /\ Live' \subseteq Live
    BY <2>1, Rests DEF Shape
  <2>3. EngineOK'
    BY <1>1, <2>2 DEF DaemonDies, Shape, EngineOK, Live, sides, engine
  <2>. QED  BY <1>1, <2>1, <2>2, <2>3, Rests
    DEF DaemonDies, Shape, sides, engine, marks, deletes, told, people
<1>2. CASE DaemonComes
  <2>1. Left(sess') /\ Spends
    BY <1>2, EngineAsked DEF DaemonComes, Shape, engine, Spends
  <2>2. DOMAIN sess' = DOMAIN sess /\ Live' \subseteq Live
    BY <2>1, Rests DEF Shape
  <2>3. EngineOK'
    BY <1>2, <2>2 DEF DaemonComes, Shape, EngineOK, Live, sides, engine
  <2>. QED  BY <1>2, <2>1, <2>2, <2>3, Rests
    DEF DaemonComes, Shape, sides, engine, marks, deletes, told, people
<1>3. CASE AppDies
  <2>1. Left(sess') /\ Spends
    BY <1>3, EngineAsked DEF AppDies, Shape, engine, Spends
  <2>2. DOMAIN sess' = DOMAIN sess /\ Live' \subseteq Live
    BY <2>1, Rests DEF Shape
  <2>3. EngineOK'
    BY <1>3, <2>2 DEF AppDies, Shape, EngineOK, Live, sides, engine
  <2>4. MarksOK'
    BY <1>3, <2>2 DEF AppDies, Shape, MarksOK
  <2>5. DeletesOK'
    BY <1>3, <2>2 DEF AppDies, Shape, DeletesOK, Deletes, Read, Seen, NoDelete
  <2>6. ToldOK'
    BY <1>3, <2>2 DEF AppDies, Shape, ToldOK
  <2>7. ReopenOK'
    BY <1>3, <2>2 DEF AppDies, Shape, ReopenOK, NoReopen, Opens
  <2>8. PeopleOK'
    BY <1>3, <2>2 DEF AppDies, Shape, PeopleOK, NoStop, NoMove
  <2>9. SpentOK'
    BY <1>3, <2>1, SpendsWithin DEF AppDies, Shape, NoMove, sides
  <2>. QED  BY <1>3, <2>1, <2>2, <2>3, <2>4, <2>5, <2>6, <2>7, <2>8, <2>9, Rests
    DEF AppDies, Shape, sides, engine, marks, deletes, told, people
<1>4. CASE LinkDrops
  <2>1. Left(sess') /\ Spends
    BY <1>4, EngineAsked DEF LinkDrops, Shape, engine, Spends
  <2>2. DOMAIN sess' = DOMAIN sess /\ Live' \subseteq Live
    BY <2>1, Rests DEF Shape
  <2>3. EngineOK'
    BY <1>4, <2>2 DEF LinkDrops, Shape, EngineOK, Live, sides, engine
  <2>4. ToldOK'
    BY <1>4, <2>2 DEF LinkDrops, Shape, ToldOK
  <2>. QED  BY <1>4, <2>1, <2>2, <2>3, <2>4, Rests
    DEF LinkDrops, Shape, sides, engine, marks, deletes, told, people
<1>5. CASE LinkComes
  <2>1. Left(sess') /\ Spends
    BY <1>5, EngineAsked DEF LinkComes, Shape, engine, Spends
  <2>2. DOMAIN sess' = DOMAIN sess /\ Live' \subseteq Live
    BY <2>1, Rests DEF Shape
  <2>3. EngineOK'
    BY <1>5, <2>2 DEF LinkComes, Shape, EngineOK, Live, sides, engine
  <2>. QED  BY <1>5, <2>1, <2>2, <2>3, Rests
    DEF LinkComes, Shape, sides, engine, marks, deletes, told, people
<1>. QED  BY <1>1, <1>2, <1>3, <1>4, <1>5 DEF Troubles

LEMMA LiveOnes ==
    ASSUME Shape
    PROVE  \A s \in Live : s \in Ids /\ sess[s] \in Session
<1>1. \A s \in DOMAIN sess : sess[s] \in Session \cup {None} /\ s \in Ids
  BY ElementOfSeq, SessionsListed DEF Shape, EngineOK
<1>. QED  BY <1>1 DEF Live

\* A move re-opens the sessions that were where it came from, or has them wait.
LEMMA SessionsMoved ==
    ASSUME Shape, NEW from, moveMirrorsOfWorktree(from), UNCHANGED place
    PROVE  Left(sess') /\ ReopenOK' /\ rootLooks' \subseteq rootLooks
<1> DEFINE those == {s \in Live : sess[s].root = from}
<1>1. Left(sess')
  <2>1. sess' = With(those, TRUE)
    BY DEF moveMirrorsOfWorktree, Reopens
  <2>. QED  BY <2>1, EngineAsked DEF Shape
<1>2. DOMAIN sess' = DOMAIN sess
  BY <1>1, Rests
<1>3. CASE link
  <2>1. /\ reopen' = [s \in Ids |-> IF s \in those
                          THEN [stage |-> "creating", to |-> place, why |-> "move"]
                          ELSE reopen[s]]
        /\ UNCHANGED rootLooks
    BY <1>3 DEF moveMirrorsOfWorktree, Reopens
  <2>2. those \subseteq DOMAIN sess
    BY DEF Live
  <2> HIDE DEF those
  <2>. QED  BY <1>1, <1>2, <2>1, <2>2 DEF Shape, SidesOK, ReopenOK, Opens
<1>4. CASE ~link
  <2>1. UNCHANGED reopen /\ rootLooks' \subseteq rootLooks
    BY <1>4 DEF moveMirrorsOfWorktree
  <2>. QED  BY <1>1, <2>1, Rests
<1>. QED  BY <1>3, <1>4

\* A new session is put behind the others.
LEMMA SessionMade ==
    ASSUME Shape, NEW new \in Session, new.root <= place, new.replaces <= Len(sess),
           Len(sess) < MaxSessions, sess' = Append(sess, new), UNCHANGED <<place, daemon, link>>
    PROVE  EngineOK' /\ DOMAIN sess \subseteq DOMAIN sess'
<1> DEFINE S == Session \cup {None}
<1>1. /\ sess' \in Seq(S) /\ Len(sess') = Len(sess) + 1
      /\ \A i \in 1..Len(sess') : sess'[i] = IF i <= Len(sess) THEN sess[i] ELSE new
  BY AppendProperties DEF Shape, EngineOK
<1>2. Len(sess) \in Nat /\ DOMAIN sess = 1..Len(sess) /\ DOMAIN sess' = 1..Len(sess')
  BY <1>1, LenProperties DEF Shape, EngineOK
<1>3. \A s \in Live' : sess'[s].root <= place /\ sess'[s].replaces < s
  BY <1>1, <1>2 DEF Shape, EngineOK, Live, Session
<1>4. Len(sess') <= MaxSessions
  BY <1>1, <1>2, MirrorAssumption
<1>5. daemon' \in BOOLEAN /\ link' \in BOOLEAN
  BY DEF Shape, EngineOK
<1>6. EngineOK'
  BY <1>1, <1>3, <1>4, <1>5 DEF EngineOK
<1>7. DOMAIN sess \subseteq DOMAIN sess'
  BY <1>1, <1>2
<1>. QED  BY <1>6, <1>7

LEMMA SessionOpened ==
    ASSUME Shape, NEW s \in Ids, Opens(s), Len(sess) < MaxSessions, sess' = Made(s),
           UNCHANGED <<place, daemon, link>>
    PROVE  EngineOK' /\ DOMAIN sess \subseteq DOMAIN sess'
<1> DEFINE new == [paused |-> FALSE, root |-> reopen[s].to, replaces |-> s]
<1>1. s \in DOMAIN sess /\ reopen[s].to \in 0..MaxAsks /\ reopen[s].to <= place
  BY MirrorAssumption DEF Shape, ReopenOK, SidesOK
<1>2. s \in 0..MaxSessions /\ s <= Len(sess)
  BY <1>1, SessionsListed DEF Shape, Ids
<1>3. new \in Session /\ new.root <= place /\ new.replaces <= Len(sess)
  BY <1>1, <1>2 DEF Session
<1>4. sess' = Append(sess, new)
  BY DEF Made
<1> HIDE DEF new
<1>. QED  BY <1>3, <1>4, SessionMade

LEMMA ReopenKeepsShape == Shape /\ (ReopenSteps) => Shape'
<1> SUFFICES ASSUME Shape, ReopenSteps PROVE Shape'
  OBVIOUS
<1> USE MirrorAssumption
<1>0. ASSUME NEW s \in Ids, ReopenCreates(s) PROVE Shape'
  <2>1. Opens(s) /\ Len(sess) < MaxSessions /\ sess' = Made(s)
    BY <1>0 DEF ReopenCreates, Creates, Opens
  <2>2. EngineOK' /\ DOMAIN sess \subseteq DOMAIN sess'
    BY <1>0, <2>1, SessionOpened DEF ReopenCreates, sides
  <2>3. ReopenOK'
    <3>1. reopen' = [reopen EXCEPT ![s].stage = "replacing"] /\ UNCHANGED place
      BY <1>0 DEF ReopenCreates, sides
    <3>. QED  BY <2>1, <2>2, <3>1 DEF Shape, ReopenOK, Opens
  <2>4. MarksOK'
    BY <1>0, <2>2 DEF ReopenCreates, Shape, MarksOK, marks, told
  <2>. QED
    BY <1>0, <2>2, <2>3, <2>4
    DEF ReopenCreates, Shape, SidesOK, DeletesOK, ToldOK, PeopleOK, SpentOK, sides, deletes, told, people
<1>1. ASSUME NEW s \in Ids, ReopenFails(s) PROVE Shape'
  <2>1. Left(sess') /\ Spends
    BY <1>1, EngineAsked DEF ReopenFails, Shape, engine, Spends
  <2>2. DOMAIN sess' = DOMAIN sess /\ Live' \subseteq Live
    BY <2>1, Rests DEF Shape
  <2>3. ReopenOK'
    <3>1. /\ UNCHANGED place /\ Opens(s)
          /\ \/ reopen' = [reopen EXCEPT ![s] = NoReopen]
             \/ reopen' = [reopen EXCEPT ![s].stage = "abandoned"]
      BY <1>1 DEF ReopenFails, Opens, sides
    <3>. QED  BY <2>2, <3>1 DEF Shape, ReopenOK, NoReopen, Opens
  <2>. QED  BY <1>1, <2>1, <2>2, <2>3, Rests
    DEF ReopenFails, Shape, sides, engine, marks, deletes, told, people
<1>2. ASSUME NEW s \in Ids, ReopenEnds(s) PROVE Shape'
  <2>1. Left(sess') /\ Spends
    BY <1>2, EngineAsked DEF ReopenEnds, Shape, engine, Spends
  <2>2. DOMAIN sess' = DOMAIN sess /\ Live' \subseteq Live
    BY <2>1, Rests DEF Shape
  <2>3. ReopenOK'
    BY <1>2, <2>2 DEF ReopenEnds, Shape, ReopenOK, NoReopen, Opens, sides
  <2>. QED  BY <1>2, <2>1, <2>2, <2>3, Rests
    DEF ReopenEnds, Shape, sides, engine, marks, deletes, told, people
<1>3. CASE MoveFails
  <2>1. Left(sess') /\ Spends
    BY <1>3, EngineAsked DEF MoveFails, Shape, engine, Spends
  <2>2. DOMAIN sess' = DOMAIN sess /\ Live' \subseteq Live
    BY <2>1, Rests DEF Shape
  <2>3. PeopleOK'
    BY <1>3, <2>2 DEF MoveFails, Shape, PeopleOK, NoMove
  <2>4. SpentOK'
    BY <1>3, <2>2 DEF MoveFails, Shape, SpentOK, NoMove, sides
  <2>. QED  BY <1>3, <2>1, <2>2, <2>3, <2>4, Rests
    DEF MoveFails, Shape, sides, engine, marks, deletes, told, people
<1>4. CASE MoveDone
  <2>1. Left(sess') /\ Spends
    BY <1>4, EngineAsked DEF MoveDone, Shape, engine, Spends
  <2>2. DOMAIN sess' = DOMAIN sess /\ Live' \subseteq Live
    BY <2>1, Rests DEF Shape
  <2>3. SidesOK'
    BY <1>4, <2>2 DEF MoveDone, Shape, SidesOK, SpentOK, Spending
  <2>4. EngineOK'
    <3>1. UNCHANGED <<daemon, link, sess>> /\ place' = place + 1 /\ Live' = Live
      BY <1>4 DEF MoveDone, engine, Live
    <3>2. \A s \in Live : sess[s].root \in Nat
      BY LiveOnes DEF Session
    <3>3. \A s \in Live : sess[s].root <= place + 1
      BY <3>2 DEF Shape, EngineOK, SidesOK
    <3>. QED  BY <3>1, <3>3 DEF Shape, EngineOK
  <2>5. ReopenOK'
    BY <1>4, <2>2 DEF MoveDone, Shape, ReopenOK, SidesOK, Opens
  <2>6. PeopleOK'
    BY <1>4, <2>2 DEF MoveDone, Shape, PeopleOK
  <2>7. SpentOK'
    BY <1>4, <2>2 DEF MoveDone, Shape, SpentOK, Spending, SidesOK, PeopleOK
  <2>. QED  BY <1>4, <2>1, <2>2, <2>3, <2>4, <2>5, <2>6, <2>7, Rests
    DEF MoveDone, Shape, sides, engine, marks, deletes, told, people
<1>5. CASE MoveMirrors
  <2>1. Left(sess') /\ ReopenOK' /\ rootLooks' \subseteq rootLooks
    <3>1. CASE daemon
      <4>1. moveMirrorsOfWorktree(move.from) /\ UNCHANGED place
        BY <1>5, <3>1 DEF MoveMirrors, sides
      <4>. QED  BY <4>1, SessionsMoved
    <3>2. CASE ~daemon
      <4>1. UNCHANGED <<sess, reopen, rootLooks, place>>
        BY <1>5, <3>2 DEF MoveMirrors, sides
      <4>. QED  BY <4>1, EngineAsked, Rests DEF Shape
    <3>. QED  BY <3>1, <3>2
  <2>2. DOMAIN sess' = DOMAIN sess /\ Live' \subseteq Live
    BY <2>1, Rests
  <2>3. PeopleOK' /\ SpentOK'
    BY <1>5 DEF MoveMirrors, Shape, PeopleOK, SpentOK, sides
  <2>4. MarksOK'
    BY <1>5, <2>1, <2>2 DEF MoveMirrors, Shape, MarksOK, told
  <2>. QED  BY <1>5, <2>1, <2>3, <2>4, Rests
    DEF MoveMirrors, Shape, sides, engine, marks, deletes, told, people
<1>6. CASE MoveEnds
  <2>1. Left(sess') /\ Spends
    BY <1>6, EngineAsked DEF MoveEnds, Shape, engine, Spends
  <2>2. DOMAIN sess' = DOMAIN sess /\ Live' \subseteq Live
    BY <2>1, Rests DEF Shape
  <2>3. PeopleOK'
    BY <1>6, <2>2 DEF MoveEnds, Shape, PeopleOK, NoMove
  <2>4. SpentOK'
    BY <1>6, <2>2 DEF MoveEnds, Shape, SpentOK, NoMove, sides
  <2>. QED  BY <1>6, <2>1, <2>2, <2>3, <2>4, Rests
    DEF MoveEnds, Shape, sides, engine, marks, deletes, told, people
<1>7. ASSUME NEW s \in Ids, ReopenLate(s) PROVE Shape'
  <2>1. CASE UNCHANGED sess
    <3>1. Left(sess') /\ Spends
      BY <1>7, <2>1, EngineAsked DEF ReopenLate, Shape, Spends
    <3>2. sess' # Made(s)
      <4>1. Len(Made(s)) = Len(sess) + 1 /\ Len(sess) \in Nat
        BY AppendProperties, LenProperties DEF Made, Shape, EngineOK
      <4>. QED  BY <2>1, <4>1
    <3>3. reopen' = [reopen EXCEPT ![s] = NoReopen] /\ UNCHANGED place
      BY <1>7, <3>2 DEF ReopenLate, sides
    <3>4. ReopenOK'
      BY <2>1, <3>3 DEF Shape, ReopenOK, NoReopen, Opens
    <3>. QED  BY <1>7, <3>1, <3>4, Rests
      DEF ReopenLate, Shape, sides, engine, marks, deletes, told, people
  <2>2. CASE sess' = Made(s) /\ Len(sess) < MaxSessions
    <3>1. /\ Opens(s) /\ UNCHANGED <<place, daemon, link>>
      BY <1>7 DEF ReopenLate, Opens, sides
    <3>2. EngineOK' /\ DOMAIN sess \subseteq DOMAIN sess' /\ Len(sess') \in Nat
      <4>1. EngineOK' /\ DOMAIN sess \subseteq DOMAIN sess'
        BY <2>2, <3>1, SessionOpened
      <4>. QED  BY <4>1, LenProperties DEF EngineOK
    <3>3. \/ reopen' = [reopen EXCEPT ![s] = NoReopen]
          \/ reopen' = [reopen EXCEPT ![s] =
                            [reopen[s] EXCEPT !.stage = "unwanted", !.to = Len(sess')]]
      BY <1>7 DEF ReopenLate, Shape, ReopenOK
    <3>4. ReopenOK'
      <4> DEFINE all == [stage : {"no", "creating", "replacing", "abandoned", "cut", "unwanted"},
                         to : Nat, why : {"rule", "move"}]
      <4>1. /\ reopen \in [Ids -> all] /\ reopen[s] \in all
            /\ [reopen[s] EXCEPT !.stage = "unwanted", !.to = Len(sess')] \in all
            /\ NoReopen \in all
        BY <3>2 DEF Shape, ReopenOK, NoReopen
      <4>3. ~Opens(s)'
        BY <3>3, <4>1 DEF Opens, NoReopen
      <4> DEFINE late == [reopen[s] EXCEPT !.stage = "unwanted", !.to = Len(sess')]
      <4>4. late \in all /\ \/ reopen' = [reopen EXCEPT ![s] = NoReopen]
                            \/ reopen' = [reopen EXCEPT ![s] = late]
        BY <3>3, <4>1
      <4> HIDE DEF all, late
      <4>2. reopen' \in [Ids -> all] /\ \A u \in Ids : u # s => reopen'[u] = reopen[u]
        BY <4>1, <4>4
      <4> USE DEF all
      <4>. QED  BY <3>1, <3>2, <4>2, <4>3 DEF Shape, ReopenOK, Opens
    <3>5. MarksOK'
      BY <1>7, <3>2 DEF ReopenLate, Shape, MarksOK, marks, told
    <3>. QED
      BY <1>7, <3>2, <3>4, <3>5
      DEF ReopenLate, Shape, SidesOK, DeletesOK, ToldOK, PeopleOK, SpentOK, sides, deletes, told, people
  <2>. QED  BY <1>7, <2>1, <2>2 DEF ReopenLate
<1>8. ASSUME NEW s \in Ids, endAbandoned(s) PROVE Shape'
  <2>1. Left(sess') /\ Spends
    BY <1>8, EngineAsked DEF endAbandoned, Shape
  <2>2. DOMAIN sess' = DOMAIN sess /\ Live' \subseteq Live
    BY <2>1, Rests DEF Shape
  <2>3. ReopenOK'
    <3>1. /\ UNCHANGED place
          /\ UNCHANGED reopen \/ reopen' = [reopen EXCEPT ![s] = NoReopen]
      BY <1>8 DEF endAbandoned, sides
    <3>. QED  BY <2>2, <3>1 DEF Shape, ReopenOK, NoReopen, Opens
  <2>. QED  BY <1>8, <2>1, <2>2, <2>3, Rests
    DEF endAbandoned, Shape, sides, engine, marks, deletes, told, people
<1>. QED
  BY <1>0, <1>1, <1>2, <1>3, <1>4, <1>5, <1>6, <1>7, <1>8 DEF ReopenSteps

LEMMA SweepKeepsShape == Shape /\ (SweepSteps) => Shape'
<1> SUFFICES ASSUME Shape, SweepSteps PROVE Shape'
  OBVIOUS
<1> USE MirrorAssumption
<1>1. CASE PendingStopsEnd
  <2>1. Left(sess') /\ Spends
    BY <1>1, EngineAsked DEF PendingStopsEnd, Shape, engine, Spends
  <2>2. DOMAIN sess' = DOMAIN sess /\ Live' \subseteq Live
    BY <2>1, Rests DEF Shape
  <2>. QED  BY <1>1, <2>1, <2>2, Rests
    DEF PendingStopsEnd, Shape, sides, engine, marks, deletes, told, people
<1>2. ASSUME NEW s \in DOMAIN sess, ReplacedEnds(s) PROVE Shape'
  <2>1. Left(sess') /\ Spends
    BY <1>2, EngineAsked DEF ReplacedEnds, Shape, engine, Spends
  <2>2. DOMAIN sess' = DOMAIN sess /\ Live' \subseteq Live
    BY <2>1, Rests DEF Shape
  <2>. QED  BY <1>2, <2>1, <2>2, Rests
    DEF ReplacedEnds, Shape, sides, engine, marks, deletes, told, people
<1>3. ASSUME NEW s \in DOMAIN sess, lookAt(s) PROVE Shape'
  <2>1. Left(sess') /\ Spends
    BY <1>3, EngineAsked DEF lookAt, Shape, engine, Spends
  <2>2. DOMAIN sess' = DOMAIN sess /\ Live' \subseteq Live
    BY <2>1, Rests DEF Shape
  <2>3. MarksOK'
    BY <1>3, <2>2 DEF lookAt, Shape, MarksOK
  <2>. QED  BY <1>3, <2>1, <2>2, <2>3, Rests
    DEF lookAt, Shape, sides, engine, marks, deletes, told, people
<1>4. ASSUME NEW s \in DOMAIN sess, LookThere(s) PROVE Shape'
  <2>1. Left(sess') /\ Spends
    BY <1>4, EngineAsked DEF LookThere, Shape, engine, Spends, LookDone
  <2>2. DOMAIN sess' = DOMAIN sess /\ Live' \subseteq Live
    BY <2>1, Rests DEF Shape
  <2>3. MarksOK'
    BY <1>4, <2>2 DEF LookThere, Shape, MarksOK, LookDone
  <2>. QED  BY <1>4, <2>1, <2>2, <2>3, Rests
    DEF LookThere, LookDone, Shape, sides, engine, marks, deletes, told, people
<1>5. ASSUME NEW s \in DOMAIN sess, LookMoves(s) PROVE Shape'
  <2>1. Left(sess') /\ ReopenOK' /\ rootLooks' \subseteq rootLooks
    <3>1. moveMirrorsOfWorktree(sess[s].root) /\ UNCHANGED place
      BY <1>5 DEF LookMoves, LookDone, sides
    <3>. QED  BY <3>1, SessionsMoved
  <2>2. DOMAIN sess' = DOMAIN sess /\ Live' \subseteq Live
    BY <2>1, Rests
  <2>3. MarksOK'
    BY <1>5, <2>1, <2>2 DEF LookMoves, LookDone, Shape, MarksOK
  <2>4. Spends
    BY <1>5 DEF LookMoves, Spends
  <2>. QED  BY <1>5, <2>1, <2>3, <2>4, Rests
    DEF LookMoves, LookDone, Shape, sides, engine, marks, deletes, told, people
<1>6. ASSUME NEW s \in DOMAIN sess, LookMovedEnds(s) PROVE Shape'
  <2>1. Left(sess') /\ Spends
    BY <1>6, EngineAsked DEF LookMovedEnds, Shape, engine, Spends, EndsKeeping, LookDone
  <2>2. DOMAIN sess' = DOMAIN sess /\ Live' \subseteq Live
    BY <2>1, Rests DEF Shape
  <2>3. MarksOK'
    BY <1>6, <2>2 DEF LookMovedEnds, Shape, MarksOK, LookDone, EndsKeeping
  <2>. QED  BY <1>6, <2>1, <2>2, <2>3, Rests
    DEF LookMovedEnds, LookDone, EndsKeeping, Shape, sides, engine, marks, deletes, told,
        people
<1>7. ASSUME NEW s \in DOMAIN sess, LookGone(s) PROVE Shape'
  <2>1. Left(sess') /\ Spends
    BY <1>7, EngineAsked DEF LookGone, Shape, engine, Spends, EndsKeeping, LookDone
  <2>2. DOMAIN sess' = DOMAIN sess /\ Live' \subseteq Live
    BY <2>1, Rests DEF Shape
  <2>3. MarksOK'
    BY <1>7, <2>2 DEF LookGone, Shape, MarksOK, LookDone, EndsKeeping
  <2>. QED  BY <1>7, <2>1, <2>2, <2>3, Rests
    DEF LookGone, LookDone, EndsKeeping, Shape, sides, engine, marks, deletes, told, people
<1>8. ASSUME NEW s \in DOMAIN sess, LookEnded(s) PROVE Shape'
  <2>1. Left(sess') /\ Spends
    BY <1>8, EngineAsked DEF LookEnded, Shape, engine, Spends, LookDone
  <2>2. DOMAIN sess' = DOMAIN sess /\ Live' \subseteq Live
    BY <2>1, Rests DEF Shape
  <2>3. MarksOK'
    BY <1>8, <2>2 DEF LookEnded, Shape, MarksOK, LookDone
  <2>. QED  BY <1>8, <2>1, <2>2, <2>3, Rests
    DEF LookEnded, LookDone, Shape, sides, engine, marks, deletes, told, people
<1>9. ASSUME NEW s \in DOMAIN sess, LookLost(s) PROVE Shape'
  <2>1. Left(sess') /\ Spends
    BY <1>9, EngineAsked DEF LookLost, Shape, Spends
  <2>2. DOMAIN sess' = DOMAIN sess /\ Live' \subseteq Live
    BY <2>1, Rests DEF Shape
  <2>3. MarksOK'
    BY <1>9, <2>2 DEF LookLost, Shape, MarksOK, LookDone
  <2>. QED  BY <1>9, <2>1, <2>2, <2>3, Rests
    DEF LookLost, LookDone, Shape, sides, engine, marks, deletes, told, people
<1>. QED
  BY <1>1, <1>2, <1>3, <1>4, <1>5, <1>6, <1>7, <1>8, <1>9 DEF SweepSteps, Looks, LookSteps


LEMMA ShapeStarts == Init => Shape
<1> SUFFICES ASSUME Init PROVE Shape
  OBVIOUS
<1> USE MirrorAssumption
<1>1. SidesOK /\ ToldOK /\ PeopleOK
  BY DEF Init, SidesOK, Work, ToldOK, PeopleOK, NoStop, NoMove
<1>2. DOMAIN sess = {1} /\ sess[1] = [paused |-> FALSE, root |-> 0, replaces |-> 0]
  BY DEF Init
<1>3. EngineOK
  <2>1. sess[1] \in Session
    BY <1>2 DEF Session
  <2>2. sess \in Seq(Session \cup {None}) /\ Len(sess) = 1
    BY <2>1 DEF Init
  <2>. QED  BY <1>2, <2>2 DEF Init, EngineOK, Live
<1>4. MarksOK
  BY DEF Init, MarksOK
<1>5. DeletesOK
  BY DEF Init, DeletesOK, Deletes, CopyDeletes, NoDelete, NoCopyDelete, Seen, Read
<1>6. ReopenOK /\ SpentOK
  BY DEF Init, ReopenOK, NoReopen, Opens, SpentOK, Spending, NoMove
<1>. QED  BY <1>1, <1>3, <1>4, <1>5, <1>6 DEF Shape

LEMMA ShapeKept == Shape /\ [Next]_vars => Shape'
<1> SUFFICES ASSUME Shape, [Next]_vars PROVE Shape'
  OBVIOUS
<1>1. CASE UNCHANGED vars
  <2>1. Left(sess') /\ Spends
    BY <1>1, EngineAsked DEF vars, engine, Shape, Spends
  <2>. QED
    BY <1>1, <2>1, Rests DEF vars, Shape, sides, engine, marks, deletes, told, people
<1>2. CASE Next
  <2>1. \/ AtWork \/ Asked \/ Troubles
        \/ DeleteSteps \/ CopySteps \/ HeardSteps \/ ReopenSteps \/ SweepSteps
    BY <1>2 DEF Next, AtWork, Asked, Troubles
  <2>. QED
    BY <2>1, WorkKeepsShape, PeopleKeepShape, TroublesKeepShape, DeleteKeepsShape,
       CopyKeepsShape, HeardKeepsShape, ReopenKeepsShape, SweepKeepsShape
<1>. QED  BY <1>1, <1>2

--------------------------------------------------------------------------------
(* Whose turn it is.                                                           *)

turns == <<at, del, taking, move, jobs>>

LEMMA TurnRests == TurnInv /\ UNCHANGED turns => TurnInv'
BY DEF TurnInv, turns, Here

LEMMA TurnKept == Shape /\ TurnInv /\ [Next]_vars => TurnInv'
<1> SUFFICES ASSUME Shape, TurnInv, [Next]_vars PROVE TurnInv'
  OBVIOUS
<1>1. CASE UNCHANGED vars
  BY <1>1, TurnRests DEF vars, turns, sides, deletes, people
<1>2. CASE AtWork
  <2>1. ASSUME NEW x \in Sides, Vanishes(x) PROVE TurnInv'
    <3>1. x = "original" => del.stage = "no" /\ taking.stage = "no" /\ move.stage = "no"
      BY <2>1 DEF Vanishes, Mutable, Deleting
    <3>. QED  BY <2>1, <3>1 DEF Vanishes, TurnInv, Here, Shape, SidesOK, Sides, deletes, people
  <2>2. ASSUME ~\E x \in Sides : Vanishes(x) PROVE TurnInv'
    <3>1. UNCHANGED turns
      BY <1>2, <2>2 DEF AtWork, Writes, Follow, Cycle, turns, deletes, people
    <3>. QED  BY <3>1, TurnRests
  <2>. QED  BY <2>1, <2>2
<1>3. CASE Asked
  <2>1. CASE DeleteBegins
    BY <2>1 DEF DeleteBegins, Mutable, Deleting, NoDelete, TurnInv, Here, sides, people
  <2>2. CASE DeleteRefused
    BY <2>2 DEF DeleteRefused, NoDelete, TurnInv, Here, sides, people
  <2>3. CASE MoveBegins
    BY <2>3 DEF MoveBegins, Mutable, Deleting, TurnInv, Here, sides, deletes
  <2>4. CASE StopAsks
    <3>1. at'["original"] = at["original"]
      BY <2>4 DEF StopAsks, CopyGoes, Shape, SidesOK, Sides
    <3>2. UNCHANGED <<del, taking, move, jobs>>
      BY <2>4 DEF StopAsks, deletes
    <3>. QED  BY <3>1, <3>2 DEF TurnInv, Here
  <2>5. ASSUME ~DeleteBegins, ~DeleteRefused, ~MoveBegins, ~StopAsks PROVE TurnInv'
    <3>1. UNCHANGED turns
      BY <1>3, <2>5
      DEF Asked, RuleChanges, StopBegins, StopKeeps, StopEnds, CopyDeleteBegins,
          GoneCopyAges, ReopenCut, turns, sides, deletes, people
    <3>. QED  BY <3>1, TurnRests
  <2>. QED  BY <2>1, <2>2, <2>3, <2>4, <2>5
<1>4. CASE Troubles
  <2>1. CASE AppDies
    BY <2>1 DEF AppDies, NoDelete, NoMove, TurnInv, Here, sides
  <2>2. CASE ~AppDies
    <3>1. UNCHANGED turns
      BY <1>4, <2>2
      DEF Troubles, DaemonDies, DaemonComes, LinkDrops, LinkComes, turns, sides, deletes, people
    <3>. QED  BY <3>1, TurnRests
  <2>. QED  BY <2>1, <2>2
<1>5. CASE DeleteSteps
  <2>1. CASE LookReads
    BY <2>1 DEF LookReads, TurnInv, Here, sides, people, Shape, DeletesOK, Deletes
  <2>2. CASE LookSettles
    BY <2>2 DEF LookSettles, TurnInv, Here, sides, people, Shape, DeletesOK, Deletes
  <2>3. CASE DeletePauses
    BY <2>3
      DEF DeletePauses, pauseMirrorsOn, TurnInv, Here, sides, people, Shape, DeletesOK,
          Deletes
  <2>4. CASE DeleteShort
    BY <2>4 DEF DeleteShort, NoDelete, TurnInv, Here, sides, people
  <2>5. CASE DeleteGoes
    BY <2>5 DEF DeleteGoes, TurnInv, Here, sides, people, Shape, DeletesOK, Deletes
  <2>6. CASE DeleteKept
    BY <2>6 DEF DeleteKept, NoDelete, TurnInv, Here, sides, people
  <2>7. CASE DeleteGone
    BY <2>7 DEF DeleteGone, TurnInv, Here, people, Shape, SidesOK, Sides, DeletesOK, Deletes
  <2>8. CASE deleteCopiesOf
    BY <2>8 DEF deleteCopiesOf, TurnInv, Here, sides, people, Shape, DeletesOK, Deletes
  <2>9. ASSUME NEW s \in Ids, JobEnds(s) PROVE TurnInv'
    BY <2>9 DEF JobEnds, TurnInv, Here, sides, people, Shape, DeletesOK
  <2>10. ASSUME NEW s \in Ids, JobAsks(s) PROVE TurnInv'
    BY <2>10 DEF JobAsks, CopyGoes, TurnInv, Here, people, Shape, SidesOK, Sides, DeletesOK
  <2>. QED
    BY <1>5, <2>1, <2>2, <2>3, <2>4, <2>5, <2>6, <2>7, <2>8, <2>9, <2>10 DEF DeleteSteps
<1>6. CASE CopySteps
  <2>1. CASE CopyDeleteGone
    BY <2>1 DEF CopyDeleteGone, TurnInv, Here, people, Shape, SidesOK
  <2>2. CASE ~CopyDeleteGone
    <3>1. UNCHANGED turns
      BY <1>6, <2>2
      DEF CopySteps, CopyAsks, CopyReads, CopyAsksAgain, CopyDeleteGoes, CopyDeleteStays,
          turns, sides, people
    <3>. QED  BY <3>1, TurnRests
  <2>. QED  BY <2>1, <2>2
<1>7. CASE HeardSteps
  <2>1. ASSUME NEW h \in heard, HeardEnds(h) PROVE TurnInv'
    BY <2>1 DEF HeardEnds, Mutable, Deleting, NoDelete, TurnInv, Here, sides, people
  <2>2. CASE TakingPauses
    BY <2>2
      DEF TakingPauses, pauseMirrorsOn, TurnInv, Here, sides, people, Shape, DeletesOK,
          Deletes
  <2>3. CASE TakingStays
    BY <2>3 DEF TakingStays, NoDelete, TurnInv, Here, sides, people
  <2>4. CASE TakingGone
    BY <2>4 DEF TakingGone, TurnInv, Here, people, Shape, SidesOK, Sides, DeletesOK, Deletes
  <2>5. CASE stopMirrorsForWorktree
    BY <2>5 DEF stopMirrorsForWorktree, NoDelete, TurnInv, Here, sides, people
  <2>6. ASSUME NEW m \in news, Hears(m) PROVE TurnInv'
    BY <2>6, TurnRests DEF Hears, turns, sides, deletes, people
  <2>7. CASE endMirrorIfCopyGone
    BY <2>7, TurnRests DEF endMirrorIfCopyGone, turns, sides, deletes, people
  <2>. QED  BY <1>7, <2>1, <2>2, <2>3, <2>4, <2>5, <2>6, <2>7 DEF HeardSteps
<1>8. CASE ReopenSteps
  <2>1. CASE MoveFails
    BY <2>1 DEF MoveFails, NoMove, TurnInv, Here, sides, deletes
  <2>2. CASE MoveDone
    BY <2>2 DEF MoveDone, TurnInv, Here, deletes, Shape, PeopleOK
  <2>3. CASE MoveMirrors
    BY <2>3 DEF MoveMirrors, TurnInv, Here, sides, deletes, Shape, PeopleOK
  <2>4. CASE MoveEnds
    BY <2>4 DEF MoveEnds, NoMove, TurnInv, Here, sides, deletes
  <2>5. ASSUME NEW s \in Ids, \/ ReopenCreates(s) \/ ReopenFails(s) \/ ReopenEnds(s)
                               \/ ReopenLate(s) \/ endAbandoned(s)
        PROVE  TurnInv'
    BY <2>5, TurnRests
    DEF ReopenCreates, ReopenFails, ReopenEnds, ReopenLate, endAbandoned, turns, sides,
        deletes, people
  <2>. QED  BY <1>8, <2>1, <2>2, <2>3, <2>4, <2>5 DEF ReopenSteps
<1>9. CASE SweepSteps
  <2>1. UNCHANGED turns
    BY <1>9
    DEF SweepSteps, Looks, LookSteps, PendingStopsEnd, ReplacedEnds, lookAt, LookThere,
        LookMoves, LookLost, LookMovedEnds, LookGone, LookEnded, LookDone, turns, sides,
        deletes, people
  <2>. QED  BY <2>1, TurnRests
<1>. QED
  BY <1>1, <1>2, <1>3, <1>4, <1>5, <1>6, <1>7, <1>8, <1>9 DEF Next, AtWork, Asked, Troubles

--------------------------------------------------------------------------------
(* What goes with the other side held nothing of its own.                      *)

\* Work is never lost on a side, and what is gone is not worked on.
Grows ==
    \A x \in Sides :
        /\ holds[x].files \subseteq holds'[x].files
        /\ holds[x].commits \subseteq holds'[x].commits
        /\ ~Here(x) => holds'[x] = holds[x] /\ ~Here(x)'

LEMMA WorkGrows == Shape /\ [Next]_vars => Grows
<1> SUFFICES ASSUME Shape, [Next]_vars PROVE Grows
  OBVIOUS
<1> USE DEF Grows, Here
<1>0. holds \in [Sides -> Work] /\ DOMAIN at = Sides
  BY DEF Shape, SidesOK
<1>1. ASSUME UNCHANGED <<at, holds>> PROVE Grows
  BY <1>1
<1>2. CASE AtWork
  <2>1. ASSUME NEW x \in Sides, Writes(x) PROVE Grows
    <3>1. PICK kind \in {"files", "commits"} :
            holds' = [holds EXCEPT ![x][kind] = @ \cup {spent'.works}]
      BY <2>1 DEF Writes
    <3>2. UNCHANGED at /\ at[x] = "here"
      BY <2>1 DEF Writes
    <3>3. CASE kind = "files"
      <4>1. holds' = [holds EXCEPT ![x].files = @ \cup {spent'.works}]
        BY <3>1, <3>3
      <4>. QED  BY <1>0, <3>2, <4>1 DEF Work
    <3>4. CASE kind = "commits"
      <4>1. holds' = [holds EXCEPT ![x].commits = @ \cup {spent'.works}]
        BY <3>1, <3>4
      <4>. QED  BY <1>0, <3>2, <4>1 DEF Work
    <3>. QED  BY <3>1, <3>3, <3>4
  <2>2. ASSUME NEW x \in Sides, Vanishes(x) PROVE Grows
    BY <1>0, <2>2 DEF Vanishes
  <2>3. ASSUME NEW x \in Sides, NEW s \in DOMAIN sess, Follow(s, x) PROVE Grows
    <3>1. Here("original") /\ Here("copy") /\ UNCHANGED at
      BY <2>3 DEF Follow, mirrorFilesSettled, Crossing
    <3>. QED  BY <1>0, <2>3, <3>1 DEF Follow, Work, Sides
  <2>4. ASSUME NEW s \in DOMAIN sess, Cycle(s) PROVE Grows
    <3>1. Here("original") /\ Here("copy") /\ UNCHANGED at
      BY <2>4 DEF Cycle, Crossing
    <3>. QED  BY <1>0, <2>4, <3>1 DEF Cycle, Work, Sides
  <2>. QED  BY <1>2, <2>1, <2>2, <2>3, <2>4 DEF AtWork
<1>3. CASE UNCHANGED holds /\ \E x \in Sides, as \in {"deleted", "taken", "stopped"} :
                                 at' = [at EXCEPT ![x] = as]
  BY <1>0, <1>3
<1>4. CASE Asked
  <2>1. CASE StopAsks
    BY <2>1, <1>1, <1>3 DEF StopAsks, CopyGoes, Sides
  <2>2. CASE ~StopAsks
    BY <1>1, <1>4, <2>2
    DEF Asked, RuleChanges, StopBegins, StopKeeps, StopEnds, DeleteBegins, DeleteRefused,
        CopyDeleteBegins, MoveBegins, GoneCopyAges, ReopenCut, sides
  <2>. QED  BY <2>1, <2>2
<1>5. CASE DeleteSteps
  <2>1. CASE DeleteGone
    BY <2>1, <1>3 DEF DeleteGone, Sides
  <2>2. ASSUME NEW s \in Ids, JobAsks(s) PROVE Grows
    BY <2>2, <1>1, <1>3 DEF JobAsks, CopyGoes, Sides
  <2>3. ASSUME ~DeleteGone, ~\E s \in Ids : JobAsks(s) PROVE Grows
    BY <1>1, <1>5, <2>3
    DEF DeleteSteps, LookReads, LookSettles, DeletePauses, pauseMirrorsOn, DeleteShort,
        DeleteGoes, DeleteKept, deleteCopiesOf, JobEnds, sides
  <2>. QED  BY <2>1, <2>2, <2>3
<1>6. CASE CopySteps
  <2>1. CASE CopyDeleteGone
    BY <2>1, <1>3 DEF CopyDeleteGone, Sides
  <2>2. CASE ~CopyDeleteGone
    BY <1>1, <1>6, <2>2
    DEF CopySteps, CopyAsks, CopyReads, CopyAsksAgain, CopyDeleteGoes, CopyDeleteStays, sides
  <2>. QED  BY <2>1, <2>2
<1>7. CASE HeardSteps
  <2>1. CASE TakingGone
    BY <2>1, <1>3 DEF TakingGone, Sides
  <2>2. CASE ~TakingGone
    BY <1>1, <1>7, <2>2
    DEF HeardSteps, Hears, HeardEnds, endMirrorIfCopyGone, TakingPauses, pauseMirrorsOn,
        TakingStays, stopMirrorsForWorktree, sides
  <2>. QED  BY <2>1, <2>2
<1>8. CASE ReopenSteps
  BY <1>1, <1>8
  DEF ReopenSteps, ReopenCreates, ReopenFails, ReopenEnds, ReopenLate, endAbandoned,
      MoveFails, MoveDone, MoveMirrors, MoveEnds, sides
<1>9. CASE SweepSteps
  BY <1>1, <1>9
  DEF SweepSteps, Looks, LookSteps, PendingStopsEnd, ReplacedEnds, lookAt, LookThere,
      LookMoves, LookLost, LookMovedEnds, LookGone, LookEnded, LookDone, sides
<1>10. CASE Troubles \/ UNCHANGED vars
  BY <1>1, <1>10
  DEF Troubles, DaemonDies, DaemonComes, AppDies, LinkDrops, LinkComes, vars, sides
<1>. QED
  BY <1>2, <1>4, <1>5, <1>6, <1>7, <1>8, <1>9, <1>10 DEF Next, AtWork, Asked, Troubles

LEMMA WithinGrows ==
    ASSUME Grows, NEW work, NEW x \in Sides, Within(work, x)
    PROVE  work.files \subseteq holds'[x].files /\ work.commits \subseteq holds'[x].commits
BY DEF Grows, Within

\* What a delete found of the copy.
LEMMA LookRests == LookInv /\ Grows /\ UNCHANGED <<del, jobs>> => LookInv'
<1> SUFFICES ASSUME LookInv, Grows, UNCHANGED <<del, jobs>> PROVE LookInv'
  OBVIOUS
<1>. QED  BY DEF LookInv, Grows, Within, Sides

LEMMA LookKept == Shape /\ TurnInv /\ LookInv /\ [Next]_vars => LookInv'
<1> SUFFICES ASSUME Shape, TurnInv, LookInv, [Next]_vars PROVE LookInv'
  OBVIOUS
<1>0. Grows
  BY WorkGrows
<1>1. ASSUME UNCHANGED <<del, jobs>> PROVE LookInv'
  BY <1>0, <1>1, LookRests
\* A delete that is under way owes nothing yet.
<1>2. ASSUME Here("original"), UNCHANGED jobs PROVE \A s \in Ids : jobs'[s] = "no"
  BY <1>2 DEF TurnInv
<1>3. ASSUME Here("original"), UNCHANGED jobs, del' = [NoDelete EXCEPT !.stage = del'.stage]
      PROVE  LookInv'
  <2>1. del'.look = None /\ del'.read = None
    BY <1>3 DEF NoDelete
  <2>. QED  BY <1>2, <1>3, <2>1 DEF LookInv
<1>4. ASSUME Here("original"), UNCHANGED <<jobs, holds>>,
             del'.look = del.look, del'.stage # "settled"
      PROVE  LookInv'
  BY <1>2, <1>4 DEF LookInv, Within
<1>5. CASE Asked
  <2>1. CASE DeleteBegins
    BY <2>1, <1>3 DEF DeleteBegins, Mutable, NoDelete
  <2>2. CASE DeleteRefused
    BY <2>2, <1>3 DEF DeleteRefused, NoDelete, TurnInv
  <2>3. CASE ~DeleteBegins /\ ~DeleteRefused
    BY <1>1, <1>5, <2>3
    DEF Asked, RuleChanges, StopBegins, StopKeeps, StopEnds, StopAsks, CopyDeleteBegins,
        MoveBegins, GoneCopyAges, ReopenCut, deletes
  <2>. QED  BY <2>1, <2>2, <2>3
<1>6. CASE DeleteSteps
  <2>1. CASE LookReads
    <3>1. del.stage = "look" /\ Here("original") /\ UNCHANGED <<holds, jobs>>
      BY <2>1 DEF LookReads, TurnInv, sides
    <3>2. CASE del' = [del EXCEPT !.stage = "pause"]
      BY <1>4, <3>1, <3>2 DEF Shape, DeletesOK, Deletes
    <3>3. ASSUME NEW s \in Live,
                 del' = [del EXCEPT !.stage = "settled", !.of = s,
                                    !.read = Reads("copy", "original")]
          PROVE  LookInv'
      <4>1. del'.read = Reads("copy", "original") /\ del'.look = del.look
        BY <3>3 DEF Shape, DeletesOK, Deletes
      <4>2. del'.read # None => /\ del'.read.files \subseteq holds'["copy"].files
                                /\ del'.read.commits \subseteq holds'["original"].commits
        BY <3>1, <4>1 DEF Reads
      <4>. QED  BY <1>2, <3>1, <4>1, <4>2 DEF LookInv, Within
    <3>. QED  BY <2>1, <3>2, <3>3 DEF LookReads, OnWorktree
  <2>2. CASE LookSettles
    <3>1. del.stage = "settled" /\ Here("original") /\ UNCHANGED <<holds, jobs>>
      BY <2>2 DEF LookSettles, TurnInv, sides
    <3>2. /\ del'.stage = "pause"
          /\ del'.look = IF del.read # None /\ mirrorFilesSettled(del.of)
                         THEN Look(del.of, del.read) ELSE None
      BY <2>2 DEF LookSettles, Shape, DeletesOK, Deletes
    <3>3. del'.look # None =>
            /\ del'.look.read # None
            /\ del'.look.read.files \subseteq holds'["original"].files
            /\ del'.look.read.commits \subseteq holds'["original"].commits
      BY <3>1, <3>2 DEF Look, mirrorFilesSettled, LookInv
    <3>. QED  BY <1>2, <3>1, <3>2, <3>3 DEF LookInv, Within
  <2>3. CASE DeletePauses
    BY <2>3, <1>4 DEF DeletePauses, pauseMirrorsOn, TurnInv, sides, Shape, DeletesOK, Deletes
  <2>4. CASE DeleteShort
    BY <2>4, <1>3 DEF DeleteShort, NoDelete, TurnInv
  <2>5. CASE DeleteGoes
    BY <2>5, <1>4 DEF DeleteGoes, TurnInv, sides, Shape, DeletesOK, Deletes
  <2>6. CASE DeleteKept
    BY <2>6, <1>3 DEF DeleteKept, NoDelete, TurnInv
  <2>7. CASE DeleteGone
    BY <2>7, <1>4 DEF DeleteGone, TurnInv, Shape, DeletesOK, Deletes
  <2>8. CASE deleteCopiesOf
    <3>1. del'.look = del.look /\ del'.stage # "settled" /\ UNCHANGED holds
      BY <2>8 DEF deleteCopiesOf, sides, Shape, DeletesOK, Deletes
    <3>2. \A s \in Ids : jobs'[s] \in {"take", "ask"} => del.look # None
      BY <2>8 DEF deleteCopiesOf, LookInv
    <3>. QED  BY <3>1, <3>2 DEF LookInv, Within
  <2>9. ASSUME NEW s \in Ids, JobEnds(s) \/ JobAsks(s) PROVE LookInv'
    <3>1. UNCHANGED <<del, holds>>
      BY <2>9 DEF JobEnds, JobAsks, sides
    <3>2. \A t \in Ids : jobs'[t] \in {"take", "ask"} => del.look # None
      BY <2>9 DEF JobEnds, JobAsks, LookInv, Shape, DeletesOK
    <3>. QED  BY <3>1, <3>2 DEF LookInv, Within
  <2>. QED
    BY <1>6, <2>1, <2>2, <2>3, <2>4, <2>5, <2>6, <2>7, <2>8, <2>9 DEF DeleteSteps
<1>7. CASE CopySteps \/ HeardSteps
  BY <1>1, <1>7
  DEF CopySteps, CopyAsks, CopyReads, CopyAsksAgain, CopyDeleteGoes, CopyDeleteStays,
      CopyDeleteGone, HeardSteps, Hears, HeardEnds, endMirrorIfCopyGone, TakingPauses,
      pauseMirrorsOn, TakingStays, TakingGone, stopMirrorsForWorktree, deletes
<1>8. CASE ReopenSteps \/ SweepSteps
  BY <1>1, <1>8
  DEF ReopenSteps, ReopenCreates, ReopenFails, ReopenEnds, ReopenLate, endAbandoned,
      MoveFails, MoveDone, MoveMirrors, MoveEnds, SweepSteps, Looks, LookSteps,
      PendingStopsEnd, ReplacedEnds, lookAt, LookThere, LookMoves, LookLost, LookMovedEnds,
      LookGone, LookEnded, LookDone, deletes
<1>9. CASE AtWork \/ UNCHANGED vars
  BY <1>1, <1>9 DEF AtWork, Writes, Vanishes, Follow, Cycle, vars, deletes
<1>10. CASE Troubles
  <2>1. CASE AppDies
    BY <2>1 DEF AppDies, NoDelete, LookInv
  <2>2. CASE ~AppDies
    BY <1>1, <1>10, <2>2 DEF Troubles, DaemonDies, DaemonComes, LinkDrops, LinkComes, deletes
  <2>. QED  BY <2>1, <2>2
<1>. QED
  BY <1>5, <1>6, <1>7, <1>8, <1>9, <1>10 DEF Next, AtWork, Asked, Troubles

\* What a delete of the copy found of the original.
LEMMA CopyLookKept == Shape /\ CopyLookInv /\ [Next]_vars => CopyLookInv'
<1> SUFFICES ASSUME Shape, CopyLookInv, [Next]_vars PROVE CopyLookInv'
  OBVIOUS
<1>0. Grows
  BY WorkGrows
<1>1. ASSUME UNCHANGED copyDel PROVE CopyLookInv'
  BY <1>0, <1>1 DEF CopyLookInv, Grows, Within, Sides
<1>2. ASSUME copyDel'.stage \in {"no", "ask"}, copyDel'.read = None PROVE CopyLookInv'
  BY <1>2 DEF CopyLookInv
<1>3. CASE CopySteps
  <2>1. CASE CopyAsks
    <3>1. copyDel'.stage \in {"read", "cleanup"} /\ copyDel'.read = None
      BY <2>1 DEF CopyAsks, CopyLookInv, Shape, DeletesOK, CopyDeletes
    <3>. QED  BY <3>1 DEF CopyLookInv
  <2>2. CASE CopyReads
    <3>1. /\ copyDel'.stage = "again" /\ copyDel'.read = Reads("original", "copy")
          /\ UNCHANGED holds
      BY <2>2 DEF CopyReads, sides, Shape, DeletesOK, CopyDeletes
    <3>. QED  BY <3>1 DEF CopyLookInv, Reads, Within
  <2>3. CASE CopyAsksAgain
    <3>1. /\ copyDel'.stage = "cleanup" /\ UNCHANGED holds
          /\ copyDel'.read = IF mirrorFilesSettled(copyDel.of) THEN copyDel.read ELSE None
      BY <2>3 DEF CopyAsksAgain, sides, Shape, DeletesOK, CopyDeletes
    <3>. QED  BY <3>1 DEF CopyLookInv, mirrorFilesSettled, Within
  <2>4. CASE CopyDeleteGoes
    <3>1. /\ copyDel.stage = "cleanup" /\ copyDel'.stage = "going"
          /\ copyDel'.read = copyDel.read /\ UNCHANGED holds
      BY <2>4 DEF CopyDeleteGoes, sides, Shape, DeletesOK, CopyDeletes
    <3>. QED  BY <3>1 DEF CopyLookInv, Within
  <2>5. CASE CopyDeleteStays \/ CopyDeleteGone
    BY <2>5, <1>2 DEF CopyDeleteStays, CopyDeleteGone, NoCopyDelete
  <2>. QED  BY <1>3, <2>1, <2>2, <2>3, <2>4, <2>5 DEF CopySteps
<1>4. CASE Asked
  <2>1. CASE CopyDeleteBegins
    BY <2>1, <1>2 DEF CopyDeleteBegins, NoCopyDelete
  <2>2. CASE ~CopyDeleteBegins
    BY <1>1, <1>4, <2>2
    DEF Asked, RuleChanges, StopBegins, StopKeeps, StopEnds, StopAsks, DeleteBegins,
        DeleteRefused, MoveBegins, GoneCopyAges, ReopenCut, deletes
  <2>. QED  BY <2>1, <2>2
<1>5. CASE DeleteSteps \/ HeardSteps
  BY <1>1, <1>5
  DEF DeleteSteps, LookReads, LookSettles, DeletePauses, pauseMirrorsOn, DeleteShort,
      DeleteGoes, DeleteKept, DeleteGone, deleteCopiesOf, JobEnds, JobAsks, HeardSteps, Hears,
      HeardEnds, endMirrorIfCopyGone, TakingPauses, TakingStays, TakingGone,
      stopMirrorsForWorktree, deletes
<1>6. CASE ReopenSteps \/ SweepSteps
  BY <1>1, <1>6
  DEF ReopenSteps, ReopenCreates, ReopenFails, ReopenEnds, ReopenLate, endAbandoned,
      MoveFails, MoveDone, MoveMirrors, MoveEnds, SweepSteps, Looks, LookSteps,
      PendingStopsEnd, ReplacedEnds, lookAt, LookThere, LookMoves, LookLost, LookMovedEnds,
      LookGone, LookEnded, LookDone, deletes
<1>7. CASE AtWork \/ Troubles \/ UNCHANGED vars
  BY <1>1, <1>7
  DEF AtWork, Writes, Vanishes, Follow, Cycle, Troubles, DaemonDies, DaemonComes, AppDies,
      LinkDrops, LinkComes, vars, deletes
<1>. QED
  BY <1>3, <1>4, <1>5, <1>6, <1>7 DEF Next, AtWork, Asked, Troubles

\* What is told of a copy's delete, and what is made of it.
LEMMA ToldKept == Shape /\ CopyLookInv /\ ToldInv /\ [Next]_vars => ToldInv'
<1> SUFFICES ASSUME Shape, CopyLookInv, ToldInv, [Next]_vars PROVE ToldInv'
  OBVIOUS
<1>0. Grows
  BY WorkGrows
<1>1. ASSUME NEW work, Brought(work)
      PROVE  /\ ~Here("copy")'
             /\ work.files \subseteq holds'["copy"].files
             /\ work.commits \subseteq holds'["copy"].commits
  BY <1>0, <1>1 DEF Grows, Brought, Within, Here, Sides
<1>2. ~Here("copy") => ~Here("copy")'
  BY <1>0 DEF Grows, Sides
\* Nothing is told that was not, and a delete goes on of what it was told.
<1>3. ASSUME news' \subseteq news \cup {None}, heard' \subseteq heard,
             \/ taking' = taking
             \/ taking'.stage = "no"
             \/ taking'.read = taking.read /\ taking.stage \in {"pause", "cleanup"}
             \/ taking'.stage = "gone" /\ taking.stage \in {"pause", "cleanup"}
      PROVE  ToldInv'
  <2>1. \A work \in news' \ {None} : Brought(work)
    BY <1>3 DEF ToldInv
  <2>2. \A h \in heard' : h.expect # None => Brought(h.expect)
    BY <1>3 DEF ToldInv
  <2>3. taking'.stage \in {"pause", "cleanup"} => Brought(taking'.read)
    BY <1>3 DEF ToldInv
  <2>4. taking'.stage # "no" => ~Here("copy")
    BY <1>3 DEF ToldInv
  <2>. QED  BY <1>1, <1>2, <2>1, <2>2, <2>3, <2>4 DEF ToldInv, Brought, Within
<1>4. CASE HeardSteps
  <2>1. ASSUME NEW m \in news, Hears(m) PROVE ToldInv'
    <3>1. /\ news' \subseteq news /\ UNCHANGED <<taking, holds, at>>
          /\ heard' = heard \cup {[expect |-> m, doomed |-> Doomed]}
      BY <2>1 DEF Hears, deletes, sides
    <3>2. m # None => Brought(m)
      BY DEF ToldInv
    <3>3. \A h \in heard' : h.expect # None => Brought(h.expect)
      BY <3>1, <3>2 DEF ToldInv
    <3>. QED  BY <3>1, <3>3 DEF ToldInv, Brought, Within, Here
  <2>2. ASSUME NEW h \in heard, HeardEnds(h) PROVE ToldInv'
    <3>1. CASE UNCHANGED taking
      BY <2>2, <3>1, <1>3 DEF HeardEnds
    <3>2. CASE taking' # taking
      <4>1. /\ h.expect # None /\ UNCHANGED <<news, holds, at>> /\ heard' \subseteq heard
            /\ taking' = [NoDelete EXCEPT !.stage = "pause", !.read = h.expect]
        BY <2>2, <3>2 DEF HeardEnds, sides
      <4>2. taking'.stage = "pause" /\ taking'.read = h.expect
        BY <4>1 DEF NoDelete
      <4>3. Brought(h.expect)
        BY <4>1 DEF ToldInv
      <4>. QED  BY <4>1, <4>2, <4>3 DEF ToldInv, Brought, Within, Here
    <3>. QED  BY <3>1, <3>2
  <2>3. CASE endMirrorIfCopyGone
    <3>1. /\ UNCHANGED <<news, taking, holds, at>>
          /\ heard' = heard \cup {[expect |-> None, doomed |-> Doomed]}
      BY <2>3 DEF endMirrorIfCopyGone, deletes, sides
    <3>2. \A h \in heard' : h.expect # None => Brought(h.expect)
      BY <3>1 DEF ToldInv
    <3>. QED  BY <3>1, <3>2 DEF ToldInv, Brought, Within, Here
  <2>4. CASE TakingPauses
    BY <2>4, <1>3 DEF TakingPauses, pauseMirrorsOn, told, Shape, DeletesOK, Deletes
  <2>5. CASE TakingStays \/ stopMirrorsForWorktree
    BY <2>5, <1>3 DEF TakingStays, stopMirrorsForWorktree, told, NoDelete
  <2>6. CASE TakingGone
    BY <2>6, <1>3 DEF TakingGone, told, Shape, DeletesOK, Deletes
  <2>. QED  BY <1>4, <2>1, <2>2, <2>3, <2>4, <2>5, <2>6 DEF HeardSteps
<1>5. CASE CopySteps
  <2>1. CASE CopyDeleteGone
    <3>1. /\ UNCHANGED <<heard, taking, holds>> /\ copyDel.stage = "going"
          /\ news' \subseteq news \cup {copyDel.read, None}
      BY <2>1 DEF CopyDeleteGone
    <3>2. ~Here("copy")'
      BY <2>1 DEF CopyDeleteGone, Here, Shape, SidesOK, Sides
    <3>3. \A work \in news' \ {None} : Within(work, "copy")
      BY <3>1 DEF ToldInv, Brought, CopyLookInv
    <3>4. \A h \in heard : h.expect # None => Within(h.expect, "copy")
      BY DEF ToldInv, Brought
    <3>5. taking.stage \in {"pause", "cleanup"} => Within(taking.read, "copy")
      BY DEF ToldInv, Brought
    <3>. QED  BY <3>1, <3>2, <3>3, <3>4, <3>5 DEF ToldInv, Brought, Within
  <2>2. CASE ~CopyDeleteGone
    BY <1>3, <1>5, <2>2
    DEF CopySteps, CopyAsks, CopyReads, CopyAsksAgain, CopyDeleteGoes, CopyDeleteStays, told
  <2>. QED  BY <2>1, <2>2
<1>6. CASE DeleteSteps
  <2>1. ASSUME NEW s \in Ids, JobAsks(s) PROVE ToldInv'
    BY <2>1, <1>3 DEF JobAsks, CopyGoes, Announced
  <2>2. ASSUME ~\E s \in Ids : JobAsks(s) PROVE ToldInv'
    BY <1>3, <1>6, <2>2
    DEF DeleteSteps, LookReads, LookSettles, DeletePauses, pauseMirrorsOn, DeleteShort,
        DeleteGoes, DeleteKept, DeleteGone, deleteCopiesOf, JobEnds, told
  <2>. QED  BY <2>1, <2>2
<1>7. CASE Asked
  <2>1. CASE StopAsks
    BY <2>1, <1>3 DEF StopAsks, CopyGoes, Announced, deletes
  <2>2. CASE ~StopAsks
    BY <1>3, <1>7, <2>2
    DEF Asked, RuleChanges, StopBegins, StopKeeps, StopEnds, DeleteBegins, DeleteRefused,
        CopyDeleteBegins, MoveBegins, GoneCopyAges, ReopenCut, told, deletes
  <2>. QED  BY <2>1, <2>2
<1>8. CASE ReopenSteps \/ SweepSteps
  BY <1>3, <1>8
  DEF ReopenSteps, ReopenCreates, ReopenFails, ReopenEnds, ReopenLate, endAbandoned,
      MoveFails, MoveDone, MoveMirrors, MoveEnds, SweepSteps, Looks, LookSteps,
      PendingStopsEnd, ReplacedEnds, lookAt, LookThere, LookMoves, LookLost, LookMovedEnds,
      LookGone, LookEnded, LookDone, told, deletes
<1>9. CASE AtWork \/ UNCHANGED vars
  BY <1>3, <1>9 DEF AtWork, Writes, Vanishes, Follow, Cycle, vars, told, deletes
<1>10. CASE Troubles
  BY <1>3, <1>10
  DEF Troubles, DaemonDies, DaemonComes, AppDies, LinkDrops, LinkComes, NoDelete, told, deletes
<1>. QED
  BY <1>4, <1>5, <1>6, <1>7, <1>8, <1>9, <1>10 DEF Next, AtWork, Asked, Troubles

\* What was taken had nothing of its own, and nobody works where nothing is.
LEMMA TakenKept ==
    Shape /\ TurnInv /\ LookInv /\ ToldInv /\ TakesNothing /\ [Next]_vars => TakesNothing'
<1> SUFFICES ASSUME Shape, TurnInv, LookInv, ToldInv, TakesNothing, [Next]_vars
             PROVE  TakesNothing'
  OBVIOUS
<1>0. Grows
  BY WorkGrows
<1>1. ASSUME \A x \in Sides : at'[x] = "taken" => at[x] = "taken" PROVE TakesNothing'
  <2> SUFFICES ASSUME NEW x \in Sides, at'[x] = "taken"
               PROVE  /\ holds'[x].files \subseteq holds'[Other(x)].files
                      /\ holds'[x].commits \subseteq holds'[Other(x)].commits
    BY DEF TakesNothing
  <2>1. at[x] = "taken" /\ ~Here(x) /\ Other(x) \in Sides
    BY <1>1 DEF Here, Other, Sides
  <2>. QED  BY <1>0, <2>1 DEF TakesNothing, Grows
<1>2. CASE TakingGone
  <2>1. /\ holds["original"] = taking.read /\ UNCHANGED holds
        /\ at' = [at EXCEPT !["original"] = "taken"] /\ Brought(taking.read)
    BY <1>2 DEF TakingGone, ToldInv
  <2>. QED  BY <2>1 DEF TakesNothing, Brought, Within, Other, Sides, Shape, SidesOK
<1>3. ASSUME NEW s \in Ids, JobAsks(s), at' # at PROVE TakesNothing'
  <2>1. /\ jobs[s] = "ask" /\ UNCHANGED holds /\ at' = [at EXCEPT !["copy"] = "taken"]
        /\ del.look.read # None => holds["copy"] = del.look.read
    BY <1>3 DEF JobAsks, CopyGoes
  <2>2. Within(holds["copy"], "original")
    BY <2>1 DEF LookInv
  <2>. QED  BY <2>1, <2>2 DEF TakesNothing, Within, Other, Sides, Shape, SidesOK
<1>4. ASSUME UNCHANGED at PROVE TakesNothing'
  BY <1>1, <1>4
<1>5. ASSUME NEW x \in Sides, NEW as \in {"deleted", "stopped", "vanished"},
             at' = [at EXCEPT ![x] = as]
      PROVE  TakesNothing'
  BY <1>1, <1>5 DEF Shape, SidesOK
<1>6. CASE DeleteSteps
  <2>1. CASE DeleteGone
    BY <2>1, <1>5 DEF DeleteGone, Sides
  <2>2. ASSUME NEW s \in Ids, JobAsks(s) PROVE TakesNothing'
    BY <2>2, <1>3, <1>4
  <2>3. ASSUME ~DeleteGone, ~\E s \in Ids : JobAsks(s) PROVE TakesNothing'
    BY <1>4, <1>6, <2>3
    DEF DeleteSteps, LookReads, LookSettles, DeletePauses, pauseMirrorsOn, DeleteShort,
        DeleteGoes, DeleteKept, deleteCopiesOf, JobEnds, sides
  <2>. QED  BY <2>1, <2>2, <2>3
<1>7. CASE CopySteps
  <2>1. CASE CopyDeleteGone
    BY <2>1, <1>5 DEF CopyDeleteGone, Sides
  <2>2. CASE ~CopyDeleteGone
    BY <1>4, <1>7, <2>2
    DEF CopySteps, CopyAsks, CopyReads, CopyAsksAgain, CopyDeleteGoes, CopyDeleteStays, sides
  <2>. QED  BY <2>1, <2>2
<1>8. CASE HeardSteps
  BY <1>2, <1>4, <1>8
  DEF HeardSteps, Hears, HeardEnds, endMirrorIfCopyGone, TakingPauses, pauseMirrorsOn,
      TakingStays, stopMirrorsForWorktree, sides
<1>9. CASE Asked
  <2>1. CASE StopAsks
    BY <2>1, <1>4, <1>5 DEF StopAsks, CopyGoes, Sides
  <2>2. CASE ~StopAsks
    BY <1>4, <1>9, <2>2
    DEF Asked, RuleChanges, StopBegins, StopKeeps, StopEnds, DeleteBegins, DeleteRefused,
        CopyDeleteBegins, MoveBegins, GoneCopyAges, ReopenCut, sides
  <2>. QED  BY <2>1, <2>2
<1>10. CASE ReopenSteps \/ SweepSteps
  BY <1>4, <1>10
  DEF ReopenSteps, ReopenCreates, ReopenFails, ReopenEnds, ReopenLate, endAbandoned,
      MoveFails, MoveDone, MoveMirrors, MoveEnds, SweepSteps, Looks, LookSteps,
      PendingStopsEnd, ReplacedEnds, lookAt, LookThere, LookMoves, LookLost, LookMovedEnds,
      LookGone, LookEnded, LookDone, sides
<1>11. CASE AtWork
  <2>1. ASSUME NEW x \in Sides, Vanishes(x) PROVE TakesNothing'
    BY <2>1, <1>5 DEF Vanishes
  <2>2. ASSUME ~\E x \in Sides : Vanishes(x) PROVE TakesNothing'
    BY <1>4, <1>11, <2>2 DEF AtWork, Writes, Follow, Cycle
  <2>. QED  BY <2>1, <2>2
<1>12. CASE Troubles \/ UNCHANGED vars
  BY <1>4, <1>12
  DEF Troubles, DaemonDies, DaemonComes, AppDies, LinkDrops, LinkComes, vars, sides
<1>. QED
  BY <1>6, <1>7, <1>8, <1>9, <1>10, <1>11, <1>12 DEF Next, AtWork, Asked, Troubles

LEMMA WorkStarts == Init => TurnInv /\ WorkInv
BY DEF Init, NoDelete, NoCopyDelete, NoMove, TurnInv, Here, WorkInv, LookInv, CopyLookInv,
   ToldInv, TakesNothing, Within, Brought, Sides

LEMMA WorkKept ==
    Shape /\ TurnInv /\ WorkInv /\ [Next]_vars => (Shape /\ TurnInv /\ WorkInv)'
BY ShapeKept, TurnKept, LookKept, CopyLookKept, ToldKept, TakenKept DEF WorkInv

\* The mirror's state is well formed: sessions come after those they replace and their
\* roots are no newer than the original's folder, what is marked is a session, a copy is
\* only asked for on a finding of the delete, and the original moves no more often
\* than it is asked to.
THEOREM MirrorTypes == Spec => []TypeOK
<1>1. Shape /\ LookInv => TypeOK
  BY DEF Shape, SidesOK, EngineOK, MarksOK, LookInv, TypeOK
<1>2. WorkInv => LookInv
  BY DEF WorkInv
<1>. QED  BY <1>1, <1>2, ShapeStarts, WorkStarts, WorkKept, PTL DEF Spec

\* What goes because the other side was deleted held nothing the deleted side did
\* not hold, whatever people wrote and committed between the looks of a delete and
\* its end on either device (onDelete.ts, tombstones.ts).
THEOREM NothingTaken == Spec => []TakesNothing
<1>1. WorkInv => TakesNothing
  BY DEF WorkInv
<1>. QED  BY <1>1, ShapeStarts, WorkStarts, WorkKept, PTL DEF Spec

--------------------------------------------------------------------------------
(* Nothing crosses while the files of a delete go.                             *)

\* Nothing begins inside a re-open, and a delete waits for the engine.
Apart == "reopen" \notin Overlaps /\ "down" \notin Overlaps

\* What a move makes of the sessions that wait, and of those that were where it
\* came from.
LEMMA WaitsMoved ==
    ASSUME NEW from, moveMirrorsOfWorktree(from)
    PROVE  /\ DOMAIN waitingOnPeer \subseteq DOMAIN waitingOnPeer'
           /\ \A s \in DOMAIN waitingOnPeer' :
                 \/ waitingOnPeer'[s] = place
                 \/ s \in DOMAIN waitingOnPeer /\ waitingOnPeer[s] # from
                       /\ waitingOnPeer'[s] = waitingOnPeer[s]
<1>1. PICK those : waitingOnPeer' = WaitsCarried(those, from)
  BY DEF moveMirrorsOfWorktree
<1>. QED  BY <1>1 DEF WaitsCarried

LEMMA WaitKept == ASSUME Apart PROVE Shape /\ WaitInv /\ [Next]_vars => WaitInv'
<1> SUFFICES ASSUME Shape, WaitInv, [Next]_vars PROVE WaitInv'
  OBVIOUS
<1>1. ASSUME UNCHANGED <<waitingOnPeer, place, move>> PROVE WaitInv'
  BY <1>1 DEF WaitInv
<1>2. CASE Asked
  <2>1. CASE MoveBegins
    BY <2>1 DEF MoveBegins, Mutable, WaitInv, sides, marks
  <2>2. CASE ~MoveBegins
    BY <1>1, <1>2, <2>2
    DEF Asked, RuleChanges, StopBegins, StopKeeps, StopEnds, StopAsks, DeleteBegins,
        DeleteRefused, CopyDeleteBegins, GoneCopyAges, ReopenCut, sides, marks, people
  <2>. QED  BY <2>1, <2>2
<1>3. CASE ReopenSteps
  <2>1. CASE MoveFails
    BY <2>1 DEF MoveFails, NoMove, WaitInv, sides, marks
  <2>2. CASE MoveDone
    BY <2>2 DEF MoveDone, WaitInv, marks, Shape, PeopleOK
  <2>3. CASE MoveMirrors
    <3>1. /\ move.stage = "moved" /\ move'.stage = "reopening" /\ UNCHANGED place
      BY <2>3 DEF MoveMirrors, sides, Shape, PeopleOK
    <3>2. CASE daemon
      <4>1. moveMirrorsOfWorktree(move.from)
        BY <2>3, <3>2 DEF MoveMirrors
      <4>2. \A s \in DOMAIN waitingOnPeer' :
               \/ waitingOnPeer'[s] = place
               \/ s \in DOMAIN waitingOnPeer /\ waitingOnPeer[s] # move.from
                     /\ waitingOnPeer'[s] = waitingOnPeer[s]
        BY <4>1, WaitsMoved
      <4>. QED  BY <3>1, <4>2 DEF WaitInv
    <3>3. CASE ~daemon
      BY <2>3, <3>1, <3>3 DEF MoveMirrors, WaitsCarried, WaitInv
    <3>. QED  BY <3>2, <3>3
  <2>4. CASE MoveEnds
    BY <2>4 DEF MoveEnds, NoMove, WaitInv, sides, marks
  <2>5. ASSUME NEW s \in Ids, \/ ReopenCreates(s) \/ ReopenFails(s) \/ ReopenEnds(s)
                               \/ ReopenLate(s) \/ endAbandoned(s)
        PROVE  WaitInv'
    BY <2>5, <1>1
    DEF ReopenCreates, ReopenFails, ReopenEnds, ReopenLate, endAbandoned, sides, marks, people
  <2>. QED  BY <1>3, <2>1, <2>2, <2>3, <2>4, <2>5 DEF ReopenSteps
<1>4. CASE SweepSteps
  <2>1. ASSUME NEW s \in DOMAIN sess, LookMoves(s) PROVE WaitInv'
    <3>1. /\ moveMirrorsOfWorktree(sess[s].root) /\ move.stage = "no"
          /\ UNCHANGED <<place, move>>
      BY <2>1 DEF LookMoves, LookDone, Mutable, Apart, sides, people
    <3>2. \A t \in DOMAIN waitingOnPeer' :
             \/ waitingOnPeer'[t] = place
             \/ t \in DOMAIN waitingOnPeer /\ waitingOnPeer'[t] = waitingOnPeer[t]
      BY <3>1, WaitsMoved
    <3>. QED  BY <3>1, <3>2 DEF WaitInv
  <2>3. ASSUME NEW s \in DOMAIN sess, LookLost(s) PROVE WaitInv'
    <3>1. /\ waitingOnPeer' = WaitsCarried({}, sess[s].root)
          /\ UNCHANGED <<place, move>>
      BY <2>3 DEF LookLost, LookDone, sides, people
    <3>. QED  BY <3>1 DEF WaitsCarried, WaitInv
  <2>2. ASSUME ~\E s \in DOMAIN sess : LookMoves(s) \/ LookLost(s) PROVE WaitInv'
    BY <1>1, <1>4, <2>2
    DEF SweepSteps, Looks, LookSteps, PendingStopsEnd, ReplacedEnds, lookAt, LookThere, LookMovedEnds,
        LookGone, LookEnded, EndsKeeping, LookDone, sides, marks, people
  <2>. QED  BY <2>1, <2>2, <2>3
<1>5. CASE DeleteSteps
  BY <1>1, <1>5
  DEF DeleteSteps, LookReads, LookSettles, DeletePauses, pauseMirrorsOn, DeleteShort,
      DeleteGoes, DeleteKept, DeleteGone, deleteCopiesOf, JobEnds, JobAsks, sides, marks, people
<1>6. CASE CopySteps \/ HeardSteps
  BY <1>1, <1>6
  DEF CopySteps, CopyAsks, CopyReads, CopyAsksAgain, CopyDeleteGoes, CopyDeleteStays,
      CopyDeleteGone, HeardSteps, Hears, HeardEnds, endMirrorIfCopyGone, TakingPauses,
      pauseMirrorsOn, TakingStays, TakingGone, stopMirrorsForWorktree, sides, marks, people
<1>7. CASE AtWork \/ UNCHANGED vars
  BY <1>1, <1>7 DEF AtWork, Writes, Vanishes, Follow, Cycle, vars, sides, marks, people
<1>8. CASE Troubles
  <2>1. CASE AppDies
    BY <2>1 DEF AppDies, NoMove, WaitInv, sides
  <2>2. CASE ~AppDies
    BY <1>1, <1>8, <2>2
    DEF Troubles, DaemonDies, DaemonComes, LinkDrops, LinkComes, sides, marks, people
  <2>. QED  BY <2>1, <2>2
<1>. QED
  BY <1>2, <1>3, <1>4, <1>5, <1>6, <1>7, <1>8 DEF Next, AtWork, Asked, Troubles

\* A step that stops nothing and lets nothing go on: sessions end at most.
Fewer ==
    /\ DOMAIN sess' = DOMAIN sess
    /\ \A s \in Live' : s \in Live /\ sess'[s] = sess[s]

LEMMA EndsFewer ==
    ASSUME Shape, NEW those
    PROVE  /\ Ends(those) => Fewer
           /\ sess' = Without(those) => Fewer
           /\ UNCHANGED sess => Fewer
<1>1. sess' = Without(those) => Fewer
  BY DEF Without, Fewer, Live
<1>2. UNCHANGED sess => Fewer
  BY DEF Fewer, Live
<1>. QED  BY <1>1, <1>2 DEF Ends

LEMMA StillRests ==
    ASSUME Shape, StillInv, TurnInv, Fewer, UNCHANGED place,
           Reopening' => Reopening,
           del'.stage # "no" => del.stage # "no",
           del'.stage \in {"cleanup", "going"} => del.stage \in {"cleanup", "going"},
           Here("original")' => Here("original")
    PROVE  StillInv'
<1>1. \A s \in Live' : sess'[s].root = place => s \in Live /\ sess[s].root = place
  BY DEF Fewer
<1>. QED  BY <1>1 DEF StillInv, Fewer

LEMMA StillKept ==
    ASSUME Apart
    PROVE  Shape /\ TurnInv /\ WaitInv /\ StillInv /\ [Next]_vars => StillInv'
<1> SUFFICES ASSUME Shape, TurnInv, WaitInv, StillInv, [Next]_vars PROVE StillInv'
  OBVIOUS
<1>0. Here("original")' => Here("original")
  BY WorkGrows DEF Grows, Sides
<1>1. ASSUME Fewer, UNCHANGED <<del, reopen, place>> PROVE StillInv'
  BY <1>0, <1>1, StillRests DEF Reopening
<1>2. ASSUME del'.stage = "no" PROVE StillInv'
  BY <1>2 DEF StillInv
<1>3. ASSUME Mutable \/ move.stage # "no" \/ taking.stage # "no", UNCHANGED del PROVE StillInv'
  BY <1>2, <1>3 DEF Mutable, Deleting, TurnInv
<1>4. UNCHANGED sess => Fewer
  BY EndsFewer
<1>5. ASSUME Reopening, UNCHANGED del PROVE StillInv'
  <2>1. del.stage = "no" \/ ~Here("original")
    BY <1>5 DEF StillInv
  <2>2. del'.stage \notin {"cleanup", "going"}
    BY <1>5, <2>1 DEF TurnInv
  <2>. QED  BY <1>0, <1>5, <2>1, <2>2 DEF StillInv
<1>6. CASE DeleteSteps
  <2>1. CASE LookReads \/ LookSettles
    <3>1. Fewer /\ UNCHANGED <<place, reopen>> /\ del'.stage \in {"settled", "pause"}
          /\ del.stage # "no"
      BY <1>4, <2>1 DEF LookReads, LookSettles, engine, sides, Shape, DeletesOK, Deletes
    <3>. QED  BY <1>0, <3>1, StillRests DEF Reopening
  <2>2. CASE DeletePauses
    <3>1. /\ del.stage = "pause" /\ Here("original") /\ move.stage = "no"
          /\ UNCHANGED <<place, reopen, at>> /\ daemon
          /\ sess' = With({s \in OnWorktree(place) : ~sess[s].paused}, TRUE)
      BY <2>2 DEF DeletePauses, pauseMirrorsOn, TurnInv, Apart, sides
    <3>2. \A s \in Live : sess[s].root = place => s \in OnWorktree(place)
      BY <3>1 DEF OnWorktree, worktreeIdNow, WaitInv
    <3>3. \A s \in Live' : sess'[s].root = place => sess'[s].paused
      <4> SUFFICES ASSUME NEW s \in Live', sess'[s].root = place PROVE sess'[s].paused
        OBVIOUS
      <4>1. s \in Live /\ sess[s] \in Session
        BY <3>1, LiveOnes DEF Live, With
      <4>2. CASE sess[s].paused
        BY <3>1, <4>1, <4>2 DEF With, Live
      <4>3. CASE ~sess[s].paused
        <5>1. sess[s].root = place
          BY <3>1, <4>1 DEF With, Live, Session
        <5>2. sess'[s] = [sess[s] EXCEPT !.paused = TRUE]
          BY <3>1, <3>2, <4>1, <4>3, <5>1 DEF With, Live
        <5>. QED  BY <4>1, <5>2 DEF Session
      <4>. QED  BY <4>2, <4>3
    <3>. QED  BY <3>1, <3>3 DEF StillInv, Reopening, Here
  <2>3. CASE DeleteShort \/ DeleteKept
    BY <2>3, <1>2 DEF DeleteShort, DeleteKept, NoDelete
  <2>4. CASE DeleteGoes
    <3>1. Fewer /\ UNCHANGED <<place, reopen>> /\ del.stage = "cleanup"
      BY <1>4, <2>4 DEF DeleteGoes, engine, sides
    <3>. QED  BY <1>0, <3>1, StillRests DEF Reopening
  <2>5. CASE DeleteGone
    <3>1. ~Here("original")' /\ del'.stage = "gone"
      BY <2>5 DEF DeleteGone, Here, Shape, SidesOK, Sides, DeletesOK, Deletes
    <3>. QED  BY <3>1 DEF StillInv
  <2>6. CASE deleteCopiesOf
    BY <2>6, <1>2 DEF deleteCopiesOf, Shape, DeletesOK, Deletes
  <2>7. ASSUME NEW s \in Ids, JobEnds(s) \/ JobAsks(s) PROVE StillInv'
    BY <2>7, <1>1, EndsFewer DEF JobEnds, JobAsks, engine, sides
  <2>. QED
    BY <1>6, <2>1, <2>2, <2>3, <2>4, <2>5, <2>6, <2>7 DEF DeleteSteps
<1>7. CASE CopySteps
  BY <1>1, <1>4, <1>7
  DEF CopySteps, CopyAsks, CopyReads, CopyAsksAgain, CopyDeleteGoes, CopyDeleteStays,
      CopyDeleteGone, engine, sides
<1>8. CASE HeardSteps
  <2>1. CASE TakingPauses \/ TakingStays
    BY <2>1, <1>3 DEF TakingPauses, pauseMirrorsOn, TakingStays
  <2>2. ASSUME NEW h \in heard, HeardEnds(h) PROVE StillInv'
    BY <2>2, <1>1, EndsFewer DEF HeardEnds, sides
  <2>3. CASE stopMirrorsForWorktree
    BY <2>3, <1>1, EndsFewer DEF stopMirrorsForWorktree, sides
  <2>4. ASSUME ~TakingPauses, ~TakingStays, ~stopMirrorsForWorktree,
               ~\E h \in heard : HeardEnds(h)
        PROVE  StillInv'
    BY <1>1, <1>4, <1>8, <2>4
    DEF HeardSteps, Hears, endMirrorIfCopyGone, TakingGone, deletes, engine, sides
  <2>. QED  BY <2>1, <2>2, <2>3, <2>4
<1>9. CASE ReopenSteps
  <2>1. ASSUME NEW s \in Ids, \/ ReopenCreates(s) \/ ReopenFails(s) \/ ReopenEnds(s)
                               \/ ReopenLate(s) \/ endAbandoned(s)
        PROVE  StillInv'
    <3>1. Reopening
      BY <2>1
      DEF ReopenCreates, ReopenFails, ReopenEnds, ReopenLate, endAbandoned, Reopening
    <3>. QED  BY <2>1, <3>1, <1>5
      DEF ReopenCreates, ReopenFails, ReopenEnds, ReopenLate, endAbandoned, deletes
  <2>2. CASE MoveFails \/ MoveDone \/ MoveMirrors \/ MoveEnds
    BY <2>2, <1>3 DEF MoveFails, MoveDone, MoveMirrors, MoveEnds, deletes
  <2>. QED  BY <1>9, <2>1, <2>2 DEF ReopenSteps
<1>10. CASE SweepSteps
  <2>1. ASSUME NEW s \in DOMAIN sess, LookMoves(s) PROVE StillInv'
    BY <2>1, <1>3 DEF LookMoves, LookDone, Apart, deletes
  <2>2. CASE PendingStopsEnd
    BY <2>2, <1>1, EndsFewer DEF PendingStopsEnd, deletes, sides
  <2>3. ASSUME NEW s \in DOMAIN sess, ReplacedEnds(s) PROVE StillInv'
    BY <2>3, <1>1, EndsFewer DEF ReplacedEnds, deletes, sides
  <2>4. ASSUME NEW s \in DOMAIN sess, LookMovedEnds(s) \/ LookGone(s) PROVE StillInv'
    BY <2>4, <1>1, EndsFewer DEF LookMovedEnds, LookGone, EndsKeeping, LookDone, deletes, sides
  <2>5. ASSUME NEW s \in DOMAIN sess, lookAt(s) \/ LookThere(s) \/ LookEnded(s) PROVE StillInv'
    BY <2>5, <1>1, <1>4 DEF lookAt, LookThere, LookEnded, LookDone, deletes, engine, sides
  <2>6. ASSUME NEW s \in DOMAIN sess, LookLost(s) PROVE StillInv'
    BY <2>6, <1>1, <1>4 DEF LookLost, LookDone, deletes, sides
  <2>. QED  BY <1>10, <2>1, <2>2, <2>3, <2>4, <2>5, <2>6 DEF SweepSteps, Looks, LookSteps
<1>11. CASE Asked
  <2>1. ASSUME NEW s \in DOMAIN sess, RuleChanges(s) PROVE StillInv'
    BY <2>1, <1>3 DEF RuleChanges, Apart, deletes
  <2>2. ASSUME NEW s \in DOMAIN sess, StopBegins(s) \/ StopKeeps(s) PROVE StillInv'
    BY <2>2, <1>1, <1>4, EndsFewer DEF StopBegins, StopKeeps, deletes, engine, sides
  <2>3. CASE StopEnds
    BY <2>3, <1>1, EndsFewer DEF StopEnds, deletes, sides
  <2>4. CASE DeleteBegins
    <3>1. del'.stage = "look" /\ ~Reopening /\ UNCHANGED reopen
      BY <2>4 DEF DeleteBegins, NoDelete, Apart
    <3>. QED  BY <3>1 DEF StillInv, Reopening
  <2>5. CASE DeleteRefused
    BY <2>5, <1>2 DEF DeleteRefused, NoDelete
  <2>6. CASE StopAsks \/ CopyDeleteBegins \/ MoveBegins \/ GoneCopyAges
    BY <2>6, <1>1, <1>4
    DEF StopAsks, CopyDeleteBegins, MoveBegins, GoneCopyAges, deletes, engine, sides
  <2>7. ASSUME NEW s \in Ids, ReopenCut(s) PROVE StillInv'
    <3>1. Reopening
      BY <2>7 DEF ReopenCut, Recreating, Reopening
    <3>. QED  BY <2>7, <3>1, <1>5 DEF ReopenCut, deletes
  <2>. QED  BY <1>11, <2>1, <2>2, <2>3, <2>4, <2>5, <2>6, <2>7 DEF Asked
<1>12. CASE AtWork \/ UNCHANGED vars
  BY <1>1, <1>4, <1>12 DEF AtWork, Writes, Vanishes, Follow, Cycle, vars, deletes, engine, sides
<1>13. CASE Troubles
  <2>1. CASE AppDies
    BY <2>1, <1>2 DEF AppDies, NoDelete
  <2>2. CASE ~AppDies
    BY <1>1, <1>4, <1>13, <2>2
    DEF Troubles, DaemonDies, DaemonComes, LinkDrops, LinkComes, deletes, engine, sides
  <2>. QED  BY <2>1, <2>2
<1>. QED
  BY <1>6, <1>7, <1>8, <1>9, <1>10, <1>11, <1>12, <1>13 DEF Next, AtWork, Asked, Troubles

\* While the cleanup of a delete runs and its files go nothing crosses to the other
\* side, so no half-deleted folder is synced over the copy: the sessions were stopped,
\* and none is opened again until the delete is over (onDelete.ts). A switch of the
\* model lets a delete begin inside a re-open, or go on while the engine is down, and
\* under either the property is false.
THEOREM NothingCrossesOver == ASSUME Apart PROVE Spec => []NothingCrosses
<1> DEFINE J == Shape /\ TurnInv /\ WorkInv /\ WaitInv /\ StillInv
<1>1. Init => J
  BY ShapeStarts, WorkStarts
  DEF Init, NoDelete, NoMove, NoReopen, WaitInv, StillInv, Reopening
<1>2. J /\ [Next]_vars => J'
  BY WorkKept, WaitKept, StillKept
<1>3. J => NothingCrosses
  <2> SUFFICES ASSUME J, NEW s \in Live, Crossing(s),
                      del.stage \in {"cleanup", "going"} \/ taking.stage = "cleanup"
               PROVE  FALSE
    BY DEF NothingCrosses
  <2>. QED  BY DEF Crossing, StillInv, WorkInv, ToldInv
<1>. QED  BY <1>1, <1>2, <1>3, PTL DEF Spec

--------------------------------------------------------------------------------
(* What is left paused.                                                        *)

\* A refusal is a trouble, so with none the engine did what it was asked.
LEMMA CalmBefore ==
    ASSUME Shape, NEW those
    PROVE  /\ UNCHANGED spent => Calm' = Calm
           /\ Spend("works", MaxWorks) => Calm' = Calm
           /\ Spend("asks", MaxAsks) => Calm' = Calm
           /\ Spend("troubles", MaxTroubles) => ~Calm'
           /\ Quietly(spent.troubles < MaxTroubles) => ~Calm'
           /\ spent' = [spent EXCEPT !.quiet = FALSE] => Calm' = Calm
           /\ Refused(those) /\ Calm' => Calm /\ ~daemon
           /\ Ends(those) /\ Calm' => Calm /\ (daemon => sess' = Without(those))
           /\ resumeMirrors(those) /\ Calm' => Calm /\ (daemon => sess' = With(those, FALSE))
<1>0. spent \in Spending
  BY DEF Shape, SpentOK
<1> USE DEF Spending
<1>1. UNCHANGED spent => Calm' = Calm
  BY DEF Calm
<1>2. ASSUME Spend("works", MaxWorks) PROVE Calm' = Calm
  <2>1. spent' = [spent EXCEPT !.works = spent.works + 1]
    BY <1>2 DEF Spend
  <2>. QED  BY <1>0, <2>1 DEF Calm
<1>3. ASSUME Spend("asks", MaxAsks) PROVE Calm' = Calm
  <2>1. spent' = [spent EXCEPT !.asks = spent.asks + 1]
    BY <1>3 DEF Spend
  <2>. QED  BY <1>0, <2>1 DEF Calm
<1>4. ASSUME Spend("troubles", MaxTroubles) PROVE ~Calm'
  <2>1. spent' = [spent EXCEPT !.troubles = spent.troubles + 1]
    BY <1>4 DEF Spend
  <2>. QED  BY <1>0, <2>1, MirrorAssumption DEF Calm
<1>8. ASSUME spent' = [spent EXCEPT !.troubles = spent.troubles + 1, !.quiet = TRUE]
      PROVE  ~Calm'
  <2>1. spent'.troubles = spent.troubles + 1
    BY <1>0, <1>8
  <2>. QED  BY <1>0, <2>1, MirrorAssumption DEF Calm
<1>9. Quietly(spent.troubles < MaxTroubles) => ~Calm'
  BY <1>8 DEF Quietly
<1>10. spent' = [spent EXCEPT !.quiet = FALSE] => Calm' = Calm
  BY <1>0 DEF Calm
<1>5. Refused(those) /\ Calm' => Calm /\ ~daemon
  BY <1>1, <1>8 DEF Refused, Quietly
<1>6. Ends(those) /\ Calm' => Calm /\ (daemon => sess' = Without(those))
  BY <1>1, <1>5 DEF Ends
<1>7. resumeMirrors(those) /\ Calm' => Calm /\ (daemon => sess' = With(those, FALSE))
  BY <1>1, <1>5 DEF resumeMirrors
<1>. QED  BY <1>1, <1>2, <1>3, <1>4, <1>5, <1>6, <1>7, <1>9, <1>10

\* What the sessions are once some were stopped, went on or ended.
LEMMA SessionsAfter ==
    ASSUME Shape, NEW those, NEW paused \in BOOLEAN
    PROVE  /\ sess' = Without(those) =>
                /\ DOMAIN sess' = DOMAIN sess
                /\ \A s \in Live' : s \in Live /\ s \notin those /\ sess'[s] = sess[s]
           /\ sess' = With(those, paused) =>
                /\ DOMAIN sess' = DOMAIN sess
                /\ \A s \in Live' : /\ s \in Live /\ sess'[s].root = sess[s].root
                                    /\ s \in those => sess'[s].paused = paused
                                    /\ s \notin those => sess'[s] = sess[s]
<1>1. sess' = Without(those) =>
         /\ DOMAIN sess' = DOMAIN sess
         /\ \A s \in Live' : s \in Live /\ s \notin those /\ sess'[s] = sess[s]
  BY DEF Without, Live
<1>2. ASSUME sess' = With(those, paused), NEW s \in Live'
      PROVE  /\ s \in Live /\ sess'[s].root = sess[s].root
             /\ s \in those => sess'[s].paused = paused
             /\ s \notin those => sess'[s] = sess[s]
  <2>1. s \in Live /\ sess[s] \in Session
    BY <1>2, LiveOnes DEF Live, With
  <2>2. sess'[s] = IF s \in those THEN [sess[s] EXCEPT !.paused = paused] ELSE sess[s]
    BY <1>2, <2>1 DEF Live, With
  <2>. QED  BY <2>1, <2>2 DEF Session
<1>3. sess' = With(those, paused) => DOMAIN sess' = DOMAIN sess
  BY DEF With
<1>. QED  BY <1>1, <1>2, <1>3

Files == {"cleanup", "going"}
Steady == /\ UNCHANGED place
          /\ Calm' => Calm /\ UNCHANGED <<daemon, link>>
          /\ DOMAIN waitingOnPeer \subseteq DOMAIN waitingOnPeer'
          /\ del'.stage \in Files => del.stage \in Files /\ del'.paused = del.paused

LEMMA StoppedRests ==
    ASSUME StoppedInv, Steady, DOMAIN sess \subseteq DOMAIN sess',
           \A s \in Live' \cap DOMAIN sess : s \in Live /\ sess'[s].root = sess[s].root,
           Here("original")' => Here("original"),
           Calm' /\ Here("original")' /\ (\A s \in Live : sess[s].paused => Excused(s)) =>
              \A s \in Live' : sess'[s].paused => Excused(s)'
    PROVE  StoppedInv'
<1>1. (Calm => daemon /\ link)'
  BY DEF StoppedInv, Steady
<1>2. ASSUME del'.stage \in Files
      PROVE  /\ del'.paused \subseteq DOMAIN sess'
             /\ \A s \in del'.paused \cap Live' :
                   s \in DOMAIN waitingOnPeer' \/ sess'[s].root = place'
  <2>1. del.stage \in Files /\ del'.paused = del.paused
    BY <1>2 DEF Steady
  <2>2. del.paused \subseteq DOMAIN sess
    BY <2>1 DEF StoppedInv, Files
  <2>3. \A s \in del.paused \cap Live : s \in DOMAIN waitingOnPeer \/ sess[s].root = place
    BY <2>1 DEF StoppedInv, Files
  <2>. QED  BY <2>1, <2>2, <2>3 DEF Steady
<1>3. ASSUME Calm', Here("original")'
      PROVE  \A s \in Live' : sess'[s].paused => Excused(s)'
  BY <1>3 DEF StoppedInv, Steady
<1>. QED  BY <1>1, <1>2, <1>3 DEF StoppedInv, Files

\* A step that only ends sessions, and forgets none that is stopped.
LEMMA StoppedFewer ==
    ASSUME StoppedInv, Steady, Fewer,
           Here("original")' => Here("original"),
           Here("original")' /\ del.stage \in Files =>
              del'.stage \in Files /\ del'.paused = del.paused,
           Here("original")' /\ taking.stage = "cleanup" =>
              taking'.stage = "cleanup" /\ taking'.paused = taking.paused,
           Calm' => \A s \in Live' : Recreating(s) => Recreating(s)'
    PROVE  StoppedInv'
<1>1. ASSUME NEW s \in Live', Calm', Here("original")', Excused(s)
      PROVE  Excused(s)'
  BY <1>1 DEF Excused, Steady, Files
<1>. QED  BY <1>1, StoppedRests DEF Fewer

\* What a move makes of the sessions that were where it came from: each is opened anew
\* or waits.
LEMMA MovedStopped ==
    ASSUME Shape, StoppedInv, NEW from, moveMirrorsOfWorktree(from),
           UNCHANGED <<place, daemon, link, del, taking, spent>>,
           Here("original")' => Here("original")
    PROVE  StoppedInv'
<1> DEFINE those == {s \in Live : sess[s].root = from}
<1>1. Steady
  BY WaitsMoved, CalmBefore DEF Steady
<1>2. sess' = With(those, TRUE)
  BY DEF moveMirrorsOfWorktree, Reopens
<1>3. /\ DOMAIN sess' = DOMAIN sess
      /\ \A s \in Live' : /\ s \in Live /\ sess'[s].root = sess[s].root
                          /\ s \notin those => sess'[s] = sess[s]
  BY <1>2, SessionsAfter
<1>4. \A s \in Ids : /\ Recreating(s) => Recreating(s)'
                     /\ s \in those => s \in DOMAIN waitingOnPeer' \/ Recreating(s)'
  <2>1. CASE link
    <3>1. reopen' = [s \in Ids |-> IF s \in those
                                   THEN [stage |-> "creating", to |-> place, why |-> "move"]
                                   ELSE reopen[s]]
      BY <2>1 DEF moveMirrorsOfWorktree, Reopens
    <3>. QED  BY <3>1 DEF Recreating
  <2>2. CASE ~link
    <3>1. UNCHANGED reopen /\ waitingOnPeer' = WaitsCarried(those, from)
      BY <2>2 DEF moveMirrorsOfWorktree
    <3>. QED  BY <3>1 DEF Recreating, WaitsCarried
  <2>. QED  BY <2>1, <2>2
<1>6. ASSUME \A s \in Live : sess[s].paused => Excused(s), NEW s \in Live', sess'[s].paused
      PROVE  Excused(s)'
  <2>1. s \in Live /\ s \in Ids /\ (s \notin those => sess[s].paused)
    BY <1>3, <1>6, LiveOnes
  <2>2. CASE s \in those
    BY <1>4, <2>1, <2>2 DEF Excused
  <2>3. CASE s \notin those
    BY <1>4, <1>6, <2>1, <2>3, WaitsMoved DEF Excused
  <2>. QED  BY <2>2, <2>3
<1>. QED  BY <1>1, <1>3, <1>6, StoppedRests

LEMMA StoppedKept == Shape /\ TurnInv /\ StoppedInv /\ [Next]_vars => StoppedInv'
<1> SUFFICES ASSUME Shape, TurnInv, StoppedInv, [Next]_vars PROVE StoppedInv'
  OBVIOUS
<1>0. Here("original")' => Here("original")
  BY WorkGrows DEF Grows, Sides
<1>1. ASSUME Fewer, Steady, UNCHANGED <<del, taking, reopen>> PROVE StoppedInv'
  BY <1>0, <1>1, StoppedFewer DEF Recreating
<1>2. ASSUME Fewer, Steady, ~Here("original")' PROVE StoppedInv'
  BY <1>0, <1>2, StoppedRests DEF Fewer
<1>3. UNCHANGED sess => Fewer
  BY EndsFewer
<1>4. Calm => daemon /\ link
  BY DEF StoppedInv
\* A new session runs, and none is less excused for it.
<1>13. ASSUME NEW s \in Ids, sess' = Made(s),
              UNCHANGED <<place, daemon, link, waitingOnPeer, del, taking, spent>>,
              \A t \in Ids : Recreating(t) => Recreating(t)'
       PROVE  StoppedInv'
  <2>1. sess' = Append(sess, [paused |-> FALSE, root |-> reopen[s].to, replaces |-> s])
    BY <1>13 DEF Made
  <2>2. /\ DOMAIN sess' = DOMAIN sess \cup {Len(sess) + 1}
        /\ \A t \in DOMAIN sess : sess'[t] = sess[t]
        /\ sess'[Len(sess) + 1] = [paused |-> FALSE, root |-> reopen[s].to, replaces |-> s]
    BY <2>1, AppendProperties, SessionsListed DEF Shape, EngineOK
  <2>3. Steady
    BY <1>13, CalmBefore DEF Steady
  <2>4. ASSUME \A t \in Live : sess[t].paused => Excused(t), NEW t \in Live', sess'[t].paused
        PROVE  Excused(t)'
    <3>1. t \in Live /\ sess[t].paused /\ t \in Ids
      BY <2>2, <2>4, LiveOnes DEF Live
    <3>. QED  BY <1>13, <2>4, <3>1 DEF Excused
  <2>5. \A t \in Live' \cap DOMAIN sess : t \in Live /\ sess'[t].root = sess[t].root
    BY <2>2 DEF Live
  <2>. QED  BY <1>0, <2>2, <2>3, <2>4, <2>5, StoppedRests
<1>5. CASE DeleteSteps
  <2>1. CASE LookReads \/ LookSettles
    <3>1. /\ Steady /\ Fewer /\ UNCHANGED <<taking, reopen>>
          /\ del.stage \notin Files
      BY <1>3, <2>1, CalmBefore
      DEF LookReads, LookSettles, engine, sides, marks, Shape, DeletesOK, Deletes, Steady, Files
    <3>. QED  BY <1>0, <3>1, StoppedFewer DEF Recreating
  <2>2. CASE DeletePauses
    <3> DEFINE those == IF daemon THEN {s \in OnWorktree(place) : ~sess[s].paused} ELSE {}
    <3>1. /\ del.stage = "pause" /\ UNCHANGED <<place, reopen, at, daemon, link, taking, spent>>
          /\ UNCHANGED waitingOnPeer /\ sess' = With(those, TRUE)
          /\ del' = [del EXCEPT !.stage = "cleanup",
                       !.paused = {s \in DOMAIN sess : sess'[s] # sess[s]}]
      BY <2>2 DEF DeletePauses, pauseMirrorsOn, sides, marks
    <3>2. /\ del'.stage = "cleanup"
          /\ del'.paused = {s \in DOMAIN sess : sess'[s] # sess[s]}
      BY <3>1 DEF Shape, DeletesOK, Deletes
    <3>3. /\ DOMAIN sess' = DOMAIN sess
          /\ \A s \in Live' : /\ s \in Live /\ sess'[s].root = sess[s].root
                              /\ s \in those => sess'[s].paused /\ ~sess[s].paused
                              /\ s \notin those => sess'[s] = sess[s]
      BY <3>1, SessionsAfter
    <3>4. ASSUME NEW s \in del'.paused \cap Live'
          PROVE  s \in DOMAIN waitingOnPeer' \/ sess'[s].root = place'
      BY <3>1, <3>2, <3>3, <3>4 DEF OnWorktree, worktreeIdNow
    <3>5. ASSUME Calm', Here("original")', NEW s \in Live', sess'[s].paused
          PROVE  Excused(s)'
      <4>1. CASE s \in those
        BY <3>2, <3>3, <4>1 DEF Excused, Live
      <4>2. CASE s \notin those
        <5>1. Excused(s)
          BY <1>0, <3>1, <3>3, <3>5, <4>2, CalmBefore DEF StoppedInv
        <5>. QED  BY <3>1, <5>1 DEF Excused, Recreating
      <4>. QED  BY <4>1, <4>2
    <3>6. (Calm => daemon /\ link)'
      BY <1>4, <3>1 DEF Calm
    <3>. QED  BY <3>2, <3>3, <3>4, <3>5, <3>6 DEF StoppedInv
  <2>3. CASE DeleteShort
    <3>1. /\ resumeMirrors(del.paused) /\ del'.stage = "no"
          /\ UNCHANGED <<place, daemon, link, waitingOnPeer, taking, reopen>>
      BY <2>3 DEF DeleteShort, NoDelete, sides, marks
    <3>2. Steady
      BY <3>1, CalmBefore DEF Steady, Files
    <3>3. /\ DOMAIN sess' = DOMAIN sess
          /\ \A s \in Live' : s \in Live /\ sess'[s].root = sess[s].root
      BY <3>1, SessionsAfter DEF resumeMirrors, Live
    <3>4. ASSUME Calm', \A s \in Live : sess[s].paused => Excused(s),
                 NEW s \in Live', sess'[s].paused
          PROVE  Excused(s)'
      <4>1. sess' = With(del.paused, FALSE)
        BY <1>4, <3>1, <3>4, CalmBefore
      <4>2. s \in Live /\ s \notin del.paused /\ sess[s].paused
        BY <3>4, <4>1, SessionsAfter
      <4>. QED  BY <3>1, <3>4, <4>2 DEF Excused, Recreating
    <3>. QED  BY <1>0, <3>2, <3>3, <3>4, StoppedRests
  <2>4. CASE DeleteGoes
    <3>1. /\ del.stage = "cleanup" /\ del' = [del EXCEPT !.stage = "going"]
          /\ UNCHANGED <<sess, place, daemon, link, waitingOnPeer, taking, reopen, spent>>
      BY <2>4 DEF DeleteGoes, engine, sides, marks
    <3>2. del'.stage = "going" /\ del'.paused = del.paused
      BY <3>1 DEF Shape, DeletesOK, Deletes
    <3>3. Steady
      BY <3>1, <3>2, CalmBefore DEF Steady, Files
    <3>. QED  BY <1>0, <1>3, <3>1, <3>2, <3>3, StoppedFewer DEF Recreating, Files
  <2>5. CASE DeleteKept
    <3>1. /\ Ends(OnWorktree(place)) /\ del.stage = "going" /\ del'.stage = "no"
          /\ UNCHANGED <<place, daemon, link, waitingOnPeer, taking, reopen>>
      BY <2>5 DEF DeleteKept, NoDelete, sides, marks
    <3>2. Steady
      BY <3>1, CalmBefore DEF Steady, Files
    <3>3. Fewer
      BY <3>1, EndsFewer
    <3>4. ASSUME Calm', \A s \in Live : sess[s].paused => Excused(s),
                 NEW s \in Live', sess'[s].paused
          PROVE  Excused(s)'
      <4>1. sess' = Without(OnWorktree(place))
        BY <1>4, <3>1, <3>4, CalmBefore
      <4>2. s \in Live /\ s \notin OnWorktree(place) /\ sess'[s] = sess[s]
        BY <3>4, <4>1, SessionsAfter
      <4>3. s \in DOMAIN waitingOnPeer \/ sess[s].root # place
        BY <4>2 DEF OnWorktree, worktreeIdNow
      <4>4. s \in del.paused => s \in DOMAIN waitingOnPeer
        BY <3>1, <4>2, <4>3 DEF StoppedInv
      <4>. QED  BY <3>1, <3>4, <4>2, <4>4 DEF Excused, Recreating
    <3>. QED  BY <1>0, <3>2, <3>3, <3>4, StoppedRests DEF Fewer
  <2>6. CASE DeleteGone
    <3>1. ~Here("original")' /\ del'.stage = "gone" /\ Fewer
      BY <1>3, <2>6 DEF DeleteGone, Here, Shape, SidesOK, Sides, DeletesOK, Deletes, engine
    <3>2. Steady
      BY <2>6, <3>1, CalmBefore DEF DeleteGone, Steady, Files, engine, marks
    <3>. QED  BY <1>2, <3>1, <3>2
  <2>7. CASE deleteCopiesOf
    <3>1. /\ ~Here("original")' /\ del'.stage = "no" /\ Fewer
      BY <1>0, <1>3, <2>7 DEF deleteCopiesOf, TurnInv, Shape, DeletesOK, Deletes, engine
    <3>2. Steady
      BY <2>7, <3>1, CalmBefore DEF deleteCopiesOf, Steady, Files, engine, sides
    <3>. QED  BY <1>2, <3>1, <3>2
  <2>8. ASSUME NEW s \in Ids, JobEnds(s) \/ JobAsks(s) PROVE StoppedInv'
    <3>1. Fewer
      BY <1>3, <2>8, EndsFewer DEF JobEnds, JobAsks, engine
    <3>2. Steady
      BY <2>8, CalmBefore DEF JobEnds, JobAsks, Steady, Files, engine, sides, marks
    <3>. QED  BY <1>1, <2>8, <3>1, <3>2 DEF JobEnds, JobAsks
  <2>. QED
    BY <1>5, <2>1, <2>2, <2>3, <2>4, <2>5, <2>6, <2>7, <2>8 DEF DeleteSteps
<1>6. CASE CopySteps
  <2>1. UNCHANGED <<sess, place, daemon, link, waitingOnPeer, del, taking, reopen, spent>>
    BY <1>6
    DEF CopySteps, CopyAsks, CopyReads, CopyAsksAgain, CopyDeleteGoes, CopyDeleteStays,
        CopyDeleteGone, engine, sides, marks
  <2>. QED  BY <1>1, <1>3, <2>1, CalmBefore DEF Steady
<1>7. CASE HeardSteps
  <2>1. CASE TakingPauses
    <3> DEFINE those == IF daemon THEN {s \in OnWorktree(place) : ~sess[s].paused} ELSE {}
    <3>1. /\ taking.stage = "pause"
          /\ UNCHANGED <<place, reopen, at, daemon, link, del, spent, waitingOnPeer>>
          /\ sess' = With(those, TRUE)
          /\ taking' = [taking EXCEPT !.stage = "cleanup",
                          !.paused = {s \in DOMAIN sess : sess'[s] # sess[s]}]
      BY <2>1 DEF TakingPauses, pauseMirrorsOn, sides, marks
    <3>2. /\ taking'.stage = "cleanup"
          /\ taking'.paused = {s \in DOMAIN sess : sess'[s] # sess[s]}
      BY <3>1 DEF Shape, DeletesOK, Deletes
    <3>3. /\ DOMAIN sess' = DOMAIN sess
          /\ \A s \in Live' : /\ s \in Live /\ sess'[s].root = sess[s].root
                              /\ s \in those => sess'[s].paused /\ ~sess[s].paused
                              /\ s \notin those => sess'[s] = sess[s]
      BY <3>1, SessionsAfter
    <3>4. ASSUME \A s \in Live : sess[s].paused => Excused(s), NEW s \in Live', sess'[s].paused
          PROVE  Excused(s)'
      <4>1. CASE s \in those
        BY <3>2, <3>3, <4>1 DEF Excused, Live
      <4>2. CASE s \notin those
        BY <3>1, <3>3, <3>4, <4>2 DEF Excused, Recreating
      <4>. QED  BY <4>1, <4>2
    <3>5. Steady
      BY <3>1, CalmBefore DEF Steady
    <3>. QED  BY <1>0, <3>3, <3>4, <3>5, StoppedRests
  <2>2. CASE TakingStays
    <3>1. /\ resumeMirrors(taking.paused) /\ taking'.stage = "no"
          /\ UNCHANGED <<place, daemon, link, waitingOnPeer, del, reopen>>
      BY <2>2 DEF TakingStays, NoDelete, sides, marks
    <3>2. Steady
      BY <3>1, CalmBefore DEF Steady
    <3>3. /\ DOMAIN sess' = DOMAIN sess
          /\ \A s \in Live' : s \in Live /\ sess'[s].root = sess[s].root
      BY <3>1, SessionsAfter DEF resumeMirrors, Live
    <3>4. ASSUME Calm', \A s \in Live : sess[s].paused => Excused(s),
                 NEW s \in Live', sess'[s].paused
          PROVE  Excused(s)'
      <4>1. sess' = With(taking.paused, FALSE)
        BY <1>4, <3>1, <3>4, CalmBefore
      <4>2. s \in Live /\ s \notin taking.paused /\ sess[s].paused
        BY <3>4, <4>1, SessionsAfter
      <4>. QED  BY <3>1, <3>4, <4>2 DEF Excused, Recreating
    <3>. QED  BY <1>0, <3>2, <3>3, <3>4, StoppedRests
  <2>3. CASE stopMirrorsForWorktree
    <3>1. /\ ~Here("original")' /\ Fewer
      BY <1>0, <1>3, <2>3, EndsFewer DEF stopMirrorsForWorktree, TurnInv
    <3>2. Steady
      BY <2>3, CalmBefore DEF stopMirrorsForWorktree, Steady, sides
    <3>. QED  BY <1>2, <3>1, <3>2
  <2>4. CASE TakingGone
    <3>1. /\ ~Here("original")' /\ Fewer
      BY <1>3, <2>4 DEF TakingGone, Here, Shape, SidesOK, Sides, engine
    <3>2. Steady
      BY <2>4, CalmBefore DEF TakingGone, Steady, engine, marks
    <3>. QED  BY <1>2, <3>1, <3>2
  <2>5. ASSUME NEW h \in heard, HeardEnds(h) PROVE StoppedInv'
    <3>1. Fewer /\ Steady /\ UNCHANGED <<del, reopen>>
      BY <2>5, EndsFewer, CalmBefore DEF HeardEnds, Steady, sides
    <3>2. taking.stage = "cleanup" => UNCHANGED taking
      BY <2>5 DEF HeardEnds, Mutable, Deleting
    <3>. QED  BY <1>0, <3>1, <3>2, StoppedFewer DEF Recreating
  <2>6. ASSUME (\E m \in news : Hears(m)) \/ endMirrorIfCopyGone PROVE StoppedInv'
    <3>1. UNCHANGED <<sess, place, daemon, link, waitingOnPeer, del, taking, reopen, spent>>
      BY <2>6 DEF Hears, endMirrorIfCopyGone, deletes, engine, sides
    <3>. QED  BY <1>1, <1>3, <3>1, CalmBefore DEF Steady
  <2>. QED  BY <1>7, <2>1, <2>2, <2>3, <2>4, <2>5, <2>6 DEF HeardSteps

<1>8. CASE ReopenSteps
  <2>1. ASSUME NEW s \in Ids, ReopenCreates(s) PROVE StoppedInv'
    <3>1. /\ sess' = Made(s)
          /\ UNCHANGED <<place, daemon, link, waitingOnPeer, del, taking, spent>>
          /\ \A t \in Ids : Recreating(t) => Recreating(t)'
      BY <2>1 DEF ReopenCreates, Recreating, Shape, ReopenOK, deletes, marks, sides
    <3>. QED  BY <1>13, <3>1
  <2>2. ASSUME NEW s \in Ids, ReopenFails(s) PROVE StoppedInv'
    <3>1. /\ \/ reopen' = [reopen EXCEPT ![s] = NoReopen]
             \/ reopen' = [reopen EXCEPT ![s].stage = "abandoned"]
          /\ sess' = IF ~daemon THEN sess
                     ELSE IF reopen[s].why = "rule" THEN With({s}, FALSE) ELSE Without({s})
          /\ UNCHANGED <<place, daemon, link, waitingOnPeer, del, taking>>
      BY <2>2 DEF ReopenFails, deletes, marks, sides
    <3>2. Steady
      BY <2>2, <3>1, CalmBefore DEF ReopenFails, Steady
    <3>3. /\ DOMAIN sess' = DOMAIN sess
          /\ \A t \in Live' : t \in Live /\ sess'[t].root = sess[t].root
      BY <3>1, SessionsAfter DEF Live
    <3>4. ASSUME Calm', \A t \in Live : sess[t].paused => Excused(t),
                 NEW t \in Live', sess'[t].paused
          PROVE  Excused(t)'
      <4>1. sess' = With({s}, FALSE) \/ sess' = Without({s})
        BY <1>4, <3>1, <3>2, <3>4 DEF Steady
      <4>2. t \in Live /\ t # s /\ sess[t].paused
        BY <3>4, <4>1, SessionsAfter
      <4>3. Recreating(t) => Recreating(t)'
        BY <3>1, <4>2, LiveOnes DEF Recreating, Shape, ReopenOK
      <4>. QED  BY <3>1, <3>4, <4>2, <4>3 DEF Excused
    <3>. QED  BY <1>0, <3>2, <3>3, <3>4, StoppedRests
  <2>3. ASSUME NEW s \in Ids, ReopenEnds(s) PROVE StoppedInv'
    <3>1. /\ reopen' = [reopen EXCEPT ![s] = NoReopen]
          /\ (sess' = Without({s}) /\ UNCHANGED spent) \/ Ends({s})
          /\ UNCHANGED <<place, daemon, link, waitingOnPeer, del, taking>>
      BY <2>3 DEF ReopenEnds, deletes, marks, sides
    <3>2. Steady /\ Fewer
      BY <3>1, EndsFewer, CalmBefore DEF Steady
    <3>3. ASSUME Calm', NEW t \in Live', Recreating(t) PROVE Recreating(t)'
      <4>1. sess' = Without({s})
        BY <1>4, <3>1, <3>2, <3>3, CalmBefore DEF Steady
      <4>2. t \in Live /\ t # s
        BY <3>3, <4>1, SessionsAfter
      <4>. QED  BY <3>1, <3>3, <4>2, LiveOnes DEF Recreating, Shape, ReopenOK
    <3>. QED  BY <1>0, <3>1, <3>2, <3>3, StoppedFewer
  <2>4. CASE MoveDone
    <3>1. /\ del'.stage = "no" /\ UNCHANGED <<sess, at, daemon, link, waitingOnPeer, del>>
          /\ UNCHANGED <<taking, reopen, spent>>
      BY <2>4 DEF MoveDone, TurnInv, deletes, marks, engine
    <3>. QED  BY <3>1 DEF StoppedInv, Excused, Recreating, Live, Here, Calm
  <2>5. CASE MoveFails \/ MoveEnds
    <3>1. UNCHANGED <<sess, place, daemon, link, waitingOnPeer, del, taking, reopen, spent>>
      BY <2>5 DEF MoveFails, MoveEnds, deletes, engine, sides, marks
    <3>. QED  BY <1>1, <1>3, <3>1, CalmBefore DEF Steady
  <2>6. CASE MoveMirrors
    <3>1. UNCHANGED <<place, daemon, link, del, taking, spent>>
      BY <2>6 DEF MoveMirrors, deletes, sides
    <3>2. CASE daemon
      BY <1>0, <2>6, <3>1, <3>2, MovedStopped DEF MoveMirrors
    <3>3. CASE ~daemon
      BY <1>1, <1>3, <2>6, <3>1, <3>3, CalmBefore DEF MoveMirrors, WaitsCarried, Steady
    <3>. QED  BY <3>2, <3>3
  <2>7. ASSUME NEW s \in Ids, ReopenLate(s) PROVE StoppedInv'
    <3>1. /\ UNCHANGED <<place, daemon, link, waitingOnPeer, del, taking, spent>>
          /\ reopen[s].stage \in {"abandoned", "cut"}
          /\ UNCHANGED sess \/ sess' = Made(s)
          /\ \A t \in Ids : t # s => reopen'[t] = reopen[t]
      BY <2>7 DEF ReopenLate, Shape, ReopenOK, deletes, marks, sides
    <3>2. \A t \in Ids : Recreating(t) => Recreating(t)'
      BY <3>1 DEF Recreating
    <3>3. CASE UNCHANGED sess
      <4>1. Steady /\ Fewer
        BY <1>3, <3>1, <3>3, CalmBefore DEF Steady
      <4>. QED  BY <1>0, <3>1, <3>2, <4>1, LiveOnes, StoppedFewer DEF Fewer
    <3>. QED  BY <1>13, <3>1, <3>2, <3>3
  <2>8. ASSUME NEW s \in Ids, endAbandoned(s) PROVE StoppedInv'
    <3>1. /\ Ends({reopen[s].to}) /\ reopen[s].stage = "unwanted"
          /\ UNCHANGED <<place, daemon, link, waitingOnPeer, del, taking>>
          /\ \A t \in Ids : t # s => reopen'[t] = reopen[t]
      BY <2>8 DEF endAbandoned, Shape, ReopenOK, deletes, marks, sides
    <3>2. Steady /\ Fewer
      BY <3>1, EndsFewer, CalmBefore DEF Steady
    <3>3. \A t \in Ids : Recreating(t) => Recreating(t)'
      BY <3>1 DEF Recreating
    <3>. QED  BY <1>0, <3>1, <3>2, <3>3, LiveOnes, StoppedFewer DEF Fewer
  <2>. QED
    BY <1>8, <2>1, <2>2, <2>3, <2>4, <2>5, <2>6, <2>7, <2>8 DEF ReopenSteps
<1>9. CASE SweepSteps
  <2>1. ASSUME NEW s \in DOMAIN sess, LookMoves(s) PROVE StoppedInv'
    BY <1>0, <2>1, MovedStopped DEF LookMoves, LookDone, deletes, sides
  <2>2. ASSUME PendingStopsEnd \/ \E s \in DOMAIN sess :
                  ReplacedEnds(s) \/ LookMovedEnds(s) \/ LookGone(s)
        PROVE  StoppedInv'
    <3>1. Fewer
      BY <2>2, EndsFewer
      DEF PendingStopsEnd, ReplacedEnds, LookMovedEnds, LookGone, EndsKeeping
    <3>2. UNCHANGED <<place, daemon, link, waitingOnPeer, del, taking, reopen>>
      BY <2>2
      DEF PendingStopsEnd, ReplacedEnds, LookMovedEnds, LookGone, EndsKeeping, LookDone,
          deletes, sides, marks
    <3>3. Calm' => Calm
      BY <2>2, CalmBefore
      DEF PendingStopsEnd, ReplacedEnds, LookMovedEnds, LookGone, EndsKeeping
    <3>. QED  BY <1>1, <3>1, <3>2, <3>3 DEF Steady
  <2>3. ASSUME NEW s \in DOMAIN sess, lookAt(s) \/ LookThere(s) \/ LookEnded(s)
        PROVE  StoppedInv'
    <3>1. UNCHANGED <<sess, place, daemon, link, waitingOnPeer, del, taking, reopen, spent>>
      BY <2>3 DEF lookAt, LookThere, LookEnded, LookDone, deletes, engine, sides
    <3>. QED  BY <1>1, <1>3, <3>1, CalmBefore DEF Steady
  <2>4. ASSUME NEW s \in DOMAIN sess, LookLost(s) PROVE StoppedInv'
    <3>1. UNCHANGED <<sess, place, daemon, link, del, taking, reopen, spent>>
      BY <2>4 DEF LookLost, LookDone, deletes, sides
    <3>2. DOMAIN waitingOnPeer \subseteq DOMAIN waitingOnPeer'
      BY <2>4 DEF LookLost, WaitsCarried
    <3>. QED  BY <1>1, <1>3, <3>1, <3>2, CalmBefore DEF Steady
  <2>. QED  BY <1>9, <2>1, <2>2, <2>3, <2>4 DEF SweepSteps, Looks, LookSteps
<1>10. CASE Asked
  <2>1. ASSUME NEW s \in DOMAIN sess, RuleChanges(s) PROVE StoppedInv'
    <3>1. /\ Reopens({s}, sess[s].root, "rule") /\ s \in Ids
          /\ UNCHANGED <<place, daemon, link, waitingOnPeer, del, taking>>
      BY <2>1, SessionsListed DEF RuleChanges, Shape, deletes, sides, marks
    <3>2. Steady
      BY <2>1, <3>1, CalmBefore DEF RuleChanges, Steady
    <3>3. sess' = With({s}, TRUE)
      BY <3>1 DEF Reopens
    <3>4. \A t \in Ids : t = s \/ Recreating(t) => Recreating(t)'
      BY <3>1 DEF Reopens, Recreating
    <3>5. ASSUME \A t \in Live : sess[t].paused => Excused(t), NEW t \in Live', sess'[t].paused
          PROVE  Excused(t)'
      <4>1. t \in Live /\ t \in Ids
        BY <3>3, <3>5, SessionsAfter, LiveOnes
      <4>2. t \notin {s} => sess'[t] = sess[t]
        <5>1. \A u \in Live' : u \notin {s} => sess'[u] = sess[u]
          BY <3>3, SessionsAfter
        <5>. QED  BY <3>5, <5>1
      <4>. QED  BY <3>1, <3>4, <3>5, <4>1, <4>2 DEF Excused
    <3>. QED  BY <1>0, <3>2, <3>3, <3>5, SessionsAfter, StoppedRests
  <2>2. ASSUME (\E s \in DOMAIN sess : StopBegins(s) \/ StopKeeps(s)) \/ StopEnds
        PROVE  StoppedInv'
    <3>1. Fewer
      BY <1>3, <2>2, EndsFewer DEF StopBegins, StopKeeps, StopEnds, engine
    <3>2. UNCHANGED <<place, daemon, link, waitingOnPeer, del, taking, reopen>>
      BY <2>2 DEF StopBegins, StopKeeps, StopEnds, deletes, engine, sides, marks
    <3>3. Calm' => Calm
      BY <2>2, CalmBefore DEF StopBegins, StopKeeps, StopEnds
    <3>. QED  BY <1>1, <3>1, <3>2, <3>3 DEF Steady
  <2>3. CASE DeleteBegins \/ DeleteRefused
    <3>1. UNCHANGED <<sess, place, daemon, link, waitingOnPeer, taking, reopen>>
      BY <2>3 DEF DeleteBegins, DeleteRefused, engine, sides, marks
    <3>2. del.stage \notin Files /\ del'.stage \notin Files
      BY <2>3 DEF DeleteBegins, DeleteRefused, NoDelete, Mutable, Deleting, Files
    <3>3. Calm' => Calm
      BY <2>3, CalmBefore DEF DeleteBegins, DeleteRefused
    <3>. QED  BY <1>0, <1>3, <3>1, <3>2, <3>3, StoppedFewer DEF Steady, Recreating
  <2>4. CASE StopAsks \/ CopyDeleteBegins \/ MoveBegins \/ GoneCopyAges
    <3>1. UNCHANGED <<sess, place, daemon, link, waitingOnPeer, del, taking, reopen>>
      BY <2>4
      DEF StopAsks, CopyDeleteBegins, MoveBegins, GoneCopyAges, deletes, engine, sides, marks
    <3>2. Calm' => Calm
      BY <2>4, CalmBefore DEF StopAsks, CopyDeleteBegins, MoveBegins, GoneCopyAges
    <3>. QED  BY <1>1, <1>3, <3>1, <3>2 DEF Steady
  <2>5. ASSUME NEW s \in Ids, ReopenCut(s) PROVE StoppedInv'
    <3>1. /\ UNCHANGED <<place, daemon, link, waitingOnPeer, del, taking>>
          /\ sess' = With({s}, FALSE) \/ UNCHANGED sess
          /\ ~Calm'
      BY <2>5, CalmBefore DEF ReopenCut, deletes, marks, sides
    <3>2. Steady
      BY <3>1 DEF Steady
    <3>3. /\ DOMAIN sess' = DOMAIN sess
          /\ \A t \in Live' : t \in Live /\ sess'[t].root = sess[t].root
      BY <3>1, SessionsAfter DEF Live
    <3>. QED  BY <1>0, <3>1, <3>2, <3>3, StoppedRests
  <2>. QED  BY <1>10, <2>1, <2>2, <2>3, <2>4, <2>5 DEF Asked
<1>11. CASE AtWork \/ UNCHANGED vars
  <2>1. UNCHANGED <<sess, place, daemon, link, waitingOnPeer, del, taking, reopen>>
    BY <1>11 DEF AtWork, Writes, Vanishes, Follow, Cycle, vars, deletes, engine, sides, marks
  <2>2. Calm' => Calm
    <3>1. ASSUME NEW x \in Sides, Vanishes(x) PROVE ~Calm'
      BY <3>1, CalmBefore DEF Vanishes
    <3>. QED  BY <1>11, <3>1, CalmBefore DEF AtWork, Writes, Follow, Cycle, vars
  <2>. QED  BY <1>1, <1>3, <2>1, <2>2 DEF Steady
<1>12. CASE Troubles
  <2>1. ~Calm'
    BY <1>4, <1>12, CalmBefore
    DEF Troubles, DaemonDies, DaemonComes, AppDies, LinkDrops, LinkComes
  <2>2. CASE AppDies
    BY <2>1, <2>2 DEF AppDies, NoDelete, StoppedInv
  <2>3. CASE ~AppDies
    <3>1. Fewer /\ UNCHANGED <<place, waitingOnPeer, del, taking, reopen>>
      BY <1>3, <1>12, <2>3
      DEF Troubles, DaemonDies, DaemonComes, LinkDrops, LinkComes, deletes, engine, sides, marks
    <3>. QED  BY <1>1, <2>1, <3>1 DEF Steady
  <2>. QED  BY <2>2, <2>3
<1>. QED
  BY <1>5, <1>6, <1>7, <1>8, <1>9, <1>10, <1>11, <1>12 DEF Next, AtWork, Asked, Troubles

\* A delete or a taking that is given up lets go on what it stopped, and a re-open that
\* fails the session it was to replace (onDelete.ts, recreate), so with nothing under
\* way, and nothing ever refused, died or unheard of, only a session that waits for its
\* peer is paused. It holds whatever is under way as another thing begins.
THEOREM NoneLeftPaused == Spec => []LeftRunning
<1> DEFINE J == Shape /\ TurnInv /\ StoppedInv
<1>1. Init => J
  <2>1. Init => Shape /\ TurnInv
    BY ShapeStarts, WorkStarts
  <2>2. Init => StoppedInv
    BY DEF Init, NoDelete, StoppedInv, Live
  <2>. QED  BY <2>1, <2>2
<1>2. J /\ [Next]_vars => J'
  BY ShapeKept, TurnKept, StoppedKept
<1>3. J => LeftRunning
  <2> SUFFICES ASSUME J, Calm, Mutable, NEW s \in Live, sess[s].paused,
                      \A t \in Ids : ~Recreating(t)
               PROVE  s \in DOMAIN waitingOnPeer
    BY DEF LeftRunning
  <2>. QED  BY LiveOnes DEF StoppedInv, Excused, Mutable, Deleting
<1>. QED  BY <1>1, <1>2, <1>3, PTL DEF Spec

--------------------------------------------------------------------------------
(* One session of a pair runs.                                                 *)

\* A session that may run, now or once the engine has what it was asked: every other
\* that is live is being ended behind the one that replaced it.
Leads(s) == \/ reopen[s].stage = "creating"
            \/ s \in Live /\ ~Recreating(s)

\* It is where the original is, or follows it there.
Rooted(s) ==
    \/ sess[s].root = IF move.stage = "moved" THEN move.from ELSE place
    \/ move.stage = "reopening" /\ Recreating(s)

\* While nothing was refused one session leads, and it is where the original is, or
\* follows it there. One that is being replaced is paused, and no delete lets it go on;
\* nothing was made that nobody heard of.
Pair ==
    /\ \A s, t \in Ids : Leads(s) /\ Leads(t) => s = t
    /\ \A s \in Live : Rooted(s)
    /\ \A s \in Ids : reopen[s].stage # "no" => Recreating(s)
    /\ \A s \in Ids : Recreating(s) =>
          /\ s \in Live => sess[s].paused
          /\ reopen[s].to = place /\ del.stage = "no" /\ move.stage \in {"no", "reopening"}
          /\ move.stage = "reopening" => reopen[s].why = "move"
          /\ taking.stage # "no" => s \notin taking.paused
    /\ taking.stage = "pause" => taking.paused = {}
    /\ move.stage = "going" => move.from = place
PairInv == Calm /\ Here("original") => Pair

\* A step that moves nothing and re-opens nothing, and lets no session go on that is
\* being replaced.
LEMMA PairRests ==
    ASSUME Shape, PairInv, Calm' => Calm, Here("original")' => Here("original"),
           UNCHANGED <<place, reopen, move>>,
           Calm' /\ Here("original")' =>
              \A s \in Live' : /\ s \in Live /\ sess'[s].root = sess[s].root
                               /\ Recreating(s) /\ sess[s].paused => sess'[s].paused,
           Calm' /\ Here("original")' /\ (\E s \in Ids : Recreating(s)) =>
              (del.stage = "no" => del'.stage = "no"),
           Calm' /\ Here("original")' =>
              \/ UNCHANGED taking
              \/ taking'.stage = "no"
              \/ taking'.stage # "no" /\ taking'.paused = {}
              \/ /\ taking'.stage = "cleanup"
                 /\ \A s \in taking'.paused : s \in Live /\ ~sess[s].paused
    PROVE  PairInv'
<1> SUFFICES ASSUME Calm', Here("original")' PROVE PairInv'
  BY DEF PairInv
<1> USE DEF Pair
<1>1. \A s \in Ids : Recreating(s)' = Recreating(s)
  BY DEF Recreating
<1>2. \A s \in Ids : Leads(s)' => Leads(s)
  BY <1>1 DEF Leads
<1>3. \A s, t \in Ids : Leads(s)' /\ Leads(t)' => s = t
  BY <1>2 DEF PairInv
<1>4. \A s \in Live' : Rooted(s)'
  BY <1>1, LiveOnes DEF PairInv, Rooted
<1>5. ASSUME NEW s \in Ids, Recreating(s)
      PROVE  /\ s \in Live' => sess'[s].paused
             /\ reopen'[s].to = place' /\ del'.stage = "no" /\ move'.stage \in {"no", "reopening"}
             /\ move'.stage = "reopening" => reopen'[s].why = "move"
             /\ taking'.stage # "no" => s \notin taking'.paused
  <2>1. /\ s \in Live => sess[s].paused
        /\ reopen[s].to = place /\ del.stage = "no" /\ move.stage \in {"no", "reopening"}
        /\ move.stage = "reopening" => reopen[s].why = "move"
        /\ taking.stage # "no" => s \notin taking.paused
    BY <1>5 DEF PairInv
  <2>2. taking'.stage # "no" => s \notin taking'.paused
    BY <2>1
  <2>3. s \in Live' => sess'[s].paused
    BY <1>5, <2>1
  <2>. QED  BY <1>5, <2>1, <2>2, <2>3
<1>6. taking'.stage = "pause" => taking'.paused = {}
  BY DEF PairInv
<1>7. move'.stage = "going" => move'.from = place'
  BY DEF PairInv
<1>8. \A s \in Ids : reopen'[s].stage # "no" => Recreating(s)'
  BY <1>1 DEF PairInv
<1>. QED  BY <1>1, <1>3, <1>4, <1>5, <1>6, <1>7, <1>8 DEF PairInv

\* One that ends sessions at most.
LEMMA PairFewer ==
    ASSUME Shape, PairInv, Calm' => Calm, Here("original")' => Here("original"),
           Fewer, UNCHANGED <<place, reopen, move, del, taking>>
    PROVE  PairInv'
BY PairRests DEF Fewer

\* The re-open of a session: its new one is made, is not made, or takes its place.
LEMMA PairReopens ==
    ASSUME Shape, PairInv, StoppedInv, NEW s \in Ids,
           \/ ReopenCreates(s) \/ ReopenFails(s) \/ ReopenEnds(s)
           \/ ReopenLate(s) \/ endAbandoned(s)
    PROVE  PairInv'
<1> SUFFICES ASSUME Calm', Here("original")' PROVE PairInv'
  BY DEF PairInv
<1>0. /\ reopen[s].stage # "no"
      /\ UNCHANGED <<at, place, move, del, taking, daemon, link>>
  BY DEF ReopenCreates, ReopenFails, ReopenEnds, ReopenLate, endAbandoned, sides, deletes,
         people
<1>2. Calm /\ Here("original")
  <2>1. ReopenCreates(s) => Calm
    BY CalmBefore DEF ReopenCreates
  <2>2. ReopenFails(s) => Calm
    BY CalmBefore DEF ReopenFails
  <2>3. ReopenEnds(s) \/ ReopenLate(s) \/ endAbandoned(s) => Calm
    BY CalmBefore DEF ReopenEnds, ReopenLate, endAbandoned
  <2>. QED  BY <1>0, <2>1, <2>2, <2>3 DEF Here
<1>3. daemon /\ link
  BY <1>2 DEF StoppedInv
<1>4. Pair
  BY <1>2 DEF PairInv
<1> USE DEF Pair
<1>1. /\ Recreating(s) /\ UNCHANGED <<at, place, move, del, taking, daemon, link>>
      /\ ReopenCreates(s) \/ ReopenFails(s) \/ ReopenEnds(s)
  BY <1>0, <1>4 DEF Recreating, ReopenLate, endAbandoned
<1>5. CASE ReopenCreates(s)
  <2> DEFINE n == Len(sess) + 1
             new == [paused |-> FALSE, root |-> reopen[s].to, replaces |-> s]
  <2>1. /\ sess' = Append(sess, new) /\ reopen' = [reopen EXCEPT ![s].stage = "replacing"]
        /\ reopen[s].stage = "creating" /\ Len(sess) < MaxSessions
    BY <1>5 DEF ReopenCreates, Creates, Made
  <2>2. /\ Len(sess) \in Nat /\ DOMAIN sess = 1..Len(sess)
        /\ DOMAIN sess' = DOMAIN sess \cup {n}
        /\ \A t \in DOMAIN sess : sess'[t] = sess[t]
        /\ sess'[n] = new
    BY <2>1, AppendProperties, SessionsListed DEF Shape, EngineOK
  <2>3. n \in Ids /\ n \notin DOMAIN sess
    BY <2>1, <2>2, MirrorAssumption DEF Ids
  <2>4. ~Recreating(n) /\ s \in DOMAIN sess /\ s # n
    BY <1>1, <2>3 DEF Shape, ReopenOK, Opens, Recreating
  <2>5. \A t \in Ids : /\ Recreating(t)' = Recreating(t)
                       /\ reopen'[t].stage # "no" => Recreating(t)'
                       /\ reopen'[t].to = reopen[t].to /\ reopen'[t].why = reopen[t].why
                       /\ reopen'[t].stage = "creating" => reopen[t].stage = "creating" /\ t # s
    <3>1. \A t \in Ids : t # s => reopen'[t] = reopen[t]
      BY <2>1 DEF Shape, ReopenOK
    <3>2. reopen'[s] = [reopen[s] EXCEPT !.stage = "replacing"]
      BY <2>1 DEF Shape, ReopenOK
    <3>3. /\ reopen'[s].stage = "replacing" /\ reopen'[s].to = reopen[s].to
          /\ reopen'[s].why = reopen[s].why
      BY <3>2 DEF Shape, ReopenOK
    <3>. QED  BY <1>1, <1>4, <3>1, <3>3 DEF Recreating
  <2>6. \A t \in Live' : t = n \/ (t \in Live /\ sess'[t] = sess[t])
    <3> HIDE DEF n, new
    <3>. QED  BY <2>2 DEF Live
  <2>7. \A t \in Ids : Leads(t)' => t = n
    <3> SUFFICES ASSUME NEW t \in Ids, Leads(t)', t # n PROVE FALSE
      OBVIOUS
    <3>1. Leads(t)
      BY <2>5, <2>6 DEF Leads
    <3>2. Leads(s)
      BY <2>1 DEF Leads
    <3>3. t = s
      BY <1>4, <3>1, <3>2
    <3>. QED  BY <1>1, <2>4, <2>5, <3>3 DEF Leads
  <2>8. sess'[n].root = place'
    BY <1>1, <1>4, <2>2
  <2>9. \A t \in Live' : Rooted(t)'
    <3> SUFFICES ASSUME NEW t \in Live'
                 PROVE  Rooted(t)'
      OBVIOUS
    <3>1. CASE t = n
      BY <1>1, <1>4, <2>8, <3>1 DEF Rooted
    <3>2. CASE t # n
      <4>1. t \in Live /\ t \in Ids /\ sess'[t] = sess[t]
        BY <2>6, <3>2, LiveOnes
      <4>2. Rooted(t)
        BY <1>4, <4>1
      <4>. QED  BY <1>1, <2>5, <4>1, <4>2 DEF Rooted
    <3>. QED  BY <3>1, <3>2
  <2>10. ASSUME NEW t \in Ids, Recreating(t)' PROVE t \in Live' => sess'[t].paused
    BY <1>4, <2>4, <2>5, <2>6, <2>10
  <2> HIDE DEF n, new
  <2>. QED  BY <1>1, <1>4, <2>5, <2>7, <2>9, <2>10 DEF PairInv
<1>6. CASE ReopenFails(s) \/ ReopenEnds(s)
  <2>1. reopen' = [reopen EXCEPT ![s] = NoReopen]
    <3>1. ReopenFails(s) => ~Creates
      BY CalmBefore DEF ReopenFails
    <3>. QED  BY <1>3, <1>6, <3>1 DEF ReopenFails, ReopenEnds
  <2>2. \/ sess' = Without({s})
        \/ sess' = With({s}, FALSE) /\ reopen[s].why = "rule" /\ reopen[s].stage = "creating"
    <3>1. ReopenFails(s) =>
             \/ sess' = Without({s})
             \/ sess' = With({s}, FALSE) /\ reopen[s].why = "rule" /\ reopen[s].stage = "creating"
      BY <1>3 DEF ReopenFails
    <3>2. ReopenEnds(s) => sess' = Without({s})
      BY <1>3, CalmBefore DEF ReopenEnds
    <3>. QED  BY <1>6, <3>1, <3>2
  <2>3. \A t \in Ids : /\ t # s => reopen'[t] = reopen[t] /\ Recreating(t)' = Recreating(t)
                       /\ ~Recreating(s)' /\ reopen'[s].stage = "no"
    BY <2>1 DEF Shape, ReopenOK, Recreating, NoReopen
  <2>4. \A t \in Live' : /\ t \in Live /\ t \in Ids /\ sess'[t].root = sess[t].root
                         /\ t # s => sess'[t] = sess[t]
                         /\ t = s => reopen[s].why = "rule" /\ reopen[s].stage = "creating"
    <3>1. CASE sess' = Without({s})
      BY <3>1, SessionsAfter, LiveOnes
    <3>2. CASE sess' = With({s}, FALSE) /\ reopen[s].why = "rule" /\ reopen[s].stage = "creating"
      <4>1. \A t \in Live' : /\ t \in Live /\ sess'[t].root = sess[t].root
                             /\ t \notin {s} => sess'[t] = sess[t]
        BY <3>2, SessionsAfter
      <4>. QED  BY <3>2, <4>1, LiveOnes
    <3>. QED  BY <2>2, <3>1, <3>2
  <2>5. \A t \in Ids : Leads(t)' => Leads(t)
    BY <2>3, <2>4 DEF Leads
  <2>6. \A t \in Live' : Rooted(t)'
    <3> SUFFICES ASSUME NEW t \in Live'
                 PROVE  Rooted(t)'
      OBVIOUS
    <3>1. CASE t = s
      <4>1. Rooted(t) /\ t \in Live /\ reopen[s].why = "rule" /\ sess'[t].root = sess[t].root
        BY <1>4, <2>4, <3>1
      <4>2. move.stage = "no"
        BY <1>1, <1>4, <4>1
      <4>. QED  BY <1>1, <4>1, <4>2 DEF Rooted
    <3>2. CASE t # s
      <4>1. Rooted(t) /\ t \in Ids /\ sess'[t].root = sess[t].root
        BY <1>4, <2>4
      <4>. QED  BY <1>1, <2>3, <3>2, <4>1 DEF Rooted
    <3>. QED  BY <3>1, <3>2
  <2>7. \A t \in Ids : Leads(t)' => \A u \in Ids : Leads(u)' => t = u
    BY <1>4, <2>5
  <2>8. ASSUME NEW t \in Ids, Recreating(t)'
        PROVE  /\ t \in Live' => sess'[t].paused
               /\ Recreating(t) /\ reopen'[t] = reopen[t]
    BY <1>4, <2>3, <2>4, <2>8
  <2>9. \A t \in Ids : reopen'[t].stage # "no" => Recreating(t)'
    BY <1>4, <2>3
  <2>. QED  BY <1>1, <1>4, <2>6, <2>7, <2>8, <2>9 DEF PairInv
<1>. QED  BY <1>1, <1>5, <1>6

\* A move: it begins and ends with nothing being re-opened, and re-opens what leads.
LEMMA PairMoves ==
    ASSUME Shape, TurnInv, PairInv, StoppedInv, "reopen" \notin Overlaps,
           MoveBegins \/ MoveFails \/ MoveDone \/ MoveMirrors \/ MoveEnds
    PROVE  PairInv'
<1> SUFFICES ASSUME Calm', Here("original")' PROVE PairInv'
  BY DEF PairInv
<1>1. UNCHANGED <<at, del, taking, daemon, link>>
  BY DEF MoveBegins, MoveFails, MoveDone, MoveMirrors, MoveEnds, sides, engine, deletes
<1>2. Calm /\ Here("original")
  <2>1. MoveBegins => Calm
    BY CalmBefore DEF MoveBegins
  <2>2. MoveFails \/ MoveDone \/ MoveMirrors \/ MoveEnds => Calm
    BY CalmBefore DEF MoveFails, MoveDone, MoveMirrors, MoveEnds
  <2>. QED  BY <1>1, <2>1, <2>2 DEF Here
<1>3. daemon /\ link
  BY <1>2 DEF StoppedInv
<1>4. Pair
  BY <1>2 DEF PairInv
<1> USE DEF Pair
<1>5. ASSUME MoveBegins \/ MoveFails \/ MoveDone \/ MoveEnds PROVE PairInv'
  <2>1. \A t \in Ids : ~Recreating(t)
    <3>1. CASE MoveBegins \/ MoveEnds
      BY <3>1 DEF MoveBegins, MoveEnds, Reopening, Recreating
    <3>2. CASE MoveFails \/ MoveDone
      BY <1>4, <3>2 DEF MoveFails, MoveDone
    <3>. QED  BY <1>5, <3>1, <3>2
  <2>2. UNCHANGED <<sess, reopen>>
    BY <1>5 DEF MoveBegins, MoveFails, MoveDone, MoveEnds, engine
  <2>3. /\ \A t \in Ids : ~Recreating(t)' /\ (Leads(t)' => Leads(t))
        /\ Live' = Live
    BY <2>1, <2>2 DEF Leads, Live, Recreating
  <2>4. \A t \in Live : sess[t].root = IF move.stage = "moved" THEN move.from ELSE place
    BY <1>4, <2>1, LiveOnes DEF Rooted
  <2>5. \A t \in Live : sess[t].root = IF move'.stage = "moved" THEN move'.from ELSE place'
    <3>1. CASE MoveDone
      <4>1. move.stage = "going" /\ move'.stage = "moved" /\ move'.from = move.from
        BY <3>1 DEF MoveDone, Shape, PeopleOK
      <4>. QED  BY <1>4, <2>4, <4>1
    <3>2. CASE MoveBegins \/ MoveFails \/ MoveEnds
      <4>1. move.stage # "moved" /\ move'.stage # "moved" /\ UNCHANGED place
        BY <3>2 DEF MoveBegins, MoveFails, MoveEnds, NoMove, Mutable, sides
      <4>. QED  BY <2>4, <4>1
    <3>. QED  BY <1>5, <3>1, <3>2
  <2>6. move'.stage = "going" => move'.from = place'
    BY <1>5 DEF MoveBegins, MoveFails, MoveDone, MoveEnds, NoMove, sides, Shape, PeopleOK
  <2>7. \A t \in Live' : Rooted(t)'
    BY <2>2, <2>3, <2>5 DEF Rooted
  <2>8. \A t, u \in Ids : Leads(t)' /\ Leads(u)' => t = u
    BY <1>4, <2>3
  <2>9. \A t \in Ids : reopen'[t].stage # "no" => Recreating(t)'
    BY <1>4, <2>1, <2>2
  <2>. QED  BY <1>1, <1>4, <2>3, <2>6, <2>7, <2>8, <2>9 DEF PairInv
<1>6. CASE MoveMirrors
  <2> DEFINE those == {t \in Live : sess[t].root = move.from}
  <2>1. /\ move.stage = "moved" /\ UNCHANGED place
        /\ move'.stage = "reopening"
    BY <1>6 DEF MoveMirrors, sides, Shape, PeopleOK
  <2>2. Reopens(those, place, "move")
    BY <1>3, <1>6 DEF MoveMirrors, moveMirrorsOfWorktree
  <2>3. \A t \in Ids : ~Recreating(t)
    BY <1>4, <2>1
  <2>4. \A t \in Live : t \in those
    BY <1>4, <2>1 DEF Rooted
  <2>5. del.stage = "no" /\ taking.stage = "no"
    BY <2>1 DEF TurnInv
  <2>6. \A t \in Live' : t \in Live /\ t \in Ids /\ t \in those /\ sess'[t].paused
    <3>1. sess' = With(those, TRUE)
      BY <2>2 DEF Reopens
    <3>2. \A t \in Live' : t \in Live /\ (t \in those => sess'[t].paused = TRUE)
      BY <3>1, SessionsAfter
    <3>. QED  BY <2>4, <3>2, LiveOnes
  <2> HIDE DEF those
  <2>7. \A t \in Ids :
           reopen'[t] = IF t \in those
                        THEN [stage |-> "creating", to |-> place, why |-> "move"]
                        ELSE reopen[t]
    BY <2>2 DEF Reopens
  <2>8. \A t \in Ids : Recreating(t)' => t \in those /\ reopen'[t].to = place
                                           /\ reopen'[t].why = "move"
    BY <2>3, <2>7 DEF Recreating
  <2>9. \A t \in Ids : t \in those => Recreating(t)'
    BY <2>7 DEF Recreating
  <2>10. \A t \in Ids : Leads(t)' => Leads(t)
    <3>1. those \subseteq Live
      BY DEF those
    <3>2. \A t \in Ids : Leads(t)' => t \in those
      BY <2>3, <2>6, <2>7 DEF Leads, Recreating
    <3>. QED  BY <2>3, <3>1, <3>2 DEF Leads
  <2>11. \A t \in Live' : Rooted(t)'
    BY <2>1, <2>6, <2>9 DEF Rooted
  <2>12. \A t, u \in Ids : Leads(t)' /\ Leads(u)' => t = u
    BY <1>4, <2>10
  <2>13. \A t \in Ids : Recreating(t)' =>
            /\ t \in Live' => sess'[t].paused
            /\ reopen'[t].to = place' /\ del'.stage = "no"
            /\ reopen'[t].why = "move"
            /\ taking'.stage = "no"
    BY <1>1, <2>1, <2>5, <2>6, <2>8
  <2>14. taking'.stage = "no"
    BY <1>1, <2>5
  <2>15. \A t \in Ids : reopen'[t].stage # "no" => Recreating(t)'
    BY <1>4, <2>3, <2>7, <2>9
  <2>. QED  BY <2>1, <2>11, <2>12, <2>13, <2>14, <2>15 DEF PairInv
<1>. QED  BY <1>5, <1>6

LEMMA PairKept ==
    ASSUME "reopen" \notin Overlaps
    PROVE  Shape /\ TurnInv /\ StoppedInv /\ PairInv /\ [Next]_vars => PairInv'
<1> SUFFICES ASSUME Shape, TurnInv, StoppedInv, PairInv, [Next]_vars PROVE PairInv'
  OBVIOUS
<1>0. Here("original")' => Here("original")
  BY WorkGrows DEF Grows, Sides
<1>1. UNCHANGED sess => Fewer
  BY EndsFewer
<1>2. ASSUME Fewer, Calm' => Calm, UNCHANGED <<place, reopen, move, del, taking>>
      PROVE  PairInv'
  BY <1>0, <1>2, PairFewer
<1>3. ASSUME ~Here("original")' \/ ~Calm' PROVE PairInv'
  BY <1>3 DEF PairInv
<1>4. Calm => daemon /\ link
  BY DEF StoppedInv
<1>5. ASSUME Fewer, Calm' => Calm, UNCHANGED <<place, reopen, move, taking>>,
             Calm' /\ del.stage = "no" => del'.stage = "no" \/ \A s \in Ids : ~Recreating(s)
      PROVE  PairInv'
  BY <1>0, <1>5, PairRests DEF Fewer
<1>6. CASE DeleteSteps
  <2>1. ASSUME LookReads \/ LookSettles \/ DeleteGoes \/ DeleteKept PROVE PairInv'
    <3>1. Fewer
      BY <1>1, <2>1, EndsFewer DEF LookReads, LookSettles, DeleteGoes, DeleteKept, engine
    <3>2. Calm' => Calm
      BY <2>1, CalmBefore DEF LookReads, LookSettles, DeleteGoes, DeleteKept
    <3>3. del.stage # "no" /\ UNCHANGED <<place, reopen, move, taking>>
      BY <2>1 DEF LookReads, LookSettles, DeleteGoes, DeleteKept, sides, people
    <3>. QED  BY <1>5, <3>1, <3>2, <3>3
  <2>2. CASE DeletePauses
    <3> DEFINE those == IF daemon THEN {s \in OnWorktree(place) : ~sess[s].paused} ELSE {}
    <3>1. /\ del.stage = "pause" /\ UNCHANGED <<place, reopen, move, taking, spent>>
          /\ sess' = With(those, TRUE)
      BY <2>2 DEF DeletePauses, pauseMirrorsOn, sides, people
    <3>2. Calm' => Calm
      BY <3>1, CalmBefore
    <3>3. \A s \in Live' : /\ s \in Live /\ sess'[s].root = sess[s].root
                           /\ s \in those => sess'[s].paused
                           /\ s \notin those => sess'[s] = sess[s]
      BY <3>1, SessionsAfter
    <3>. QED  BY <1>0, <3>1, <3>2, <3>3, PairRests
  <2>3. CASE DeleteShort
    <3>1. /\ del.stage = "cleanup" /\ resumeMirrors(del.paused)
          /\ UNCHANGED <<place, reopen, move, taking>>
      BY <2>3 DEF DeleteShort, sides, people
    <3>2. Calm' => Calm
      BY <3>1, CalmBefore
    <3>3. Calm' => sess' = With(del.paused, FALSE)
      BY <1>4, <3>1, CalmBefore
    <3>4. Calm' => \A s \in Live' : s \in Live /\ s \in Ids /\ sess'[s].root = sess[s].root
      BY <3>3, SessionsAfter, LiveOnes
    <3>5. Calm' /\ Here("original")' => \A s \in Ids : ~Recreating(s)
      BY <1>0, <3>1, <3>2 DEF PairInv, Pair
    <3>. QED  BY <1>0, <3>1, <3>2, <3>4, <3>5, PairRests
  <2>4. CASE DeleteGone
    <3>1. ~Here("original")'
      BY <2>4 DEF DeleteGone, Here, Shape, SidesOK, Sides
    <3>. QED  BY <1>3, <3>1
  <2>5. CASE deleteCopiesOf
    <3>1. ~Here("original")'
      BY <1>0, <2>5 DEF deleteCopiesOf, TurnInv
    <3>. QED  BY <1>3, <3>1
  <2>6. ASSUME NEW s \in Ids, JobEnds(s) \/ JobAsks(s) PROVE PairInv'
    <3>1. Fewer
      BY <1>1, <2>6, EndsFewer DEF JobEnds, JobAsks, engine
    <3>2. Calm' => Calm
      BY <2>6, CalmBefore DEF JobEnds, JobAsks
    <3>. QED  BY <1>2, <2>6, <3>1, <3>2 DEF JobEnds, JobAsks, sides, people
  <2>. QED  BY <1>6, <2>1, <2>2, <2>3, <2>4, <2>5, <2>6 DEF DeleteSteps
<1>7. CASE CopySteps
  <2>1. UNCHANGED <<sess, place, reopen, move, del, taking, spent>>
    BY <1>7
    DEF CopySteps, CopyAsks, CopyReads, CopyAsksAgain, CopyDeleteGoes, CopyDeleteStays,
        CopyDeleteGone, engine, sides, people
  <2>. QED  BY <1>1, <1>2, <2>1, CalmBefore
<1>8. CASE HeardSteps
  <2>1. CASE TakingPauses
    <3> DEFINE those == IF daemon THEN {s \in OnWorktree(place) : ~sess[s].paused} ELSE {}
    <3>1. /\ UNCHANGED <<place, reopen, move, del, spent>>
          /\ sess' = With(those, TRUE)
          /\ taking' = [taking EXCEPT !.stage = "cleanup",
                          !.paused = {s \in DOMAIN sess : sess'[s] # sess[s]}]
      BY <2>1 DEF TakingPauses, pauseMirrorsOn, sides, people
    <3>2. Calm' => Calm
      BY <3>1, CalmBefore
    <3>3. \A s \in Live' : /\ s \in Live /\ sess'[s].root = sess[s].root
                           /\ s \in those => sess'[s].paused
                           /\ s \notin those => sess'[s] = sess[s]
      BY <3>1, SessionsAfter
    <3>4. taking'.stage = "cleanup" /\ taking'.paused = {s \in DOMAIN sess : sess'[s] # sess[s]}
      BY <3>1 DEF Shape, DeletesOK, Deletes
    <3>5. \A s \in taking'.paused : s \in Live /\ ~sess[s].paused
      <4>1. \A s \in DOMAIN sess : sess'[s] # sess[s] => s \in those
        BY <3>1 DEF With
      <4>. QED  BY <3>4, <4>1 DEF OnWorktree
    <3> HIDE DEF those
    <3>. QED  BY <1>0, <3>1, <3>2, <3>3, <3>4, <3>5, PairRests
  <2>2. CASE TakingStays
    <3>1. /\ taking.stage \in {"pause", "cleanup"} /\ resumeMirrors(taking.paused)
          /\ UNCHANGED <<place, reopen, move, del>>
          /\ taking'.stage = "no"
      BY <2>2 DEF TakingStays, NoDelete, sides, people
    <3>2. Calm' => Calm
      BY <3>1, CalmBefore
    <3>3. Calm' => sess' = With(taking.paused, FALSE)
      BY <1>4, <3>1, CalmBefore
    <3>4. Calm' => \A s \in Live' : /\ s \in Live /\ s \in Ids /\ sess'[s].root = sess[s].root
                                    /\ s \notin taking.paused => sess'[s] = sess[s]
      BY <3>3, SessionsAfter, LiveOnes
    <3>5. Calm' /\ Here("original")' =>
             \A s \in Ids : Recreating(s) => s \notin taking.paused
      BY <1>0, <3>1, <3>2 DEF PairInv, Pair
    <3>6. Calm' /\ Here("original")' =>
             \A s \in Live' : /\ s \in Live /\ sess'[s].root = sess[s].root
                              /\ Recreating(s) /\ sess[s].paused => sess'[s].paused
      BY <3>4, <3>5
    <3>. QED  BY <1>0, <3>1, <3>2, <3>6, PairRests
  <2>3. CASE TakingGone
    <3>1. ~Here("original")'
      BY <2>3 DEF TakingGone, Here, Shape, SidesOK, Sides
    <3>. QED  BY <1>3, <3>1
  <2>4. CASE stopMirrorsForWorktree
    <3>1. ~Here("original")'
      BY <1>0, <2>4 DEF stopMirrorsForWorktree, TurnInv
    <3>. QED  BY <1>3, <3>1
  <2>5. ASSUME NEW h \in heard, HeardEnds(h) PROVE PairInv'
    <3>1. Fewer /\ (Calm' => Calm) /\ UNCHANGED <<place, reopen, move, del>>
      BY <2>5, EndsFewer, CalmBefore DEF HeardEnds, sides, people
    <3>2. \/ UNCHANGED taking
          \/ taking'.stage # "no" /\ taking'.paused = {}
      BY <2>5 DEF HeardEnds, NoDelete
    <3>. QED  BY <1>0, <3>1, <3>2, PairRests DEF Fewer
  <2>6. ASSUME (\E m \in news : Hears(m)) \/ endMirrorIfCopyGone PROVE PairInv'
    <3>1. UNCHANGED <<sess, place, reopen, move, del, taking, spent>>
      BY <2>6 DEF Hears, endMirrorIfCopyGone, deletes, engine, sides, people
    <3>. QED  BY <1>1, <1>2, <3>1, CalmBefore
  <2>. QED  BY <1>8, <2>1, <2>2, <2>3, <2>4, <2>5, <2>6 DEF HeardSteps
<1>9. CASE ReopenSteps
  <2>1. ASSUME NEW s \in Ids, \/ ReopenCreates(s) \/ ReopenFails(s) \/ ReopenEnds(s)
                               \/ ReopenLate(s) \/ endAbandoned(s)
        PROVE  PairInv'
    BY <2>1, PairReopens
  <2>2. CASE MoveFails \/ MoveDone \/ MoveMirrors \/ MoveEnds
    BY <2>2, PairMoves
  <2>. QED  BY <1>9, <2>1, <2>2 DEF ReopenSteps
<1>10. CASE SweepSteps
  <2>1. ASSUME NEW s \in DOMAIN sess, LookMoves(s) PROVE PairInv'
    <3>1. /\ s \in looking /\ Moved(s) /\ Mutable /\ UNCHANGED spent
          /\ s \in Live /\ s \in Ids
      BY <2>1, SessionsListed DEF LookMoves, LookDone, Live, Moved, Shape
    <3>2. ASSUME Calm' PROVE FALSE
      <4>1. Pair
        BY <3>1, <3>2, CalmBefore DEF PairInv, Moved
      <4>2. Rooted(s) /\ move.stage = "no"
        BY <3>1, <4>1 DEF Pair, Mutable
      <4>. QED  BY <3>1, <4>2 DEF Rooted, Moved
    <3>. QED  BY <1>3, <3>2
  <2>2. ASSUME PendingStopsEnd \/ \E s \in DOMAIN sess :
                  ReplacedEnds(s) \/ LookMovedEnds(s) \/ LookGone(s)
        PROVE  PairInv'
    <3>1. Fewer
      BY <2>2, EndsFewer
      DEF PendingStopsEnd, ReplacedEnds, LookMovedEnds, LookGone, EndsKeeping
    <3>2. UNCHANGED <<place, reopen, move, del, taking>>
      BY <2>2
      DEF PendingStopsEnd, ReplacedEnds, LookMovedEnds, LookGone, EndsKeeping, LookDone,
          deletes, sides, people
    <3>3. Calm' => Calm
      BY <2>2, CalmBefore
      DEF PendingStopsEnd, ReplacedEnds, LookMovedEnds, LookGone, EndsKeeping
    <3>. QED  BY <1>2, <3>1, <3>2, <3>3
  <2>3. ASSUME NEW s \in DOMAIN sess, lookAt(s) \/ LookThere(s) \/ LookEnded(s)
        PROVE  PairInv'
    <3>1. UNCHANGED <<sess, place, reopen, move, del, taking, spent>>
      BY <2>3 DEF lookAt, LookThere, LookEnded, LookDone, deletes, engine, sides, people
    <3>. QED  BY <1>1, <1>2, <3>1, CalmBefore
  <2>4. ASSUME NEW s \in DOMAIN sess, LookLost(s) PROVE PairInv'
    <3>1. UNCHANGED <<sess, place, reopen, move, del, taking, spent>>
      BY <2>4 DEF LookLost, LookDone, deletes, sides, people
    <3>. QED  BY <1>1, <1>2, <3>1, CalmBefore
  <2>. QED  BY <1>10, <2>1, <2>2, <2>3, <2>4 DEF SweepSteps, Looks, LookSteps
<1>11. CASE Asked
  <2>1. ASSUME NEW s \in DOMAIN sess, RuleChanges(s) PROVE PairInv'
    <3> SUFFICES ASSUME Calm', Here("original")' PROVE PairInv'
      BY <1>3
    <3>1. /\ Mutable /\ ~Recreating(s) /\ s \in Live /\ s \in Ids
          /\ sess[s].root = place
          /\ Reopens({s}, sess[s].root, "rule")
          /\ UNCHANGED <<at, place, move, del, taking>>
      BY <2>1, SessionsListed
      DEF RuleChanges, mirrorFilesSettled, Crossing, Recreating, Shape, deletes, sides, people
    <3>2. Calm
      BY <2>1, CalmBefore DEF RuleChanges
    <3>3. Pair
      BY <1>0, <3>2 DEF PairInv
    <3>4. \A t \in Live' : /\ t \in Live /\ t \in Ids /\ sess'[t].root = sess[t].root
                           /\ t = s => sess'[t].paused
                           /\ t # s => sess'[t] = sess[t]
      <4>1. sess' = With({s}, TRUE)
        BY <3>1 DEF Reopens
      <4>2. \A t \in Live' : /\ t \in Live /\ sess'[t].root = sess[t].root
                             /\ t \in {s} => sess'[t].paused = TRUE
                             /\ t \notin {s} => sess'[t] = sess[t]
        BY <4>1, SessionsAfter
      <4>. QED  BY <4>2, LiveOnes
    <3>5. /\ reopen'[s] = [stage |-> "creating", to |-> place, why |-> "rule"]
          /\ \A t \in Ids : t # s => reopen'[t] = reopen[t]
      BY <3>1 DEF Reopens
    <3>6. \A t \in Ids : /\ t # s => Recreating(t)' = Recreating(t)
                         /\ Leads(t)' => Leads(t)
      BY <3>1, <3>4, <3>5 DEF Recreating, Leads
    <3>7. \A t, u \in Ids : Leads(t)' /\ Leads(u)' => t = u
      BY <3>3, <3>6 DEF Pair
    <3>8. del.stage = "no" /\ taking.stage = "no" /\ move.stage = "no"
      BY <3>1 DEF Mutable, Deleting
    <3>9. \A t \in Live' : Rooted(t)'
      BY <3>1, <3>3, <3>4, <3>8 DEF Pair, Rooted
    <3>10. ASSUME NEW t \in Ids, Recreating(t)'
           PROVE  (t \in Live' => sess'[t].paused) /\ reopen'[t].to = place
      BY <3>3, <3>4, <3>5, <3>6, <3>10 DEF Pair
    <3>11. \A t \in Ids : reopen'[t].stage # "no" => Recreating(t)'
      BY <3>3, <3>5 DEF Pair, Recreating
    <3>. QED  BY <3>1, <3>7, <3>8, <3>9, <3>10, <3>11 DEF PairInv, Pair
  <2>2. ASSUME (\E s \in DOMAIN sess : StopBegins(s) \/ StopKeeps(s)) \/ StopEnds
        PROVE  PairInv'
    <3>1. Fewer
      BY <1>1, <2>2, EndsFewer DEF StopBegins, StopKeeps, StopEnds, engine
    <3>2. UNCHANGED <<place, reopen, move, del, taking>>
      BY <2>2 DEF StopBegins, StopKeeps, StopEnds, deletes, sides
    <3>3. Calm' => Calm
      BY <2>2, CalmBefore DEF StopBegins, StopKeeps, StopEnds
    <3>. QED  BY <1>2, <3>1, <3>2, <3>3
  <2>3. CASE DeleteBegins
    <3>1. UNCHANGED <<sess, place, reopen, move, taking>> /\ \A s \in Ids : ~Recreating(s)
      BY <2>3 DEF DeleteBegins, Reopening, Recreating, engine, sides, people
    <3>2. Calm' => Calm
      BY <2>3, CalmBefore DEF DeleteBegins
    <3>. QED  BY <1>1, <1>5, <3>1, <3>2
  <2>4. CASE DeleteRefused
    BY <1>3, <2>4, CalmBefore DEF DeleteRefused
  <2>5. CASE MoveBegins
    BY <2>5, PairMoves
  <2>6. CASE StopAsks \/ CopyDeleteBegins \/ GoneCopyAges
    <3>1. UNCHANGED <<sess, place, reopen, move, del, taking>>
      BY <2>6 DEF StopAsks, CopyDeleteBegins, GoneCopyAges, deletes, engine, sides, people
    <3>2. Calm' => Calm
      BY <2>6, CalmBefore DEF StopAsks, CopyDeleteBegins, GoneCopyAges
    <3>. QED  BY <1>1, <1>2, <3>1, <3>2
  <2>7. ASSUME NEW s \in Ids, ReopenCut(s) PROVE PairInv'
    BY <1>3, <2>7, CalmBefore DEF ReopenCut
  <2>. QED  BY <1>11, <2>1, <2>2, <2>3, <2>4, <2>5, <2>6, <2>7 DEF Asked
<1>12. CASE AtWork \/ UNCHANGED vars
  <2>1. UNCHANGED <<sess, place, reopen, move, del, taking>>
    BY <1>12 DEF AtWork, Writes, Vanishes, Follow, Cycle, vars, deletes, engine, sides, people
  <2>2. Calm' => Calm
    <3>1. ASSUME NEW x \in Sides, Vanishes(x) PROVE ~Calm'
      BY <3>1, CalmBefore DEF Vanishes
    <3>. QED  BY <1>12, <3>1, CalmBefore DEF AtWork, Writes, Follow, Cycle, vars
  <2>. QED  BY <1>1, <1>2, <2>1, <2>2
<1>13. CASE Troubles
  <2>1. ~Calm'
    BY <1>4, <1>13, CalmBefore
    DEF Troubles, DaemonDies, DaemonComes, AppDies, LinkDrops, LinkComes
  <2>. QED  BY <1>3, <2>1
<1>. QED
  BY <1>6, <1>7, <1>8, <1>9, <1>10, <1>11, <1>12, <1>13 DEF Next, AtWork, Asked, Troubles

\* With nothing ever refused, and no re-open that nobody heard the end of, a pair never
\* has two sessions that sync it, however many deletes, moves, rules, stops and sweeps
\* meet: a new session is made while the old one is paused (recreate), and the old one
\* ends before a move could open it too. A switch of the model lets a move begin inside a
\* re-open, and under it the property is false, as it is once the engine refused to end a
\* session that was replaced, made one without its answer coming back, or made one for a
\* caller that was gone.
THEOREM OneRuns == ASSUME "reopen" \notin Overlaps PROVE Spec => [](Calm => OneRunning)
<1> DEFINE J == Shape /\ TurnInv /\ StoppedInv /\ PairInv
<1>1. Init => J
  <2>1. Init => Shape /\ TurnInv
    BY ShapeStarts, WorkStarts
  <2>2. Init => StoppedInv
    BY DEF Init, NoDelete, StoppedInv, Live
  <2>3. Init => PairInv
    <3> SUFFICES ASSUME Init PROVE PairInv
      OBVIOUS
    <3>1. \A s \in Ids : ~Recreating(s) /\ reopen[s].stage = "no"
      BY DEF Init, Recreating, NoReopen
    <3>2. \A s \in Live : s = 1 /\ sess[s].root = 0
      BY DEF Init, Live
    <3>3. \A s, t \in Ids : Leads(s) /\ Leads(t) => s = t
      BY <3>1, <3>2 DEF Leads, Recreating
    <3>. QED  BY <3>1, <3>2, <3>3 DEF Init, NoDelete, NoMove, Rooted, Pair, PairInv
  <2>. QED  BY <2>1, <2>2, <2>3
<1>2. J /\ [Next]_vars => J'
  BY ShapeKept, TurnKept, StoppedKept, PairKept
<1>3. J => (Calm => OneRunning)
  <2> SUFFICES ASSUME J, Calm, NEW s \in Live, NEW t \in Live, Crossing(s), Crossing(t), s < t
               PROVE  FALSE
    BY DEF OneRunning
  <2>1. Pair /\ s \in Ids /\ t \in Ids /\ ~sess[s].paused /\ ~sess[t].paused
    BY LiveOnes DEF Crossing, PairInv
  <2>2. Leads(s) /\ Leads(t)
    BY <2>1 DEF Leads, Pair
  <2>3. s = t
    BY <2>1, <2>2 DEF Pair
  <2>. QED  BY <2>1, <2>3 DEF Ids
<1>. QED  BY <1>1, <1>2, <1>3, PTL DEF Spec

================================================================================
