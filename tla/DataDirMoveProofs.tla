--------------------------- MODULE DataDirMoveProofs ---------------------------
(***************************************************************************)
(* For any places, processes, worktrees and bounds:                        *)
(*   - every variable of DataDirMove keeps its type, and every step finds  *)
(*     what it relies on (TypeCorrect).  The two are inductive together    *)
(*     (IInv): the journal a step writes goes into a folder that has to be *)
(*     there (FolderShape), by a holder that has to have a journal in      *)
(*     memory (HolderShape);                                               *)
(*   - a worktree's last capture is kept (KeepsTheLastCapture, from        *)
(*     RouteInv and CaptureInv);                                           *)
(*   - a start finds the whole data dir, and a store with the journal of a *)
(*     move refuses writes (FindsTheDataDir, RefusesWhileJournaled, from   *)
(*     FoundInv), unless moves and starts overrun each other (Overrun);    *)
(*   - with two moves at most, a store that writes has nothing left of a   *)
(*     move (StandsWhenOpen) and every step is one the promise to the rest *)
(*     of sm allows (KeepsThePromise), both from Standing.                 *)
(***************************************************************************)
EXTENDS DataDirMove, TLAPS

IInv == TypeOK /\ StepShape

Dirs == [Places -> Folder \cup {None}]

\* A folder with one of its parts set is a folder.
LEMMA FolderParts ==
    ASSUME NEW f \in Folder, NEW b \in BOOLEAN, NEW j \in Journal \cup {None},
           NEW n \in Nat
    PROVE  /\ [f EXCEPT !.refusing = b] \in Folder
           /\ [f EXCEPT !.journal = j] \in Folder
           /\ [f EXCEPT !.count = n] \in Folder
           /\ [f EXCEPT !.kind = "husk"] \in Folder
           /\ [FreshFolder EXCEPT !.journal = j] \in Folder
           /\ FreshFolder \in Folder
           /\ f.journal \in Journal \cup {None}
           /\ f.count \in Nat
           /\ f # None
  BY PlacesAssumption, NoneAssumption DEF Folder, FreshFolder

\* So is one in which a worktree's rows went under another id.
LEMMA FolderRows ==
    ASSUME NEW f \in Folder, NEW w \in Worktrees, NEW p \in Places
    PROVE  /\ [f EXCEPT !.rows[w] = p] \in Folder
           /\ f.rows[w] \in Places
  BY DEF Folder

\* A journal's parts, and a journal with one of them set.
LEMMA JournalParts ==
    ASSUME NEW j \in Journal
    PROVE  /\ j.from \in Places /\ j.to \in Places
           /\ j.partial \in Nat
           /\ j # None
           /\ \A n \in Nat : [j EXCEPT !.partial = n] \in Journal
           /\ \A w \in Worktrees : j.moved[w] \in Entry
  BY NoneAssumption DEF Journal

LEMMA JournalMarked ==
    ASSUME NEW j \in Journal, NEW w \in Worktrees,
           NEW s \in {"none", "planned", "rekeyed", "returned"}
    PROVE  [j EXCEPT !.moved[w].state = s] \in Journal
  BY DEF Journal, Entry

\* The folder at one place replaced.
LEMMA FolderReplaced ==
    ASSUME NEW d \in Dirs, NEW p \in Places, NEW f \in Folder
    PROVE  /\ [d EXCEPT ![p] = f] \in Dirs
           /\ \A q \in Places : d[q] # None => [d EXCEPT ![p] = f][q] # None
  BY NoneAssumption DEF Dirs

\* The triggers made or dropped in the holder's store: a store whose folder
\* is gone changes no folder.
LEMMA RefusingParts ==
    ASSUME DataTypeOK, ProcsTypeOK, FolderShape, holder \in Procs,
           NEW b \in BOOLEAN
    PROVE  /\ Refusing(b) \in Dirs
           /\ \A q \in Places : dir[q] # None => Refusing(b)[q] # None
<1>1. CASE Store = None
  BY <1>1, PlacesAssumption DEF Refusing, DataTypeOK, Dirs
<1>2. CASE Store # None
  <2>1. Store \in Places /\ dir \in Dirs /\ dir[Store] \in Folder
    BY <1>2 DEF DataTypeOK, ProcsTypeOK, FolderShape, Store, Dirs
  <2>2. [dir[Store] EXCEPT !.refusing = b] \in Folder
    BY <2>1, FolderParts
  <2> QED
    BY <2>1, <2>2, FolderReplaced DEF Refusing
<1>3. QED
  BY <1>1, <1>2

\* The journal written where the holder found the data dir, or removed.
LEMMA JournaledParts ==
    ASSUME DataTypeOK, ProcsTypeOK, holder \in Procs, dir[Here] # None,
           NEW j \in Journal \cup {None}
    PROVE  /\ Journaled(j) \in Dirs
           /\ \A q \in Places : dir[q] # None => Journaled(j)[q] # None
<1>1. Here \in Places /\ dir \in Dirs /\ dir[Here] \in Folder
  BY DEF DataTypeOK, ProcsTypeOK, Here, Dirs
<1>2. [dir[Here] EXCEPT !.journal = j] \in Folder
  BY <1>1, FolderParts
<1>3. QED
  BY <1>1, <1>2, FolderReplaced DEF Journaled

\* The one written as a move's first, and the folder it is left in by one cut short.
LEMMA BareParts ==
    ASSUME DataTypeOK, ProcsTypeOK, FolderShape, holder \in Procs, goal \in Places,
           dir[Here] # None, NEW b \in BOOLEAN
    PROVE  /\ Bare \in Journal
           /\ BareLeft(b) \in Dirs
           /\ \A q \in Places : dir[q] # None => BareLeft(b)[q] # None
<1>1. Here \in Places
  BY DEF ProcsTypeOK, Here
<1>2. Bare \in Journal
  BY <1>1 DEF Bare, Journal, Entry, Unlisted, NoPartial, NoCapture
<1>3. Refusing(b) \in Dirs /\ \A q \in Places : dir[q] # None => Refusing(b)[q] # None
  BY RefusingParts
<1>4. Refusing(b)[Here] \in Folder
  BY <1>1, <1>3 DEF Dirs
<1>5. [Refusing(b)[Here] EXCEPT !.journal = Bare] \in Folder
  BY <1>2, <1>4, FolderParts
<1>6. BareLeft(b) = [Refusing(b) EXCEPT ![Here] = [Refusing(b)[Here] EXCEPT !.journal = Bare]]
  BY DEF BareLeft
<1> DEFINE r == Refusing(b)
           f == [r[Here] EXCEPT !.journal = Bare]
<1>7. r \in Dirs /\ Here \in Places /\ f \in Folder /\ BareLeft(b) = [r EXCEPT ![Here] = f]
  BY <1>1, <1>3, <1>5, <1>6
<1> HIDE DEF r, f
<1> DEFINE e == [r EXCEPT ![Here] = f]
<1>8. e \in Dirs /\ \A q \in Places : r[q] # None => e[q] # None
  BY <1>7, FolderReplaced
<1>9. \A q \in Places : dir[q] # None => r[q] # None
  BY <1>3 DEF r
<1>10. QED
  BY <1>2, <1>7, <1>8, <1>9

\* Cited by every step below: the assumptions, the tuples and the sets of steps.
USE PlacesAssumption, ProcsAssumption, WorktreesAssumption, NoneAssumption
    DEF IInv, TypeOK, StepShape, files, data, git, procs, lock, rekey, ghosts,
        budgets, Step, JournalSteps, MovingSteps, RekeySteps, LandedSteps

\* The rescue commits a pointer to one of the places.
LEMMA RescueKeeps ==
    ASSUME IInv, NEW x \in Places, NEW d \in BOOLEAN, Rescue(x, d)
    PROVE  IInv'
<1> USE DEF Rescue, Fault
<1>1. FilesTypeOK' /\ GitTypeOK' /\ CountsTypeOK'
  BY DEF FilesTypeOK, GitTypeOK, CountsTypeOK
<1>2. DataTypeOK'
  BY DEF DataTypeOK
<1>3. ProcsTypeOK'
  BY DEF ProcsTypeOK
<1>4. LockTypeOK'
  BY DEF LockTypeOK
<1>5. HolderShape'
  BY DEF HolderShape, Copy, Here
<1>6. FolderShape'
  BY DEF FolderShape, Here
<1>7. QED
  BY <1>1, <1>2, <1>3, <1>4, <1>5, <1>6

\* A start finds one of the places.
LEMMA LocateKeeps ==
    ASSUME IInv, NEW p \in Procs, Locate(p)
    PROVE  IInv'
<1> USE DEF Locate
<1>1. FilesTypeOK' /\ GitTypeOK' /\ CountsTypeOK'
  BY DEF FilesTypeOK, GitTypeOK, CountsTypeOK
<1>2. DataTypeOK'
  BY DEF DataTypeOK
<1>3. ProcsTypeOK'
  BY JournalParts DEF ProcsTypeOK, LockTypeOK, FilesTypeOK, HolderShape, Named
<1>4. LockTypeOK'
  BY DEF LockTypeOK
<1>5. HolderShape'
  BY DEF HolderShape, Copy, Here
<1>6. FolderShape'
  BY DEF FolderShape, Here, HolderShape, LockTypeOK, ProcsTypeOK
<1>7. QED
  BY <1>1, <1>2, <1>3, <1>4, <1>5, <1>6

\* A store made or opened is at a place that has a folder from then on.
LEMMA OpenKeeps ==
    ASSUME IInv, NEW p \in Procs, Open(p)
    PROVE  IInv'
<1> USE DEF Open
<1>a. /\ at[p] \in Places /\ dir \in Dirs
      /\ dir[at[p]] \in Folder \cup {None}
  BY DEF ProcsTypeOK, DataTypeOK, Dirs
<1>b. Made(dir[at[p]]) \in Folder
  <2>1. CASE dir[at[p]] = None
    BY <2>1, FolderParts DEF Made, FreshFolder, Folder
  <2>2. CASE dir[at[p]] # None
    BY <1>a, <2>2, FolderParts DEF Made
  <2> QED
    BY <2>1, <2>2
<1>c. /\ dir' \in Dirs
      /\ \A q \in Places : dir[q] # None => dir'[q] # None
      /\ dir'[at[p]] # None
  <2>1. dir' = [dir EXCEPT ![at[p]] = Made(dir[at[p]])]
    OBVIOUS
  <2>2. Made(dir[at[p]]) # None
    BY <1>b, NoneAssumption
  <2> QED
    BY <1>a, <1>b, <2>1, <2>2, FolderReplaced DEF Dirs
<1>1. FilesTypeOK' /\ GitTypeOK' /\ CountsTypeOK'
  BY DEF FilesTypeOK, GitTypeOK, CountsTypeOK
<1>2. DataTypeOK'
  BY <1>c DEF DataTypeOK, Dirs
<1>3. ProcsTypeOK'
  BY DEF ProcsTypeOK
<1>4. LockTypeOK'
  BY DEF LockTypeOK
<1>5. HolderShape'
  BY <1>a DEF HolderShape, ProcsTypeOK, LockTypeOK, Copy, Here
<1>6. FolderShape'
  <2>1. (\A q \in Procs : fd[q] # None => dir[fd[q]] # None)'
    BY <1>a, <1>c DEF FolderShape, ProcsTypeOK
  <2>2. (step \in JournalSteps \ LandedSteps => dir[Here] # None)'
    <3>1. SUFFICES ASSUME step \in JournalSteps \ LandedSteps PROVE dir'[Here] # None
      BY DEF Here
    <3>2. holder \in Procs
      BY <3>1 DEF HolderShape, LockTypeOK
    <3>3. dir[Here] # None /\ Here \in Places
      BY <3>1, <3>2 DEF FolderShape, ProcsTypeOK, Here
    <3> QED
      BY <1>c, <3>3
  <2> QED
    BY <2>1, <2>2 DEF FolderShape
<1>7. QED
  BY <1>1, <1>2, <1>3, <1>4, <1>5, <1>6

\* A start holds the lock with its own store open.
LEMMA BeginSettleKeeps ==
    ASSUME IInv, NEW p \in Procs, BeginSettle(p)
    PROVE  IInv'
<1> USE DEF BeginSettle, Hold
<1>1. FilesTypeOK' /\ GitTypeOK' /\ CountsTypeOK'
  BY DEF FilesTypeOK, GitTypeOK, CountsTypeOK
<1>2. DataTypeOK'
  BY DEF DataTypeOK
<1>3. ProcsTypeOK'
  BY DEF ProcsTypeOK
<1>4. LockTypeOK'
  BY DEF LockTypeOK
<1>5. HolderShape'
  BY DEF HolderShape, Copy, Here
<1>6. FolderShape'
  BY DEF FolderShape, Here
<1>7. QED
  BY <1>1, <1>2, <1>3, <1>4, <1>5, <1>6

\* A start that settles nothing changes nothing but itself.
LEMMA SkipSettleKeeps ==
    ASSUME IInv, NEW p \in Procs, SkipSettle(p)
    PROVE  IInv'
<1> USE DEF SkipSettle, Fault
<1>1. FilesTypeOK' /\ GitTypeOK' /\ CountsTypeOK'
  BY DEF FilesTypeOK, GitTypeOK, CountsTypeOK
<1>2. DataTypeOK'
  BY DEF DataTypeOK
<1>3. ProcsTypeOK'
  BY DEF ProcsTypeOK
<1>4. LockTypeOK'
  BY DEF LockTypeOK
<1>5. HolderShape'
  BY DEF HolderShape, Copy, Here
<1>6. FolderShape'
  BY DEF FolderShape, Here
<1>7. QED
  BY <1>1, <1>2, <1>3, <1>4, <1>5, <1>6

\* A store that takes a write is at a place that has a folder.
LEMMA WriteKeeps ==
    ASSUME IInv, NEW p \in Procs, Write(p)
    PROVE  IInv'
<1> USE DEF Write
<1>a. fd[p] \in Places /\ dir \in Dirs /\ dir[fd[p]] \in Folder
  BY DEF ProcsTypeOK, DataTypeOK, FolderShape, Dirs, Refuses
<1>b. [dir[fd[p]] EXCEPT !.count = dir[fd[p]].count + 1] \in Folder
  <2>1. dir[fd[p]].count + 1 \in Nat
    BY <1>a DEF Folder
  <2> QED
    BY <1>a, <2>1 DEF Folder
<1>c. /\ dir' \in Dirs
      /\ \A q \in Places : dir[q] # None => dir'[q] # None
  <2>1. dir' = [dir EXCEPT ![fd[p]] = [dir[fd[p]] EXCEPT !.count = dir[fd[p]].count + 1]]
    OBVIOUS
  <2>2. [dir EXCEPT ![fd[p]] = [dir[fd[p]] EXCEPT !.count = dir[fd[p]].count + 1]] \in Dirs
    BY <1>a, <1>b, FolderReplaced
  <2> QED
    BY <1>a, <1>b, <2>1, <2>2, FolderReplaced
<1>1. FilesTypeOK' /\ GitTypeOK' /\ CountsTypeOK'
  BY DEF FilesTypeOK, GitTypeOK, CountsTypeOK
<1>2. DataTypeOK'
  BY <1>c DEF DataTypeOK, Dirs
<1>3. ProcsTypeOK'
  BY DEF ProcsTypeOK
<1>4. LockTypeOK'
  BY DEF LockTypeOK
<1>5. HolderShape'
  BY <1>a DEF HolderShape, ProcsTypeOK, LockTypeOK, Copy, Here
<1>6. FolderShape'
  <2>1. (\A q \in Procs : fd[q] # None => dir[fd[q]] # None)'
    BY <1>a, <1>c DEF FolderShape, ProcsTypeOK
  <2>2. (step \in JournalSteps \ LandedSteps => dir[Here] # None)'
    <3>1. SUFFICES ASSUME step \in JournalSteps \ LandedSteps PROVE dir'[Here] # None
      BY DEF Here
    <3>2. holder \in Procs
      BY <3>1 DEF HolderShape, LockTypeOK
    <3>3. dir[Here] # None /\ Here \in Places
      BY <3>1, <3>2 DEF FolderShape, ProcsTypeOK, Here
    <3> QED
      BY <1>c, <3>3
  <2> QED
    BY <2>1, <2>2 DEF FolderShape
<1>7. QED
  BY <1>1, <1>2, <1>3, <1>4, <1>5, <1>6

\* A capture is of the worktree's own project, not of a folder.
LEMMA CaptureKeeps ==
    ASSUME IInv, NEW p \in Procs, NEW w \in Worktrees, Capture(p, w)
    PROVE  IInv'
<1> USE DEF Capture
<1>1. FilesTypeOK' /\ GitTypeOK' /\ CountsTypeOK'
  BY DEF FilesTypeOK, GitTypeOK, CountsTypeOK, LockTypeOK, ProcsTypeOK,
      HolderShape
<1>2. DataTypeOK'
  BY DEF DataTypeOK
<1>3. ProcsTypeOK'
  BY DEF ProcsTypeOK
<1>4. LockTypeOK'
  BY DEF LockTypeOK
<1>5. HolderShape'
  BY DEF HolderShape, Copy, Here
<1>6. FolderShape'
  BY DEF FolderShape, Here
<1>7. QED
  BY <1>1, <1>2, <1>3, <1>4, <1>5, <1>6

\* A process that holds the lock does not end of itself.
LEMMA QuitKeeps ==
    ASSUME IInv, NEW p \in Procs, Quit(p)
    PROVE  IInv'
<1> USE DEF Quit
<1>1. FilesTypeOK' /\ GitTypeOK' /\ CountsTypeOK'
  BY DEF FilesTypeOK, GitTypeOK, CountsTypeOK
<1>2. DataTypeOK'
  BY DEF DataTypeOK
<1>3. ProcsTypeOK'
  BY DEF ProcsTypeOK
<1>4. LockTypeOK'
  BY DEF LockTypeOK
<1>5. HolderShape'
  BY DEF HolderShape, Copy, Here
<1>6. FolderShape'
  BY DEF FolderShape, Here
<1>7. QED
  BY <1>1, <1>2, <1>3, <1>4, <1>5, <1>6

\* A holder that dies leaves no step under way.
LEMMA CrashKeeps ==
    ASSUME IInv, NEW p \in Procs, Crash(p)
    PROVE  IInv'
<1> USE DEF Crash, Clear
<1>1. FilesTypeOK' /\ GitTypeOK' /\ CountsTypeOK'
  BY DEF FilesTypeOK, GitTypeOK, CountsTypeOK
<1>2. DataTypeOK'
  BY DEF DataTypeOK
<1>3. ProcsTypeOK'
  BY DEF ProcsTypeOK
<1>4. LockTypeOK'
  BY DEF LockTypeOK
<1>5. HolderShape'
  BY DEF HolderShape, Copy, Here
<1>6. FolderShape'
  BY DEF FolderShape, Here
<1>7. QED
  BY <1>1, <1>2, <1>3, <1>4, <1>5, <1>6

\* A move holds the lock and knows where to.
LEMMA BeginMoveKeeps ==
    ASSUME IInv, NEW x \in Places, BeginMove(x)
    PROVE  IInv'
<1> USE DEF BeginMove, Hold
<1>1. FilesTypeOK' /\ GitTypeOK' /\ CountsTypeOK'
  BY DEF FilesTypeOK, GitTypeOK, CountsTypeOK
<1>2. DataTypeOK'
  BY DEF DataTypeOK
<1>3. ProcsTypeOK'
  BY DEF ProcsTypeOK
<1>4. LockTypeOK'
  BY DEF LockTypeOK
<1>5. HolderShape'
  BY DEF HolderShape, Copy, Here
<1>6. FolderShape'
  BY DEF FolderShape, Here
<1>7. QED
  BY <1>1, <1>2, <1>3, <1>4, <1>5, <1>6

\* A settle that owes nothing goes on to its move, or is done.
LEMMA ResumeNothingKeeps ==
    ASSUME IInv, ResumeNothing
    PROVE  IInv'
<1> USE DEF ResumeNothing, Here, Settled, Release, Goto, Clear
<1>1. FilesTypeOK' /\ GitTypeOK' /\ CountsTypeOK'
  BY DEF FilesTypeOK, GitTypeOK, CountsTypeOK
<1>2. DataTypeOK'
  BY DEF DataTypeOK
<1>3. ProcsTypeOK'
  BY DEF ProcsTypeOK
<1>4. LockTypeOK'
  BY DEF LockTypeOK
<1>5. HolderShape'
  BY DEF HolderShape, Copy, Here
<1>6. FolderShape'
  BY DEF FolderShape, Here
<1>7. QED
  BY <1>1, <1>2, <1>3, <1>4, <1>5, <1>6

\* A store revived keeps its folder.
LEMMA ResumeRefusingKeeps ==
    ASSUME IInv, ResumeRefusing
    PROVE  IInv'
<1> USE DEF ResumeRefusing, Here, Fault, Settled, Release, Goto, Clear
<1>a. holder \in Procs
  BY DEF HolderShape, LockTypeOK
<1>b. \A b \in BOOLEAN : /\ Refusing(b) \in Dirs
                        /\ \A q \in Places : dir[q] # None => Refusing(b)[q] # None
  BY <1>a, RefusingParts
<1>1. FilesTypeOK' /\ GitTypeOK' /\ CountsTypeOK'
  <2>1. FilesTypeOK'
    BY DEF FilesTypeOK
  <2>2. GitTypeOK'
    BY DEF GitTypeOK
  <2>3. CountsTypeOK'
    <3>1. /\ accepted' = accepted /\ latest' = latest
          /\ moves' = moves /\ touches' = touches /\ crashes' = crashes
          /\ faults' \in {faults, faults + 1}
      OBVIOUS
    <3> QED
      BY <3>1 DEF CountsTypeOK
  <2> QED
    BY <2>1, <2>2, <2>3
<1>2. DataTypeOK'
  BY <1>b DEF DataTypeOK, Dirs
<1>3. ProcsTypeOK'
  BY DEF ProcsTypeOK
<1>4. LockTypeOK'
  BY DEF LockTypeOK
<1>5. HolderShape'
  BY DEF HolderShape, Copy, Here
<1>6. FolderShape'
  BY <1>a, <1>b, JournalParts DEF FolderShape, DataTypeOK, LockTypeOK,
      ProcsTypeOK, HolderShape, Dirs
<1>7. QED
  BY <1>1, <1>2, <1>3, <1>4, <1>5, <1>6

\* A settle reads its journal from the folder it is in.
LEMMA ResumeJournalKeeps ==
    ASSUME IInv, ResumeJournal
    PROVE  IInv'
<1> USE DEF ResumeJournal, Goto
<1>a. holder \in Procs
  BY DEF HolderShape, LockTypeOK
<1>b. Here \in Places /\ dir[Here] # None /\ mem' \in Journal
  BY <1>a, FolderParts DEF ProcsTypeOK, DataTypeOK, Here, JournalAt
<1>1. FilesTypeOK' /\ GitTypeOK' /\ CountsTypeOK'
  BY DEF FilesTypeOK, GitTypeOK, CountsTypeOK
<1>2. DataTypeOK'
  BY DEF DataTypeOK
<1>3. ProcsTypeOK'
  BY DEF ProcsTypeOK
<1>4. LockTypeOK'
  BY <1>b DEF LockTypeOK
<1>5. HolderShape'
  BY <1>a, <1>b, NoneAssumption DEF HolderShape, LockTypeOK
<1>6. FolderShape'
  BY <1>a, <1>b DEF FolderShape, Here
<1>7. QED
  BY <1>1, <1>2, <1>3, <1>4, <1>5, <1>6

\* A move refused lets the lock go.
LEMMA RefuseMoveKeeps ==
    ASSUME IInv, RefuseMove
    PROVE  IInv'
<1> USE DEF RefuseMove, Release, Clear
<1>1. FilesTypeOK' /\ GitTypeOK' /\ CountsTypeOK'
  BY DEF FilesTypeOK, GitTypeOK, CountsTypeOK
<1>2. DataTypeOK'
  BY DEF DataTypeOK
<1>3. ProcsTypeOK'
  BY DEF ProcsTypeOK
<1>4. LockTypeOK'
  BY DEF LockTypeOK
<1>5. HolderShape'
  BY DEF HolderShape, Copy, Here
<1>6. FolderShape'
  BY DEF FolderShape, Here
<1>7. QED
  BY <1>1, <1>2, <1>3, <1>4, <1>5, <1>6

\* A staged pointer leads to one of the places.
LEMMA StagePointerKeeps ==
    ASSUME IInv, StagePointer
    PROVE  IInv'
<1> USE DEF StagePointer, Here, Goto
<1>1. FilesTypeOK' /\ GitTypeOK' /\ CountsTypeOK'
  BY DEF FilesTypeOK, GitTypeOK, CountsTypeOK, LockTypeOK, ProcsTypeOK,
      HolderShape
<1>2. DataTypeOK'
  BY DEF DataTypeOK
<1>3. ProcsTypeOK'
  BY DEF ProcsTypeOK
<1>4. LockTypeOK'
  BY DEF LockTypeOK
<1>5. HolderShape'
  BY DEF HolderShape, Copy, Here
<1>6. FolderShape'
  BY DEF FolderShape, Here
<1>7. QED
  BY <1>1, <1>2, <1>3, <1>4, <1>5, <1>6

\* A store retired keeps its folder.
LEMMA RetireStoreKeeps ==
    ASSUME IInv, RetireStore
    PROVE  IInv'
<1> USE DEF RetireStore, Goto
<1>a. holder \in Procs
  BY DEF HolderShape, LockTypeOK
<1>b. \A b \in BOOLEAN : /\ Refusing(b) \in Dirs
                        /\ \A q \in Places : dir[q] # None => Refusing(b)[q] # None
  BY <1>a, RefusingParts
<1>1. FilesTypeOK' /\ GitTypeOK' /\ CountsTypeOK'
  BY DEF FilesTypeOK, GitTypeOK, CountsTypeOK
<1>2. DataTypeOK'
  BY <1>b DEF DataTypeOK, Dirs
<1>3. ProcsTypeOK'
  BY DEF ProcsTypeOK
<1>4. LockTypeOK'
  BY DEF LockTypeOK
<1>5. HolderShape'
  BY DEF HolderShape, Copy, Here
<1>6. FolderShape'
  BY <1>a, <1>b, JournalParts DEF FolderShape, DataTypeOK, LockTypeOK,
      ProcsTypeOK, HolderShape, Dirs
<1>7. QED
  BY <1>1, <1>2, <1>3, <1>4, <1>5, <1>6

\* A move cut before its journal lets the lock go.
LEMMA AbortUnjournaledKeeps ==
    ASSUME IInv, AbortUnjournaled
    PROVE  IInv'
<1> USE DEF AbortUnjournaled, Fault, Release, Clear
<1>a. holder \in Procs
  BY DEF HolderShape, LockTypeOK
<1>b. dir' \in Dirs /\ \A q \in Places : dir[q] # None => dir'[q] # None
  <2>1. PICK b \in BOOLEAN :
          dir' = Refusing(b) \/ (dir[Here] # None /\ dir' = BareLeft(b))
    OBVIOUS
  <2>2. goal \in Places
    BY DEF HolderShape, LockTypeOK
  <2> QED
    BY <1>a, <2>1, <2>2, RefusingParts, BareParts
<1>1. FilesTypeOK' /\ GitTypeOK' /\ CountsTypeOK'
  BY DEF FilesTypeOK, GitTypeOK, CountsTypeOK
<1>2. DataTypeOK'
  BY <1>b DEF DataTypeOK, Dirs
<1>3. ProcsTypeOK'
  BY DEF ProcsTypeOK
<1>4. LockTypeOK'
  BY DEF LockTypeOK
<1>5. HolderShape'
  BY DEF HolderShape, Copy, Here
<1>6. FolderShape'
  BY <1>a, <1>b, JournalParts DEF FolderShape, DataTypeOK, LockTypeOK,
      ProcsTypeOK, HolderShape, Dirs
<1>7. QED
  BY <1>1, <1>2, <1>3, <1>4, <1>5, <1>6

\* The journal is written in the folder the app found.
LEMMA WriteJournalKeeps ==
    ASSUME IInv, WriteJournal
    PROVE  IInv'
<1> USE DEF WriteJournal, Goto
<1>a. holder \in Procs /\ dir[Here] # None
  BY DEF HolderShape, LockTypeOK
<1>b. mem' \in Journal
  BY <1>a, BareParts DEF HolderShape, LockTypeOK
<1>c. /\ Journaled(mem') \in Dirs
      /\ \A q \in Places : dir[q] # None => Journaled(mem')[q] # None
  BY <1>a, <1>b, JournaledParts
<1>1. FilesTypeOK' /\ GitTypeOK' /\ CountsTypeOK'
  BY DEF FilesTypeOK, GitTypeOK, CountsTypeOK
<1>2. DataTypeOK'
  BY <1>c DEF DataTypeOK, Dirs
<1>3. ProcsTypeOK'
  BY DEF ProcsTypeOK
<1>4. LockTypeOK'
  BY <1>b DEF LockTypeOK
<1>5. HolderShape'
  BY <1>a, <1>b, NoneAssumption DEF HolderShape, LockTypeOK
<1>6. FolderShape'
  BY <1>a, <1>c DEF Here, FolderShape, DataTypeOK, LockTypeOK, ProcsTypeOK,
      HolderShape
<1>7. QED
  BY <1>1, <1>2, <1>3, <1>4, <1>5, <1>6

\* The listing is of the journal in memory, written where that one was.
LEMMA PlanKeeps ==
    ASSUME IInv, Plan
    PROVE  IInv'
<1> USE DEF Plan, Goto, Store
<1>a. holder \in Procs /\ dir[Here] # None
  BY DEF HolderShape, FolderShape, LockTypeOK
<1>b. mem' \in Journal
  <2>1. mem \in Journal
    BY DEF HolderShape, LockTypeOK
  <2>2. \A w \in Worktrees : capture[w][mem.from] \in Nat
    BY <2>1, JournalParts DEF GitTypeOK
  <2> QED
    BY <2>1, <2>2 DEF Journal, Entry
<1>c. /\ Journaled(mem') \in Dirs
      /\ \A q \in Places : dir[q] # None => Journaled(mem')[q] # None
  BY <1>a, <1>b, JournaledParts
<1>1. FilesTypeOK' /\ GitTypeOK' /\ CountsTypeOK'
  BY DEF FilesTypeOK, GitTypeOK, CountsTypeOK
<1>2. DataTypeOK'
  BY <1>c DEF DataTypeOK, Dirs
<1>3. ProcsTypeOK'
  BY DEF ProcsTypeOK
<1>4. LockTypeOK'
  BY <1>b DEF LockTypeOK
<1>5. HolderShape'
  BY <1>a, <1>b, NoneAssumption DEF HolderShape, LockTypeOK
<1>6. FolderShape'
  BY <1>a, <1>c DEF Here, FolderShape, DataTypeOK, LockTypeOK, ProcsTypeOK,
      HolderShape
<1>7. QED
  BY <1>1, <1>2, <1>3, <1>4, <1>5, <1>6

\* An undo works from the journal in memory.
LEMMA PlanRefusedKeeps ==
    ASSUME IInv, PlanRefused
    PROVE  IInv'
<1> USE DEF PlanRefused, Fault, Abort, Store, Staged
<1>1. FilesTypeOK' /\ GitTypeOK' /\ CountsTypeOK'
  BY DEF FilesTypeOK, GitTypeOK, CountsTypeOK
<1>2. DataTypeOK'
  BY DEF DataTypeOK
<1>3. ProcsTypeOK'
  BY DEF ProcsTypeOK
<1>4. LockTypeOK'
  BY DEF LockTypeOK
<1>5. HolderShape'
  BY DEF HolderShape, Copy, Here
<1>6. FolderShape'
  BY DEF FolderShape, Here
<1>7. QED
  BY <1>1, <1>2, <1>3, <1>4, <1>5, <1>6

\* A re-key has a worktree.
LEMMA PickRekeyKeeps ==
    ASSUME IInv, NEW w \in Worktrees, PickRekey(w)
    PROVE  IInv'
<1> USE DEF PickRekey, Goto, Store
<1>1. FilesTypeOK' /\ GitTypeOK' /\ CountsTypeOK'
  BY DEF FilesTypeOK, GitTypeOK, CountsTypeOK
<1>2. DataTypeOK'
  BY DEF DataTypeOK
<1>3. ProcsTypeOK'
  BY DEF ProcsTypeOK
<1>4. LockTypeOK'
  BY DEF LockTypeOK
<1>5. HolderShape'
  BY DEF HolderShape, Copy, Here
<1>6. FolderShape'
  BY DEF FolderShape, Here
<1>7. QED
  BY <1>1, <1>2, <1>3, <1>4, <1>5, <1>6

\* A worktree passed over is no longer due.
LEMMA PickNothingKeeps ==
    ASSUME IInv, NEW w \in Worktrees, PickNothing(w)
    PROVE  IInv'
<1> USE DEF PickNothing, Store
<1>1. FilesTypeOK' /\ GitTypeOK' /\ CountsTypeOK'
  BY DEF FilesTypeOK, GitTypeOK, CountsTypeOK
<1>2. DataTypeOK'
  BY DEF DataTypeOK
<1>3. ProcsTypeOK'
  BY DEF ProcsTypeOK
<1>4. LockTypeOK'
  BY DEF LockTypeOK
<1>5. HolderShape'
  BY DEF HolderShape, Copy, Here
<1>6. FolderShape'
  BY DEF FolderShape, Here
<1>7. QED
  BY <1>1, <1>2, <1>3, <1>4, <1>5, <1>6

\* A store whose rows are re-keyed keeps its folder.
LEMMA RekeyRowsKeeps ==
    ASSUME IInv, RekeyRows
    PROVE  IInv'
<1> USE DEF RekeyRows, Goto
<1>a. /\ holder \in Procs /\ cur \in Worktrees /\ mem \in Journal
      /\ Src \in Places /\ Dst \in Places
  BY JournalParts DEF HolderShape, LockTypeOK, Src, Dst
<1>c. /\ dir' \in Dirs
      /\ \A q \in Places : dir[q] # None => dir'[q] # None
  <2>1. CASE Store = None
    BY <2>1 DEF DataTypeOK, Dirs
  <2>2. CASE Store # None
    <3>1. Store \in Places /\ dir \in Dirs /\ dir[Store] \in Folder
      BY <1>a, <2>2 DEF DataTypeOK, ProcsTypeOK, FolderShape, Store, Dirs
    <3>2. \A q \in Places : [dir[Store] EXCEPT !.rows[cur] = q] \in Folder
      BY <1>a, <3>1, FolderRows
    <3>3. [dir[Store] EXCEPT !.rows[cur] = IF @ = Src THEN Dst ELSE @] \in Folder
      BY <1>a, <3>1, <3>2, FolderRows
    <3> QED
      BY <3>1, <3>3, FolderReplaced
  <2> QED
    BY <2>1, <2>2
<1>1. FilesTypeOK' /\ GitTypeOK' /\ CountsTypeOK'
  BY DEF FilesTypeOK, GitTypeOK, CountsTypeOK
<1>2. DataTypeOK'
  BY <1>c DEF DataTypeOK, Dirs
<1>3. ProcsTypeOK'
  BY DEF ProcsTypeOK
<1>4. LockTypeOK'
  BY DEF LockTypeOK
<1>5. HolderShape'
  BY DEF HolderShape, Copy, Here
<1>6. FolderShape'
  BY <1>a, <1>c DEF Here, FolderShape, DataTypeOK, LockTypeOK, ProcsTypeOK,
      HolderShape
<1>7. QED
  BY <1>1, <1>2, <1>3, <1>4, <1>5, <1>6

\* A capture is carried between ids of two places.
LEMMA CarryCaptureKeeps ==
    ASSUME IInv, CarryCapture
    PROVE  IInv'
<1> USE DEF CarryCapture, Goto
<1>1. FilesTypeOK' /\ GitTypeOK' /\ CountsTypeOK'
  <2>1. /\ cur \in Worktrees /\ Src \in Places /\ Dst \in Places
        /\ capture[cur][Src] \in Nat
    BY JournalParts DEF HolderShape, LockTypeOK, Src, Dst, GitTypeOK
  <2> QED
    BY <2>1 DEF FilesTypeOK, GitTypeOK, CountsTypeOK
<1>2. DataTypeOK'
  BY DEF DataTypeOK
<1>3. ProcsTypeOK'
  BY DEF ProcsTypeOK
<1>4. LockTypeOK'
  BY DEF LockTypeOK
<1>5. HolderShape'
  BY DEF HolderShape, Copy, Here
<1>6. FolderShape'
  BY JournalParts DEF FolderShape, DataTypeOK, LockTypeOK, ProcsTypeOK,
      HolderShape, Here
<1>7. QED
  BY <1>1, <1>2, <1>3, <1>4, <1>5, <1>6

\* A capture that is not the journal's fails the move, or is left.
LEMMA LeaveCaptureKeeps ==
    ASSUME IInv, LeaveCapture
    PROVE  IInv'
<1> USE DEF LeaveCapture, Goto, Abort, Staged
<1>1. FilesTypeOK' /\ GitTypeOK' /\ CountsTypeOK'
  BY DEF FilesTypeOK, GitTypeOK, CountsTypeOK
<1>2. DataTypeOK'
  BY DEF DataTypeOK
<1>3. ProcsTypeOK'
  BY DEF ProcsTypeOK
<1>4. LockTypeOK'
  BY DEF LockTypeOK
<1>5. HolderShape'
  BY DEF HolderShape, Copy, Here
<1>6. FolderShape'
  BY DEF FolderShape, Here
<1>7. QED
  BY <1>1, <1>2, <1>3, <1>4, <1>5, <1>6

\* A ref deleted leaves a re-key under way, or fails it.
LEMMA DropCaptureKeeps ==
    ASSUME IInv, DropCapture
    PROVE  IInv'
<1> USE DEF DropCapture, Goto, Failed, Marked, Abort, Staged
<1>1. FilesTypeOK' /\ GitTypeOK' /\ CountsTypeOK'
  BY JournalParts DEF FilesTypeOK, GitTypeOK, CountsTypeOK, LockTypeOK,
      ProcsTypeOK, HolderShape, Src, NoCapture
<1>2. DataTypeOK'
  BY DEF DataTypeOK
<1>3. ProcsTypeOK'
  BY DEF ProcsTypeOK
<1>4. LockTypeOK'
  BY DEF LockTypeOK
<1>5. HolderShape'
  BY DEF HolderShape, Copy, Here
<1>6. FolderShape'
  BY DEF FolderShape, Here
<1>7. QED
  BY <1>1, <1>2, <1>3, <1>4, <1>5, <1>6

\* A mark is written in the folder the journal is in.
LEMMA MarkEntryKeeps ==
    ASSUME IInv, MarkEntry
    PROVE  IInv'
<1> USE DEF MarkEntry, Goto
<1>a. holder \in Procs /\ dir[Here] # None
  BY DEF HolderShape, FolderShape, LockTypeOK
<1>b. mem' \in Journal
  BY JournalMarked DEF Marked, HolderShape, LockTypeOK
<1>c. /\ Journaled(mem') \in Dirs
      /\ \A q \in Places : dir[q] # None => Journaled(mem')[q] # None
  BY <1>a, <1>b, JournaledParts
<1>1. FilesTypeOK' /\ GitTypeOK' /\ CountsTypeOK'
  BY DEF FilesTypeOK, GitTypeOK, CountsTypeOK
<1>2. DataTypeOK'
  BY <1>c DEF DataTypeOK, Dirs
<1>3. ProcsTypeOK'
  BY DEF ProcsTypeOK
<1>4. LockTypeOK'
  BY <1>b DEF LockTypeOK
<1>5. HolderShape'
  BY <1>a, <1>b, NoneAssumption DEF HolderShape, LockTypeOK
<1>6. FolderShape'
  BY <1>a, <1>c DEF Here, FolderShape, DataTypeOK, LockTypeOK, ProcsTypeOK,
      HolderShape
<1>7. QED
  BY <1>1, <1>2, <1>3, <1>4, <1>5, <1>6

\* A re-key that failed has its worktree done with.
LEMMA RekeyFaultKeeps ==
    ASSUME IInv, RekeyFault
    PROVE  IInv'
<1> USE DEF RekeyFault, Fault, Failed, Goto, Abort, Staged
<1>a. mem \in Journal /\ cur \in Worktrees /\ Marked \in Journal
  BY JournalMarked DEF Marked, HolderShape, LockTypeOK
<1>1. FilesTypeOK' /\ GitTypeOK' /\ CountsTypeOK'
  BY DEF FilesTypeOK, GitTypeOK, CountsTypeOK
<1>2. DataTypeOK'
  BY DEF DataTypeOK
<1>3. ProcsTypeOK'
  BY DEF ProcsTypeOK
<1>4. LockTypeOK'
  BY <1>a DEF LockTypeOK
<1>5. HolderShape'
  BY <1>a, NoneAssumption DEF HolderShape, LockTypeOK
<1>6. FolderShape'
  BY JournalParts DEF FolderShape, DataTypeOK, LockTypeOK, ProcsTypeOK,
      HolderShape, Here
<1>7. QED
  BY <1>1, <1>2, <1>3, <1>4, <1>5, <1>6

\* Past the last re-key the app is on its way out.
LEMMA ReleasingKeeps ==
    ASSUME IInv, Releasing
    PROVE  IInv'
<1> USE DEF Releasing, Goto
<1>1. FilesTypeOK' /\ GitTypeOK' /\ CountsTypeOK'
  BY DEF FilesTypeOK, GitTypeOK, CountsTypeOK
<1>2. DataTypeOK'
  BY DEF DataTypeOK
<1>3. ProcsTypeOK'
  BY DEF ProcsTypeOK
<1>4. LockTypeOK'
  BY DEF LockTypeOK
<1>5. HolderShape'
  BY DEF HolderShape, Copy, Here
<1>6. FolderShape'
  BY DEF FolderShape, Here
<1>7. QED
  BY <1>1, <1>2, <1>3, <1>4, <1>5, <1>6

\* Every open store goes where its folder goes, and no other folder leaves.
LEMMA RenameFolderKeeps ==
    ASSUME IInv, RenameFolder
    PROVE  IInv'
<1> USE DEF RenameFolder, Renamed, Goto
<1>1. FilesTypeOK' /\ GitTypeOK' /\ CountsTypeOK'
  BY DEF FilesTypeOK, GitTypeOK, CountsTypeOK
<1>2. DataTypeOK'
  BY JournalParts DEF DataTypeOK, ProcsTypeOK, LockTypeOK, HolderShape
<1>3. ProcsTypeOK'
  BY JournalParts DEF ProcsTypeOK, LockTypeOK, FilesTypeOK, HolderShape
<1>4. LockTypeOK'
  BY DEF LockTypeOK
<1>5. HolderShape'
  BY DEF HolderShape, Copy, Here
<1>6. FolderShape'
  BY JournalParts DEF FolderShape, Here, HolderShape, LockTypeOK, ProcsTypeOK,
      DataTypeOK
<1>7. QED
  BY <1>1, <1>2, <1>3, <1>4, <1>5, <1>6

\* A rename that failed is undone where the folder is, and one that
\* landed lets the lock go.
LEMMA RenameFaultKeeps ==
    ASSUME IInv, RenameFault
    PROVE  IInv'
<1> USE DEF RenameFault, Fault, Abort, Renamed, Release, Staged, Clear
<1>a. /\ mem \in Journal /\ holder \in Procs /\ dir \in Dirs
      /\ mem.from \in Places /\ mem.to \in Places
  BY JournalParts DEF HolderShape, LockTypeOK, DataTypeOK, Dirs
<1>1. FilesTypeOK' /\ GitTypeOK' /\ CountsTypeOK'
  BY DEF FilesTypeOK, GitTypeOK, CountsTypeOK
<1>2. DataTypeOK'
  BY <1>a DEF DataTypeOK, Dirs
<1>3. ProcsTypeOK'
  BY <1>a DEF ProcsTypeOK
<1>4. LockTypeOK'
  BY DEF LockTypeOK
<1>5. HolderShape'
  BY DEF HolderShape, Copy, Here
<1>6. FolderShape'
  <2>1. CASE Abort(mem) /\ UNCHANGED <<dir, fd, status>>
    BY <2>1, <1>a DEF FolderShape, ProcsTypeOK, Here
  <2>2. CASE Renamed /\ Release
    BY <2>2, <1>a DEF FolderShape, ProcsTypeOK, Dirs
  <2> QED
    BY <2>1, <2>2
<1>7. QED
  BY <1>1, <1>2, <1>3, <1>4, <1>5, <1>6

\* The partial is named in the folder the journal is in.
LEMMA CrossVolumesKeeps ==
    ASSUME IInv, CrossVolumes
    PROVE  IInv'
<1> USE DEF CrossVolumes, Goto
<1>a. holder \in Procs /\ dir[Here] # None
  BY DEF HolderShape, FolderShape, LockTypeOK
<1>b. mem' \in Journal
  <2>1. mem \in Journal
    BY DEF HolderShape, LockTypeOK
  <2> QED
    BY <2>1, JournalParts DEF CountsTypeOK
<1>c. /\ Journaled(mem') \in Dirs
      /\ \A q \in Places : dir[q] # None => Journaled(mem')[q] # None
  BY <1>a, <1>b, JournaledParts
<1>1. FilesTypeOK' /\ GitTypeOK' /\ CountsTypeOK'
  BY DEF FilesTypeOK, GitTypeOK, CountsTypeOK
<1>2. DataTypeOK'
  BY <1>c DEF DataTypeOK, Dirs
<1>3. ProcsTypeOK'
  BY DEF ProcsTypeOK
<1>4. LockTypeOK'
  BY <1>b DEF LockTypeOK
<1>5. HolderShape'
  BY <1>a, <1>b, NoneAssumption DEF HolderShape, LockTypeOK
<1>6. FolderShape'
  BY <1>a, <1>c DEF Here, FolderShape, DataTypeOK, LockTypeOK, ProcsTypeOK,
      HolderShape
<1>7. QED
  BY <1>1, <1>2, <1>3, <1>4, <1>5, <1>6

\* A copy begun is no folder yet.
LEMMA StartCopyKeeps ==
    ASSUME IInv, StartCopy
    PROVE  IInv'
<1> USE DEF StartCopy, Goto
<1>1. FilesTypeOK' /\ GitTypeOK' /\ CountsTypeOK'
  BY DEF FilesTypeOK, GitTypeOK, CountsTypeOK
<1>2. DataTypeOK'
  BY JournalParts DEF DataTypeOK, ProcsTypeOK, LockTypeOK, HolderShape
<1>3. ProcsTypeOK'
  BY DEF ProcsTypeOK
<1>4. LockTypeOK'
  BY DEF LockTypeOK
<1>5. HolderShape'
  BY DEF HolderShape, Copy, Here
<1>6. FolderShape'
  BY DEF FolderShape, Here
<1>7. QED
  BY <1>1, <1>2, <1>3, <1>4, <1>5, <1>6

\* A copy landed takes no folder away.
LEMMA LandCopyKeeps ==
    ASSUME IInv, LandCopy
    PROVE  IInv'
<1> USE DEF LandCopy, Landed, Goto
<1>1. FilesTypeOK' /\ GitTypeOK' /\ CountsTypeOK'
  BY DEF FilesTypeOK, GitTypeOK, CountsTypeOK
<1>2. DataTypeOK'
  BY JournalParts DEF DataTypeOK, ProcsTypeOK, LockTypeOK, HolderShape
<1>3. ProcsTypeOK'
  BY DEF ProcsTypeOK
<1>4. LockTypeOK'
  BY DEF LockTypeOK
<1>5. HolderShape'
  BY DEF HolderShape, Copy, Here
<1>6. FolderShape'
  BY DEF FolderShape, Here
<1>7. QED
  BY <1>1, <1>2, <1>3, <1>4, <1>5, <1>6

\* A copy that failed, landed or not, is undone where the folder still is.
LEMMA CopyFaultKeeps ==
    ASSUME IInv, CopyFault
    PROVE  IInv'
<1> USE DEF CopyFault, Fault, Landed, Abort, Staged
<1>a. mem \in Journal /\ holder \in Procs /\ dir \in Dirs
  BY DEF HolderShape, LockTypeOK, DataTypeOK, Dirs
<1>b. /\ dir' \in Dirs
      /\ partials' \subseteq Nat
  BY <1>a, JournalParts DEF DataTypeOK, Dirs
<1>1. FilesTypeOK' /\ GitTypeOK' /\ CountsTypeOK'
  BY DEF FilesTypeOK, GitTypeOK, CountsTypeOK
<1>2. DataTypeOK'
  BY <1>b DEF DataTypeOK, Dirs
<1>3. ProcsTypeOK'
  BY DEF ProcsTypeOK
<1>4. LockTypeOK'
  BY DEF LockTypeOK
<1>5. HolderShape'
  BY DEF HolderShape, Copy, Here
<1>6. FolderShape'
  <2>1. step' \in JournalSteps \ LandedSteps /\ Here' = Here
    BY DEF Here
  <2>2. dir[Here] # None
    BY DEF FolderShape
  <2>3. \A q \in Places : dir[q] # None => dir'[q] # None
    BY <1>a, JournalParts DEF Dirs
  <2>4. Here \in Places /\ \A q \in Procs : fd[q] \in Places \cup {None}
    BY <1>a DEF Here, ProcsTypeOK
  <2> QED
    BY <2>1, <2>2, <2>3, <2>4 DEF FolderShape
<1>7. QED
  BY <1>1, <1>2, <1>3, <1>4, <1>5, <1>6

\* The pointer committed leads to one of the places.
LEMMA CommitPointerKeeps ==
    ASSUME IInv, CommitPointer
    PROVE  IInv'
<1> USE DEF CommitPointer, Staged, Goto
<1>1. FilesTypeOK' /\ GitTypeOK' /\ CountsTypeOK'
  BY DEF FilesTypeOK, GitTypeOK, CountsTypeOK
<1>2. DataTypeOK'
  BY DEF DataTypeOK
<1>3. ProcsTypeOK'
  BY DEF ProcsTypeOK
<1>4. LockTypeOK'
  BY DEF LockTypeOK
<1>5. HolderShape'
  BY DEF HolderShape, Copy, Here
<1>6. FolderShape'
  BY DEF FolderShape, Here
<1>7. QED
  BY <1>1, <1>2, <1>3, <1>4, <1>5, <1>6

\* The pre-2.0 pointer gone leaves the other.
LEMMA ClearLegacyKeeps ==
    ASSUME IInv, ClearLegacy
    PROVE  IInv'
<1> USE DEF ClearLegacy, Goto
<1>1. FilesTypeOK' /\ GitTypeOK' /\ CountsTypeOK'
  BY DEF FilesTypeOK, GitTypeOK, CountsTypeOK
<1>2. DataTypeOK'
  BY DEF DataTypeOK
<1>3. ProcsTypeOK'
  BY DEF ProcsTypeOK
<1>4. LockTypeOK'
  BY DEF LockTypeOK
<1>5. HolderShape'
  BY DEF HolderShape, Copy, Here
<1>6. FolderShape'
  BY DEF FolderShape, Here
<1>7. QED
  BY <1>1, <1>2, <1>3, <1>4, <1>5, <1>6

\* A move done lets the lock go.
LEMMA RelinkAndEndKeeps ==
    ASSUME IInv, RelinkAndEnd
    PROVE  IInv'
<1> USE DEF RelinkAndEnd, Fault, Release, Clear
<1>1. FilesTypeOK' /\ GitTypeOK' /\ CountsTypeOK'
  BY JournalParts DEF FilesTypeOK, GitTypeOK, CountsTypeOK, LockTypeOK,
      ProcsTypeOK, HolderShape
<1>2. DataTypeOK'
  BY DEF DataTypeOK
<1>3. ProcsTypeOK'
  BY DEF ProcsTypeOK
<1>4. LockTypeOK'
  BY DEF LockTypeOK
<1>5. HolderShape'
  BY DEF HolderShape, Copy, Here
<1>6. FolderShape'
  BY DEF FolderShape, Here
<1>7. QED
  BY <1>1, <1>2, <1>3, <1>4, <1>5, <1>6

\* A move cut past its landing lets the lock go.
LEMMA StopLandedKeeps ==
    ASSUME IInv, StopLanded
    PROVE  IInv'
<1> USE DEF StopLanded, Fault, Release, Clear
<1>1. FilesTypeOK' /\ GitTypeOK' /\ CountsTypeOK'
  BY DEF FilesTypeOK, GitTypeOK, CountsTypeOK
<1>2. DataTypeOK'
  BY DEF DataTypeOK
<1>3. ProcsTypeOK'
  BY DEF ProcsTypeOK
<1>4. LockTypeOK'
  BY DEF LockTypeOK
<1>5. HolderShape'
  BY DEF HolderShape, Copy, Here
<1>6. FolderShape'
  BY DEF FolderShape, Here
<1>7. QED
  BY <1>1, <1>2, <1>3, <1>4, <1>5, <1>6

\* An undo whose re-keys are done goes on to its copy.
LEMMA UndoneRekeysKeeps ==
    ASSUME IInv, UndoneRekeys
    PROVE  IInv'
<1> USE DEF UndoneRekeys, Goto
<1>1. FilesTypeOK' /\ GitTypeOK' /\ CountsTypeOK'
  BY DEF FilesTypeOK, GitTypeOK, CountsTypeOK
<1>2. DataTypeOK'
  BY DEF DataTypeOK
<1>3. ProcsTypeOK'
  BY DEF ProcsTypeOK
<1>4. LockTypeOK'
  BY DEF LockTypeOK
<1>5. HolderShape'
  BY DEF HolderShape, Copy, Here
<1>6. FolderShape'
  BY DEF FolderShape, Here
<1>7. QED
  BY <1>1, <1>2, <1>3, <1>4, <1>5, <1>6

\* A copy being removed is not the folder the holder is in.
LEMMA UnmakeKeeps ==
    ASSUME IInv, Unmake
    PROVE  IInv'
<1> USE DEF Unmake, Closed, Goto, AfterCopy, Here
<1>a. /\ mem \in Journal /\ holder \in Procs /\ dir \in Dirs
      /\ Copy \in Places
  BY JournalParts DEF HolderShape, LockTypeOK, DataTypeOK, Dirs, Copy
<1>b. /\ dir' \in Dirs
      /\ \A q \in Places : dir[q] # None => dir'[q] # None
  <2>1. CASE OwnCopy
    <3>1. dir[Copy] \in Folder
      BY <1>a, <2>1 DEF OwnCopy, JournalAt, Dirs
    <3>2. [dir[Copy] EXCEPT !.kind = "husk"] \in Folder
      BY <3>1, FolderParts
    <3>3. dir' = [dir EXCEPT ![Copy] = [dir[Copy] EXCEPT !.kind = "husk"]]
      BY <2>1
    <3> HIDE DEF Unmake
    <3> QED
      BY <1>a, <3>2, <3>3, FolderReplaced
  <2>2. CASE ~OwnCopy
    BY <1>a, <2>2
  <2> QED
    BY <2>1, <2>2
<1>1. FilesTypeOK' /\ GitTypeOK' /\ CountsTypeOK'
  BY DEF FilesTypeOK, GitTypeOK, CountsTypeOK
<1>2. DataTypeOK'
  BY <1>b DEF DataTypeOK, Dirs
<1>3. ProcsTypeOK'
  BY DEF ProcsTypeOK
<1>4. LockTypeOK'
  BY DEF LockTypeOK
<1>5. HolderShape'
  BY <1>a, <1>b, NoneAssumption DEF HolderShape, LockTypeOK, ProcsTypeOK,
      OwnCopy, Copy
<1>6. FolderShape'
  BY <1>a, <1>b DEF FolderShape, ProcsTypeOK
<1>7. QED
  BY <1>1, <1>2, <1>3, <1>4, <1>5, <1>6

\* A copy removed closes the stores open in it.
LEMMA UnmakeHuskKeeps ==
    ASSUME IInv, UnmakeHusk
    PROVE  IInv'
<1> USE DEF UnmakeHusk, Copy, Closed, Goto, AfterCopy
<1>1. FilesTypeOK' /\ GitTypeOK' /\ CountsTypeOK'
  BY DEF FilesTypeOK, GitTypeOK, CountsTypeOK
<1>2. DataTypeOK'
  BY DEF DataTypeOK
<1>3. ProcsTypeOK'
  BY DEF ProcsTypeOK
<1>4. LockTypeOK'
  BY DEF LockTypeOK
<1>5. HolderShape'
  BY DEF HolderShape, Copy, Here
<1>6. FolderShape'
  BY DEF FolderShape, Here, HolderShape, LockTypeOK, ProcsTypeOK
<1>7. QED
  BY <1>1, <1>2, <1>3, <1>4, <1>5, <1>6

\* A copy that can't be removed is left.
LEMMA UnmakeFaultKeeps ==
    ASSUME IInv, UnmakeFault
    PROVE  IInv'
<1> USE DEF UnmakeFault, Fault, Goto, AfterCopy
<1>1. FilesTypeOK' /\ GitTypeOK' /\ CountsTypeOK'
  BY DEF FilesTypeOK, GitTypeOK, CountsTypeOK
<1>2. DataTypeOK'
  BY DEF DataTypeOK
<1>3. ProcsTypeOK'
  BY DEF ProcsTypeOK
<1>4. LockTypeOK'
  BY DEF LockTypeOK
<1>5. HolderShape'
  BY DEF HolderShape, Copy, Here
<1>6. FolderShape'
  BY DEF FolderShape, Here
<1>7. QED
  BY <1>1, <1>2, <1>3, <1>4, <1>5, <1>6

\* Git's links lead to one of the places.
LEMMA RepairKeeps ==
    ASSUME IInv, Repair
    PROVE  IInv'
<1> USE DEF Repair, Here, Fault, Goto
<1>1. FilesTypeOK' /\ GitTypeOK' /\ CountsTypeOK'
  BY DEF FilesTypeOK, GitTypeOK, CountsTypeOK, LockTypeOK, ProcsTypeOK,
      HolderShape
<1>2. DataTypeOK'
  BY DEF DataTypeOK
<1>3. ProcsTypeOK'
  BY DEF ProcsTypeOK
<1>4. LockTypeOK'
  BY DEF LockTypeOK
<1>5. HolderShape'
  BY DEF HolderShape, Copy, Here
<1>6. FolderShape'
  BY DEF FolderShape, Here
<1>7. QED
  BY <1>1, <1>2, <1>3, <1>4, <1>5, <1>6

\* A settle that could not finish keeps its journal.
LEMMA KeepJournalKeeps ==
    ASSUME IInv, KeepJournal
    PROVE  IInv'
<1> USE DEF KeepJournal, Fault, Settled, Release, Goto, Clear
<1>1. FilesTypeOK' /\ GitTypeOK' /\ CountsTypeOK'
  BY DEF FilesTypeOK, GitTypeOK, CountsTypeOK
<1>2. DataTypeOK'
  BY DEF DataTypeOK
<1>3. ProcsTypeOK'
  BY DEF ProcsTypeOK
<1>4. LockTypeOK'
  BY DEF LockTypeOK
<1>5. HolderShape'
  BY DEF HolderShape, Copy, Here
<1>6. FolderShape'
  BY DEF FolderShape, Here
<1>7. QED
  BY <1>1, <1>2, <1>3, <1>4, <1>5, <1>6

\* The journal removed leaves its folder.
LEMMA LetGoKeeps ==
    ASSUME IInv, LetGo
    PROVE  IInv'
<1> USE DEF LetGo, Goto
<1>a. holder \in Procs /\ dir[Here] # None
  BY DEF HolderShape, FolderShape, LockTypeOK
<1>c. /\ Journaled(None) \in Dirs
      /\ \A q \in Places : dir[q] # None => Journaled(None)[q] # None
  BY <1>a, JournaledParts
<1>1. FilesTypeOK' /\ GitTypeOK' /\ CountsTypeOK'
  BY DEF FilesTypeOK, GitTypeOK, CountsTypeOK
<1>2. DataTypeOK'
  BY <1>c DEF DataTypeOK, Dirs
<1>3. ProcsTypeOK'
  BY DEF ProcsTypeOK
<1>4. LockTypeOK'
  BY DEF LockTypeOK
<1>5. HolderShape'
  BY DEF HolderShape, Copy, Here
<1>6. FolderShape'
  BY <1>a, <1>c DEF Here, FolderShape, DataTypeOK, LockTypeOK, ProcsTypeOK,
      HolderShape
<1>7. QED
  BY <1>1, <1>2, <1>3, <1>4, <1>5, <1>6

\* A store revived keeps its folder.
LEMMA ReviveStoreKeeps ==
    ASSUME IInv, ReviveStore
    PROVE  IInv'
<1> USE DEF ReviveStore, Fault, Settled, Release, Goto, Clear
<1>a. holder \in Procs
  BY DEF HolderShape, LockTypeOK
<1>b. \A b \in BOOLEAN : /\ Refusing(b) \in Dirs
                        /\ \A q \in Places : dir[q] # None => Refusing(b)[q] # None
  BY <1>a, RefusingParts
<1>1. FilesTypeOK' /\ GitTypeOK' /\ CountsTypeOK'
  <2>1. FilesTypeOK'
    BY DEF FilesTypeOK
  <2>2. GitTypeOK'
    BY DEF GitTypeOK
  <2>3. CountsTypeOK'
    <3>1. /\ accepted' = accepted /\ latest' = latest
          /\ moves' = moves /\ touches' = touches /\ crashes' = crashes
          /\ faults' \in {faults, faults + 1}
      OBVIOUS
    <3> QED
      BY <3>1 DEF CountsTypeOK
  <2> QED
    BY <2>1, <2>2, <2>3
<1>2. DataTypeOK'
  BY <1>b DEF DataTypeOK, Dirs
<1>3. ProcsTypeOK'
  BY DEF ProcsTypeOK
<1>4. LockTypeOK'
  BY DEF LockTypeOK
<1>5. HolderShape'
  BY DEF HolderShape, Copy, Here
<1>6. FolderShape'
  BY <1>a, <1>b, JournalParts DEF FolderShape, DataTypeOK, LockTypeOK,
      ProcsTypeOK, HolderShape, Dirs
<1>7. QED
  BY <1>1, <1>2, <1>3, <1>4, <1>5, <1>6

--------------------------------------------------------------------------------

\* A data dir as it is before anything moved it is well typed.
LEMMA InitHolds == Init => IInv
<1> SUFFICES ASSUME Init PROVE IInv
  OBVIOUS
<1> USE PlacesAssumption, ProcsAssumption, NoneAssumption DEF Init, Step
<1>1. Named \in Places
  BY DEF InitFiles, Named
<1>2. dir \in Dirs
  BY <1>1 DEF Dirs, Folder, Journal
<1>3. FilesTypeOK /\ DataTypeOK
  BY <1>2 DEF FilesTypeOK, DataTypeOK, InitFiles, Dirs
<1>4. GitTypeOK /\ CountsTypeOK
  <2>1. latest \in [Worktrees -> Nat]
    BY DEF NoCapture
  <2>2. capture \in [Worktrees -> [Places -> Nat]]
    BY <2>1 DEF NoCapture
  <2> QED
    BY <1>1, <2>1, <2>2 DEF GitTypeOK, CountsTypeOK
<1>5. ProcsTypeOK /\ LockTypeOK
  BY <1>1 DEF ProcsTypeOK, LockTypeOK
<1>6. HolderShape /\ FolderShape
  BY DEF HolderShape, FolderShape, JournalSteps, MovingSteps, RekeySteps
<1>7. QED
  BY <1>3, <1>4, <1>5, <1>6 DEF IInv, TypeOK, StepShape

\* A step of the lock's holder keeps the invariant.
LEMMA HolderStepKeeps == ASSUME IInv, HolderStep PROVE IInv'
<1>1. CASE ResumeStep
  BY <1>1, ResumeNothingKeeps, ResumeRefusingKeeps, ResumeJournalKeeps
     DEF ResumeStep
<1>2. CASE PrepareStep
  BY <1>2, RefuseMoveKeeps, StagePointerKeeps, RetireStoreKeeps,
     AbortUnjournaledKeeps, WriteJournalKeeps, PlanKeeps, PlanRefusedKeeps
     DEF PrepareStep
<1>3. CASE RekeyStep
  BY <1>3, PickRekeyKeeps, PickNothingKeeps, RekeyRowsKeeps, CarryCaptureKeeps,
     LeaveCaptureKeeps, DropCaptureKeeps, MarkEntryKeeps, RekeyFaultKeeps
     DEF RekeyStep
<1>4. CASE LandStep
  BY <1>4, ReleasingKeeps, RenameFolderKeeps, RenameFaultKeeps,
     CrossVolumesKeeps, StartCopyKeeps, LandCopyKeeps, CopyFaultKeeps,
     CommitPointerKeeps, ClearLegacyKeeps, RelinkAndEndKeeps, StopLandedKeeps
     DEF LandStep
<1>5. CASE EndStep
  BY <1>5, UndoneRekeysKeeps, UnmakeKeeps, UnmakeHuskKeeps, UnmakeFaultKeeps,
     RepairKeeps, KeepJournalKeeps, LetGoKeeps, ReviveStoreKeeps DEF EndStep
<1>6. QED
  BY <1>1, <1>2, <1>3, <1>4, <1>5 DEF HolderStep

\* So does every other step, and a step of something else.
LEMMA NextKeeps == IInv /\ [Next]_vars => IInv'
<1> SUFFICES ASSUME IInv, [Next]_vars PROVE IInv'
  OBVIOUS
<1>1. CASE HolderStep
  BY <1>1, HolderStepKeeps
<1>2. ASSUME NEW p \in Procs,
             StartStep(p) \/ Open(p) \/ Write(p) \/ Quit(p) \/ Crash(p)
      PROVE  IInv'
  BY <1>2, LocateKeeps, BeginSettleKeeps, SkipSettleKeeps, OpenKeeps, WriteKeeps,
     QuitKeeps, CrashKeeps DEF StartStep
<1>3. ASSUME NEW p \in Procs, NEW w \in Worktrees, Capture(p, w) PROVE IInv'
  BY <1>3, CaptureKeeps
<1>4. ASSUME NEW p \in Places, BeginMove(p) PROVE IInv'
  BY <1>4, BeginMoveKeeps
<1>5. ASSUME NEW p \in Places, NEW dropped \in BOOLEAN, Rescue(p, dropped)
      PROVE  IInv'
  BY <1>5, RescueKeeps
<1>6. CASE UNCHANGED vars
  <2> USE <1>6 DEF vars, files, data, git, procs, lock, rekey, ghosts, budgets
  <2>1. FilesTypeOK' /\ DataTypeOK' /\ GitTypeOK' /\ CountsTypeOK'
    BY DEF IInv, TypeOK, FilesTypeOK, DataTypeOK, GitTypeOK, CountsTypeOK
  <2>2. ProcsTypeOK' /\ LockTypeOK'
    BY DEF IInv, TypeOK, ProcsTypeOK, LockTypeOK
  <2>3. HolderShape' /\ FolderShape'
    BY DEF IInv, StepShape, HolderShape, FolderShape, Copy, Here
  <2> QED
    BY <2>1, <2>2, <2>3 DEF IInv, TypeOK, StepShape
<1>7. QED
  BY <1>1, <1>2, <1>3, <1>4, <1>5, <1>6 DEF Next

\* Every variable keeps its type and every step finds what it relies on,
\* whatever moves, crashes and failures came before it: a step that writes the
\* journal has a folder to write it in, one that re-keys has a worktree, and
\* no process is left with an open store at a place with no folder.
THEOREM TypeCorrect == Spec => [](TypeOK /\ StepShape)
<1>1. Init => IInv
  BY InitHolds
<1>2. IInv /\ [Next]_vars => IInv'
  BY NextKeeps
<1>3. IInv => TypeOK /\ StepShape
  BY DEF IInv
<1>4. QED
  BY <1>1, <1>2, <1>3, PTL DEF Spec

--------------------------------------------------------------------------------
(* A worktree's last capture is kept.                                        *)
(* The old ref goes only once the new one holds what it held (CarriedInv),   *)
(* and the two are refs under different ids (RouteInv): no journal, in       *)
(* memory or on disk, moves a folder to where it is.                         *)

\* What the triggers made or dropped change: one folder's answer to writes.
LEMMA RefusingEffect ==
    ASSUME IInv, holder \in Procs, NEW b \in BOOLEAN, NEW q \in Places
    PROVE  /\ Refusing(b)[q] = None <=> dir[q] = None
           /\ dir[q] # None =>
                /\ Refusing(b)[q].kind = dir[q].kind
                /\ Refusing(b)[q].count = dir[q].count
                /\ Refusing(b)[q].rows = dir[q].rows
                /\ Refusing(b)[q].journal = dir[q].journal
                /\ Refusing(b)[q].refusing = IF q = Store THEN b ELSE dir[q].refusing
<1>1. /\ dir \in Dirs /\ dir[q] \in Folder \cup {None}
      /\ Store \in Places \cup {None}
      /\ Store # None => dir[Store] # None /\ dir[Store] \in Folder
  BY DEF DataTypeOK, ProcsTypeOK, FolderShape, Store, Dirs
<1>2. CASE q # Store
  BY <1>1, <1>2 DEF Refusing, Dirs
<1>3. CASE q = Store
  <2>1. Refusing(b)[q] = [dir[q] EXCEPT !.refusing = b]
    BY <1>1, <1>3 DEF Refusing, Dirs
  <2>2. dir[q] \in Folder
    BY <1>1, <1>3
  <2>3. [dir[q] EXCEPT !.refusing = b] \in Folder /\ dir[q] # None
    BY <2>2, FolderParts
  <2> QED
    BY <1>1, <1>3, <2>1, <2>2, <2>3 DEF Folder
<1>4. QED
  BY <1>2, <1>3

\* What a journal written or removed changes: that folder's journal.
LEMMA JournaledEffect ==
    ASSUME IInv, holder \in Procs, dir[Here] # None,
           NEW j \in Journal \cup {None}, NEW q \in Places
    PROVE  /\ Journaled(j)[q] = None <=> dir[q] = None
           /\ dir[q] # None =>
                /\ Journaled(j)[q].kind = dir[q].kind
                /\ Journaled(j)[q].count = dir[q].count
                /\ Journaled(j)[q].rows = dir[q].rows
                /\ Journaled(j)[q].refusing = dir[q].refusing
                /\ Journaled(j)[q].journal = IF q = Here THEN j ELSE dir[q].journal
<1>1. /\ dir \in Dirs /\ dir[q] \in Folder \cup {None}
      /\ Here \in Places /\ dir[Here] \in Folder
  BY DEF DataTypeOK, ProcsTypeOK, Here, Dirs
<1>2. CASE q # Here
  BY <1>1, <1>2 DEF Journaled, Dirs
<1>3. CASE q = Here
  <2>1. Journaled(j)[q] = [dir[q] EXCEPT !.journal = j]
    BY <1>1, <1>3 DEF Journaled, Dirs
  <2>2. [dir[q] EXCEPT !.journal = j] \in Folder
    BY <1>1, <1>3, FolderParts
  <2> QED
    BY <1>1, <1>3, <2>1, <2>2 DEF Folder
<1>4. QED
  BY <1>2, <1>3

\* What a journal left as a move was cut short changes.
LEMMA BareEffect ==
    ASSUME IInv, holder \in Procs, goal \in Places, dir[Here] # None,
           NEW b \in BOOLEAN, NEW q \in Places
    PROVE  /\ BareLeft(b)[q] = None <=> dir[q] = None
           /\ dir[q] # None =>
                /\ BareLeft(b)[q].kind = dir[q].kind
                /\ BareLeft(b)[q].count = dir[q].count
                /\ BareLeft(b)[q].rows = dir[q].rows
                /\ BareLeft(b)[q].refusing = IF q = Store THEN b ELSE dir[q].refusing
                /\ BareLeft(b)[q].journal = IF q = Here THEN Bare ELSE dir[q].journal
<1>1. Refusing(b) \in Dirs /\ Here \in Places /\ Refusing(b)[Here] # None
  BY RefusingParts DEF ProcsTypeOK, Here
<1>2. CASE q # Here
  BY <1>1, <1>2, RefusingEffect DEF BareLeft, Dirs
<1>3. CASE q = Here
  <2>1. BareLeft(b)[q] = [Refusing(b)[q] EXCEPT !.journal = Bare]
    BY <1>1, <1>3 DEF BareLeft, Dirs
  <2>2. Refusing(b)[q] \in Folder
    BY <1>1, <1>3 DEF Dirs
  <2>3. [Refusing(b)[q] EXCEPT !.journal = Bare] \in Folder
    BY <2>2, BareParts, FolderParts
  <2>4. [Refusing(b)[q] EXCEPT !.journal = Bare] # None
    BY <2>3, FolderParts
  <2>5. /\ BareLeft(b)[q].kind = Refusing(b)[q].kind
        /\ BareLeft(b)[q].count = Refusing(b)[q].count
        /\ BareLeft(b)[q].rows = Refusing(b)[q].rows
        /\ BareLeft(b)[q].refusing = Refusing(b)[q].refusing
        /\ BareLeft(b)[q].journal = Bare
    BY <2>1, <2>2 DEF Folder
  <2> QED
    BY <1>3, <2>1, <2>4, <2>5, RefusingEffect
<1>4. QED
  BY <1>2, <1>3

\* What a store opened changes: a folder is made where there was none, and
\* a husk is given a new store under its journal.
LEMMA OpenEffect ==
    ASSUME IInv, NEW p \in Procs, Open(p), NEW q \in Places
    PROVE  /\ at[p] \in Places /\ dir'[at[p]] # None
           /\ q # at[p] => dir'[q] = dir[q]
           /\ dir[q] # None /\ dir[q].kind # "husk" => dir'[q] = dir[q]
           /\ dir[q] # None => dir'[q].journal = dir[q].journal
           /\ dir[q] = None /\ q = at[p] =>
                dir'[q].kind = "fresh" /\ ~dir'[q].refusing /\ dir'[q].journal = None
<1>1. /\ dir \in Dirs /\ dir[q] \in Folder \cup {None} /\ at[p] \in Places
      /\ dir[at[p]] \in Folder \cup {None}
  BY DEF DataTypeOK, ProcsTypeOK, Dirs
<1>2. dir' = [dir EXCEPT ![at[p]] = Made(dir[at[p]])]
  BY DEF Open
<1>3. dir'[at[p]] = Made(dir[at[p]]) /\ (q # at[p] => dir'[q] = dir[q])
  BY <1>1, <1>2 DEF Dirs
<1>4. ASSUME NEW f \in Folder
      PROVE  /\ Made(f) \in Folder /\ Made(f).journal = f.journal
             /\ f.kind # "husk" => Made(f) = f
  <2>1. f # None /\ f.journal \in Journal \cup {None}
    BY FolderParts
  <2>2. [FreshFolder EXCEPT !.journal = f.journal] \in Folder
    BY <2>1, FolderParts
  <2>3. [FreshFolder EXCEPT !.journal = f.journal].journal = f.journal
    BY DEF FreshFolder
  <2> QED
    BY <2>1, <2>2, <2>3 DEF Made
<1>5. Made(None) = FreshFolder /\ FreshFolder \in Folder
  BY FolderParts, <1>1 DEF Made, FreshFolder, Folder
<1>6. Made(dir[at[p]]) # None
  BY <1>1, <1>4, <1>5, NoneAssumption
<1>7. QED
  BY <1>1, <1>3, <1>4, <1>5, <1>6 DEF FreshFolder

\* What a write changes: one store's count.
LEMMA WriteEffect ==
    ASSUME IInv, NEW p \in Procs, Write(p), NEW q \in Places
    PROVE  /\ fd[p] \in Places /\ ~dir[fd[p]].refusing
           /\ dir'[q] = None <=> dir[q] = None
           /\ dir[q] # None =>
                /\ dir'[q].kind = dir[q].kind
                /\ dir'[q].rows = dir[q].rows
                /\ dir'[q].journal = dir[q].journal
                /\ dir'[q].refusing = dir[q].refusing
                /\ dir'[q].count = IF q = fd[p] THEN dir[q].count + 1 ELSE dir[q].count
<1>1. /\ dir \in Dirs /\ dir[q] \in Folder \cup {None}
      /\ fd[p] \in Places /\ dir[fd[p]] \in Folder /\ ~dir[fd[p]].refusing
  BY DEF Write, ProcsTypeOK, DataTypeOK, FolderShape, Dirs, Refuses
<1>2. dir' = [dir EXCEPT ![fd[p]].count = @ + 1]
  BY DEF Write
<1>3. CASE q # fd[p]
  BY <1>1, <1>2, <1>3 DEF Dirs
<1>4. CASE q = fd[p]
  <2>1. dir'[q] = [dir[q] EXCEPT !.count = dir[q].count + 1]
    BY <1>1, <1>2, <1>4 DEF Dirs
  <2>2. dir[q].count + 1 \in Nat
    BY <1>1, <1>4 DEF Folder
  <2>3. [dir[q] EXCEPT !.count = dir[q].count + 1] \in Folder
    BY <1>1, <1>4, <2>2, FolderParts
  <2> QED
    BY <1>1, <1>4, <2>1, <2>3 DEF Folder
<1>5. QED
  BY <1>1, <1>3, <1>4

\* What a re-key of rows changes: one store's rows.
LEMMA RowsEffect ==
    ASSUME IInv, RekeyRows, NEW q \in Places
    PROVE  /\ dir'[q] = None <=> dir[q] = None
           /\ dir[q] # None =>
                /\ dir'[q].kind = dir[q].kind
                /\ dir'[q].count = dir[q].count
                /\ dir'[q].journal = dir[q].journal
                /\ dir'[q].refusing = dir[q].refusing
<1>1. holder \in Procs /\ cur \in Worktrees /\ Src \in Places /\ Dst \in Places
  BY JournalParts DEF RekeyRows, HolderShape, LockTypeOK, Src, Dst
<1>2. /\ dir \in Dirs /\ dir[q] \in Folder \cup {None}
      /\ Store \in Places \cup {None}
      /\ Store # None => dir[Store] # None /\ dir[Store] \in Folder
  BY <1>1 DEF DataTypeOK, ProcsTypeOK, FolderShape, Store, Dirs
<1>3. dir' = [dir EXCEPT ![Store].rows[cur] = IF @ = Src THEN Dst ELSE @]
  BY DEF RekeyRows
<1>4. CASE q # Store
  BY <1>2, <1>3, <1>4 DEF Dirs
<1>5. CASE q = Store
  <2>1. PICK x \in Places : dir'[q] = [dir[q] EXCEPT !.rows[cur] = x]
    <3>1. dir[q] \in Folder /\ dir[q].rows[cur] \in Places
      BY <1>1, <1>2, <1>5, FolderRows
    <3>2. dir'[q] = [dir[q] EXCEPT !.rows[cur] =
                       IF dir[q].rows[cur] = Src THEN Dst ELSE dir[q].rows[cur]]
      BY <1>2, <1>3, <1>5 DEF Dirs
    <3> QED
      BY <1>1, <3>1, <3>2
  <2>2. [dir[q] EXCEPT !.rows[cur] = x] \in Folder /\ dir[q] \in Folder
    BY <1>1, <1>2, <1>5, FolderRows
  <2> QED
    BY <1>2, <1>5, <2>1, <2>2, NoneAssumption DEF Folder
<1>6. QED
  BY <1>4, <1>5

\* What the first step of a copy's removal changes: the copy is a husk.
LEMMA UnmakeEffect ==
    ASSUME IInv, Unmake, NEW q \in Places
    PROVE  /\ Copy \in Places
           /\ ~OwnCopy \/ q # Copy => dir'[q] = dir[q]
           /\ dir'[q] = None <=> dir[q] = None
           /\ dir[q] # None =>
                /\ dir'[q].count = dir[q].count
                /\ dir'[q].rows = dir[q].rows
                /\ dir'[q].journal = dir[q].journal
                /\ dir'[q].refusing = dir[q].refusing
                /\ OwnCopy /\ q = Copy => dir'[q].kind = "husk"
<1>1. /\ mem \in Journal /\ dir \in Dirs /\ dir[q] \in Folder \cup {None}
      /\ Copy \in Places
  BY JournalParts DEF Unmake, HolderShape, LockTypeOK, DataTypeOK, Dirs, Copy
<1>2. CASE ~OwnCopy \/ q # Copy
  BY <1>1, <1>2 DEF Unmake, Dirs
<1>3. CASE OwnCopy /\ q = Copy
  <2>1. dir[q] \in Folder
    BY <1>1, <1>3 DEF OwnCopy, JournalAt
  <2>2. dir'[q] = [dir[q] EXCEPT !.kind = "husk"]
    BY <1>1, <1>3 DEF Unmake, Dirs
  <2>3. [dir[q] EXCEPT !.kind = "husk"] \in Folder
    BY <2>1, FolderParts
  <2> QED
    BY <1>1, <1>3, <2>1, <2>2, <2>3 DEF Folder
<1>4. QED
  BY <1>1, <1>2, <1>3

RouteInv ==
    /\ mem # None => mem.from # mem.to
    /\ \A p \in Places : JournalAt(p) # None => JournalAt(p).from # JournalAt(p).to
    /\ goal # None => holder # None /\ goal # Here

\* A step that writes no journal but the one in memory, or none at all.
LEMMA RouteStep ==
    ASSUME IInv, RouteInv,
           mem' # None => mem'.from # mem'.to,
           \A p \in Places : \E q \in Places :
               JournalAt(p)' \in {None, JournalAt(q), mem'},
           goal' # None => holder' # None /\ goal' # Here'
    PROVE  RouteInv'
  BY DEF RouteInv

LEMMA RouteRescue ==
    ASSUME IInv, RouteInv, NEW x \in Places, NEW d \in BOOLEAN, Rescue(x, d)
    PROVE  RouteInv'
  BY NoneAssumption DEF RouteInv, Rescue, Fault, Here, JournalAt, HolderShape,
     LockTypeOK, ProcsTypeOK, Journal

LEMMA RouteLocate ==
    ASSUME IInv, RouteInv, NEW p \in Procs, Locate(p)
    PROVE  RouteInv'
  BY NoneAssumption DEF RouteInv, Locate, Here, JournalAt, HolderShape,
     LockTypeOK, ProcsTypeOK, Journal

LEMMA RouteOpen ==
    ASSUME IInv, RouteInv, NEW p \in Procs, Open(p)
    PROVE  RouteInv'
<1>1. (mem # None => mem.from # mem.to)'
  BY NoneAssumption DEF RouteInv, Open, HolderShape, LockTypeOK, Journal, Here
<1>2. \A q \in Places : \E r \in Places : JournalAt(q)' \in {None, JournalAt(r), mem'}
  BY OpenEffect DEF JournalAt
<1>3. (goal # None => holder # None /\ goal # Here)'
  BY DEF RouteInv, Open, Here, HolderShape, LockTypeOK, ProcsTypeOK
<1>4. QED
  BY <1>1, <1>2, <1>3, RouteStep

LEMMA RouteBeginSettle ==
    ASSUME IInv, RouteInv, NEW p \in Procs, BeginSettle(p)
    PROVE  RouteInv'
  BY NoneAssumption DEF RouteInv, BeginSettle, Hold, Here, JournalAt, HolderShape,
     LockTypeOK, ProcsTypeOK, Journal

LEMMA RouteSkipSettle ==
    ASSUME IInv, RouteInv, NEW p \in Procs, SkipSettle(p)
    PROVE  RouteInv'
  BY NoneAssumption DEF RouteInv, SkipSettle, Here, JournalAt, HolderShape,
     LockTypeOK, ProcsTypeOK, Journal

LEMMA RouteWrite ==
    ASSUME IInv, RouteInv, NEW p \in Procs, Write(p)
    PROVE  RouteInv'
<1>1. (mem # None => mem.from # mem.to)'
  BY NoneAssumption DEF RouteInv, Write, HolderShape, LockTypeOK, Journal, Here
<1>2. \A q \in Places : \E r \in Places : JournalAt(q)' \in {None, JournalAt(r), mem'}
  BY WriteEffect DEF JournalAt
<1>3. (goal # None => holder # None /\ goal # Here)'
  BY DEF RouteInv, Write, Here, HolderShape, LockTypeOK, ProcsTypeOK
<1>4. QED
  BY <1>1, <1>2, <1>3, RouteStep

LEMMA RouteCapture ==
    ASSUME IInv, RouteInv, NEW p \in Procs, NEW w \in Worktrees, Capture(p, w)
    PROVE  RouteInv'
  BY NoneAssumption DEF RouteInv, Capture, Here, JournalAt, HolderShape,
     LockTypeOK, ProcsTypeOK, Journal

LEMMA RouteQuit ==
    ASSUME IInv, RouteInv, NEW p \in Procs, Quit(p)
    PROVE  RouteInv'
  BY NoneAssumption DEF RouteInv, Quit, Here, JournalAt, HolderShape,
     LockTypeOK, ProcsTypeOK, Journal

LEMMA RouteCrash ==
    ASSUME IInv, RouteInv, NEW p \in Procs, Crash(p)
    PROVE  RouteInv'
  BY NoneAssumption DEF RouteInv, Crash, Clear, Here, JournalAt, HolderShape,
     LockTypeOK, ProcsTypeOK, Journal

LEMMA RouteBeginMove ==
    ASSUME IInv, RouteInv, NEW x \in Places, BeginMove(x)
    PROVE  RouteInv'
  BY NoneAssumption DEF RouteInv, BeginMove, Hold, Here, JournalAt, HolderShape,
     LockTypeOK, ProcsTypeOK, Journal

LEMMA RouteResumeNothing ==
    ASSUME IInv, RouteInv, ResumeNothing
    PROVE  RouteInv'
  BY NoneAssumption DEF RouteInv, ResumeNothing, Settled, Release, Goto, Clear, Here, JournalAt, HolderShape,
     LockTypeOK, ProcsTypeOK, Journal

LEMMA RouteResumeRefusing ==
    ASSUME IInv, RouteInv, ResumeRefusing
    PROVE  RouteInv'
<1>a. holder \in Procs
  BY DEF ResumeRefusing, Settled, Release, Goto, Clear, HolderShape, LockTypeOK
<1>b. dir' = dir \/ \E b \in BOOLEAN : dir' = Refusing(b)
  BY DEF ResumeRefusing
<1>1. (mem # None => mem.from # mem.to)'
  BY NoneAssumption DEF RouteInv, ResumeRefusing, Settled, Release, Goto, Clear, HolderShape, LockTypeOK, Journal, Here
<1>2. \A q \in Places : \E r \in Places : JournalAt(q)' \in {None, JournalAt(r), mem'}
  BY <1>b, <1>a, RefusingEffect DEF JournalAt
<1>3. (goal # None => holder # None /\ goal # Here)'
  BY DEF RouteInv, ResumeRefusing, Settled, Release, Goto, Clear, Here, HolderShape, LockTypeOK, ProcsTypeOK
<1>4. QED
  BY <1>1, <1>2, <1>3, RouteStep

LEMMA RouteResumeJournal ==
    ASSUME IInv, RouteInv, ResumeJournal
    PROVE  RouteInv'
  BY NoneAssumption DEF RouteInv, ResumeJournal, Goto, Here, JournalAt, HolderShape,
     LockTypeOK, ProcsTypeOK, Journal

LEMMA RouteRefuseMove ==
    ASSUME IInv, RouteInv, RefuseMove
    PROVE  RouteInv'
  BY NoneAssumption DEF RouteInv, RefuseMove, Release, Clear, Here, JournalAt, HolderShape,
     LockTypeOK, ProcsTypeOK, Journal

LEMMA RouteStagePointer ==
    ASSUME IInv, RouteInv, StagePointer
    PROVE  RouteInv'
  BY NoneAssumption DEF RouteInv, StagePointer, Goto, Here, JournalAt, HolderShape,
     LockTypeOK, ProcsTypeOK, Journal

LEMMA RouteRetireStore ==
    ASSUME IInv, RouteInv, RetireStore
    PROVE  RouteInv'
<1>a. holder \in Procs
  BY DEF RetireStore, Goto, HolderShape, LockTypeOK
<1>b. dir' = dir \/ \E b \in BOOLEAN : dir' = Refusing(b)
  BY DEF RetireStore
<1>1. (mem # None => mem.from # mem.to)'
  BY NoneAssumption DEF RouteInv, RetireStore, Goto, HolderShape, LockTypeOK, Journal, Here
<1>2. \A q \in Places : \E r \in Places : JournalAt(q)' \in {None, JournalAt(r), mem'}
  BY <1>b, <1>a, RefusingEffect DEF JournalAt
<1>3. (goal # None => holder # None /\ goal # Here)'
  BY DEF RouteInv, RetireStore, Goto, Here, HolderShape, LockTypeOK, ProcsTypeOK
<1>4. QED
  BY <1>1, <1>2, <1>3, RouteStep

LEMMA RouteAbortUnjournaled ==
    ASSUME IInv, RouteInv, AbortUnjournaled
    PROVE  RouteInv'
<1>1. holder \in Procs /\ goal \in Places /\ Here \in Places /\ Here # goal
  BY DEF AbortUnjournaled, HolderShape, LockTypeOK, ProcsTypeOK, RouteInv, Here
<1>2. PICK b \in BOOLEAN : dir' = Refusing(b) \/ (dir[Here] # None /\ dir' = BareLeft(b))
  BY DEF AbortUnjournaled
<1>3. mem' = None /\ goal' = None
  BY DEF AbortUnjournaled, Release, Clear
<1>4. Bare.from = Here /\ Bare.to = goal
  BY DEF Bare
<1>5. ASSUME NEW q \in Places, JournalAt(q)' # None
      PROVE  JournalAt(q)'.from # JournalAt(q)'.to
  <2>1. CASE dir' = Refusing(b)
    BY <1>1, <1>5, <2>1, RefusingEffect DEF JournalAt, RouteInv
  <2>2. CASE dir[Here] # None /\ dir' = BareLeft(b)
    BY <1>1, <1>4, <1>5, <2>2, BareEffect DEF JournalAt, RouteInv
  <2> QED
    BY <1>2, <2>1, <2>2
<1>6. QED
  BY <1>3, <1>5 DEF RouteInv

LEMMA RouteWriteJournal ==
    ASSUME IInv, RouteInv, WriteJournal
    PROVE  RouteInv'
<1>a. holder \in Procs /\ dir[Here] # None
  BY DEF WriteJournal, Goto, HolderShape, LockTypeOK, FolderShape
<1>b. mem' \in Journal /\ dir' = Journaled(mem')
  BY WriteJournalKeeps DEF WriteJournal, Goto, HolderShape, LockTypeOK
<1>1. (mem # None => mem.from # mem.to)'
  BY NoneAssumption DEF RouteInv, WriteJournal, Goto, HolderShape, LockTypeOK, Journal, Here, Bare
<1>2. \A q \in Places : \E r \in Places : JournalAt(q)' \in {None, JournalAt(r), mem'}
  BY <1>a, <1>b, JournaledEffect DEF JournalAt
<1>3. (goal # None => holder # None /\ goal # Here)'
  BY DEF RouteInv, WriteJournal, Goto, Here, HolderShape, LockTypeOK, ProcsTypeOK
<1>4. QED
  BY <1>1, <1>2, <1>3, RouteStep

LEMMA RoutePlan ==
    ASSUME IInv, RouteInv, Plan
    PROVE  RouteInv'
<1>a. holder \in Procs /\ dir[Here] # None
  BY DEF Plan, Goto, HolderShape, LockTypeOK, FolderShape
<1>b. mem' \in Journal /\ dir' = Journaled(mem')
  BY PlanKeeps DEF Plan, Goto, HolderShape, LockTypeOK
<1>1. (mem # None => mem.from # mem.to)'
  BY NoneAssumption DEF RouteInv, Plan, Goto, HolderShape, LockTypeOK, Journal, Here
<1>2. \A q \in Places : \E r \in Places : JournalAt(q)' \in {None, JournalAt(r), mem'}
  BY <1>a, <1>b, JournaledEffect DEF JournalAt
<1>3. (goal # None => holder # None /\ goal # Here)'
  BY DEF RouteInv, Plan, Goto, Here, HolderShape, LockTypeOK, ProcsTypeOK
<1>4. QED
  BY <1>1, <1>2, <1>3, RouteStep

LEMMA RoutePlanRefused ==
    ASSUME IInv, RouteInv, PlanRefused
    PROVE  RouteInv'
  BY NoneAssumption DEF RouteInv, PlanRefused, Abort, Here, JournalAt, HolderShape,
     LockTypeOK, ProcsTypeOK, Journal

LEMMA RoutePickRekey ==
    ASSUME IInv, RouteInv, NEW w \in Worktrees, PickRekey(w)
    PROVE  RouteInv'
  BY NoneAssumption DEF RouteInv, PickRekey, Goto, Here, JournalAt, HolderShape,
     LockTypeOK, ProcsTypeOK, Journal

LEMMA RoutePickNothing ==
    ASSUME IInv, RouteInv, NEW w \in Worktrees, PickNothing(w)
    PROVE  RouteInv'
  BY NoneAssumption DEF RouteInv, PickNothing, Here, JournalAt, HolderShape,
     LockTypeOK, ProcsTypeOK, Journal

LEMMA RouteRekeyRows ==
    ASSUME IInv, RouteInv, RekeyRows
    PROVE  RouteInv'
<1>1. (mem # None => mem.from # mem.to)'
  BY NoneAssumption DEF RouteInv, RekeyRows, Goto, HolderShape, LockTypeOK, Journal, Here
<1>2. \A q \in Places : \E r \in Places : JournalAt(q)' \in {None, JournalAt(r), mem'}
  BY RowsEffect DEF JournalAt
<1>3. (goal # None => holder # None /\ goal # Here)'
  BY DEF RouteInv, RekeyRows, Goto, Here, HolderShape, LockTypeOK, ProcsTypeOK
<1>4. QED
  BY <1>1, <1>2, <1>3, RouteStep

LEMMA RouteCarryCapture ==
    ASSUME IInv, RouteInv, CarryCapture
    PROVE  RouteInv'
  BY NoneAssumption DEF RouteInv, CarryCapture, Goto, Here, JournalAt, HolderShape,
     LockTypeOK, ProcsTypeOK, Journal

LEMMA RouteLeaveCapture ==
    ASSUME IInv, RouteInv, LeaveCapture
    PROVE  RouteInv'
  BY NoneAssumption DEF RouteInv, LeaveCapture, Goto, Abort, Here, JournalAt, HolderShape,
     LockTypeOK, ProcsTypeOK, Journal

LEMMA RouteDropCapture ==
    ASSUME IInv, RouteInv, DropCapture
    PROVE  RouteInv'
  BY NoneAssumption DEF RouteInv, DropCapture, Goto, Failed, Marked, Abort, Here, JournalAt, HolderShape,
     LockTypeOK, ProcsTypeOK, Journal

LEMMA RouteMarkEntry ==
    ASSUME IInv, RouteInv, MarkEntry
    PROVE  RouteInv'
<1>a. holder \in Procs /\ dir[Here] # None
  BY DEF MarkEntry, Marked, Goto, HolderShape, LockTypeOK, FolderShape
<1>b. mem' \in Journal /\ dir' = Journaled(mem')
  BY MarkEntryKeeps DEF MarkEntry, Marked, Goto, HolderShape, LockTypeOK
<1>1. (mem # None => mem.from # mem.to)'
  BY NoneAssumption DEF RouteInv, MarkEntry, Marked, Goto, HolderShape, LockTypeOK, Journal, Here
<1>2. \A q \in Places : \E r \in Places : JournalAt(q)' \in {None, JournalAt(r), mem'}
  BY <1>a, <1>b, JournaledEffect DEF JournalAt
<1>3. (goal # None => holder # None /\ goal # Here)'
  BY DEF RouteInv, MarkEntry, Marked, Goto, Here, HolderShape, LockTypeOK, ProcsTypeOK
<1>4. QED
  BY <1>1, <1>2, <1>3, RouteStep

LEMMA RouteRekeyFault ==
    ASSUME IInv, RouteInv, RekeyFault
    PROVE  RouteInv'
  BY NoneAssumption DEF RouteInv, RekeyFault, Failed, Marked, Abort, Goto, Here, JournalAt, HolderShape,
     LockTypeOK, ProcsTypeOK, Journal

LEMMA RouteReleasing ==
    ASSUME IInv, RouteInv, Releasing
    PROVE  RouteInv'
  BY NoneAssumption DEF RouteInv, Releasing, Goto, Here, JournalAt, HolderShape,
     LockTypeOK, ProcsTypeOK, Journal

LEMMA RouteRenameFolder ==
    ASSUME IInv, RouteInv, RenameFolder
    PROVE  RouteInv'
<1>a. holder \in Procs /\ mem.from \in Places /\ mem.to \in Places
  BY JournalParts DEF RenameFolder, Goto, HolderShape, LockTypeOK
<1>1. (mem # None => mem.from # mem.to)'
  BY NoneAssumption DEF RouteInv, RenameFolder, Goto, HolderShape, LockTypeOK, Journal, Here
<1>2. \A q \in Places : \E r \in Places : JournalAt(q)' \in {None, JournalAt(r), mem'}
  BY <1>a DEF RenameFolder, Goto, Renamed, Landed, JournalAt, DataTypeOK
<1>3. (goal # None => holder # None /\ goal # Here)'
  BY DEF RouteInv, RenameFolder, Goto, Here, HolderShape, LockTypeOK, ProcsTypeOK
<1>4. QED
  BY <1>1, <1>2, <1>3, RouteStep

LEMMA RouteRenameFault ==
    ASSUME IInv, RouteInv, RenameFault
    PROVE  RouteInv'
<1>a. holder \in Procs /\ mem.from \in Places /\ mem.to \in Places
  BY JournalParts DEF RenameFault, Abort, Release, Clear, HolderShape, LockTypeOK
<1>1. (mem # None => mem.from # mem.to)'
  BY NoneAssumption DEF RouteInv, RenameFault, Abort, Release, Clear, HolderShape, LockTypeOK, Journal, Here
<1>2. \A q \in Places : \E r \in Places : JournalAt(q)' \in {None, JournalAt(r), mem'}
  BY <1>a DEF RenameFault, Abort, Release, Clear, Renamed, Landed, JournalAt, DataTypeOK
<1>3. (goal # None => holder # None /\ goal # Here)'
  BY DEF RouteInv, RenameFault, Abort, Release, Clear, Here, HolderShape, LockTypeOK, ProcsTypeOK
<1>4. QED
  BY <1>1, <1>2, <1>3, RouteStep

LEMMA RouteCrossVolumes ==
    ASSUME IInv, RouteInv, CrossVolumes
    PROVE  RouteInv'
<1>a. holder \in Procs /\ dir[Here] # None
  BY DEF CrossVolumes, Goto, HolderShape, LockTypeOK, FolderShape
<1>b. mem' \in Journal /\ dir' = Journaled(mem')
  BY CrossVolumesKeeps DEF CrossVolumes, Goto, HolderShape, LockTypeOK
<1>1. (mem # None => mem.from # mem.to)'
  BY NoneAssumption DEF RouteInv, CrossVolumes, Goto, HolderShape, LockTypeOK, Journal, Here
<1>2. \A q \in Places : \E r \in Places : JournalAt(q)' \in {None, JournalAt(r), mem'}
  BY <1>a, <1>b, JournaledEffect DEF JournalAt
<1>3. (goal # None => holder # None /\ goal # Here)'
  BY DEF RouteInv, CrossVolumes, Goto, Here, HolderShape, LockTypeOK, ProcsTypeOK
<1>4. QED
  BY <1>1, <1>2, <1>3, RouteStep

LEMMA RouteStartCopy ==
    ASSUME IInv, RouteInv, StartCopy
    PROVE  RouteInv'
  BY NoneAssumption DEF RouteInv, StartCopy, Goto, Here, JournalAt, HolderShape,
     LockTypeOK, ProcsTypeOK, Journal

LEMMA RouteLandCopy ==
    ASSUME IInv, RouteInv, LandCopy
    PROVE  RouteInv'
<1>a. holder \in Procs /\ mem.from \in Places /\ mem.to \in Places
  BY JournalParts DEF LandCopy, Goto, HolderShape, LockTypeOK
<1>1. (mem # None => mem.from # mem.to)'
  BY NoneAssumption DEF RouteInv, LandCopy, Goto, HolderShape, LockTypeOK, Journal, Here
<1>2. \A q \in Places : \E r \in Places : JournalAt(q)' \in {None, JournalAt(r), mem'}
  BY <1>a DEF LandCopy, Goto, Renamed, Landed, JournalAt, DataTypeOK
<1>3. (goal # None => holder # None /\ goal # Here)'
  BY DEF RouteInv, LandCopy, Goto, Here, HolderShape, LockTypeOK, ProcsTypeOK
<1>4. QED
  BY <1>1, <1>2, <1>3, RouteStep

LEMMA RouteCopyFault ==
    ASSUME IInv, RouteInv, CopyFault
    PROVE  RouteInv'
<1>a. holder \in Procs /\ mem.from \in Places /\ mem.to \in Places
  BY JournalParts DEF CopyFault, Abort, HolderShape, LockTypeOK
<1>1. (mem # None => mem.from # mem.to)'
  BY NoneAssumption DEF RouteInv, CopyFault, Abort, HolderShape, LockTypeOK, Journal, Here
<1>2. \A q \in Places : \E r \in Places : JournalAt(q)' \in {None, JournalAt(r), mem'}
  BY <1>a DEF CopyFault, Abort, Renamed, Landed, JournalAt, DataTypeOK
<1>3. (goal # None => holder # None /\ goal # Here)'
  BY DEF RouteInv, CopyFault, Abort, Here, HolderShape, LockTypeOK, ProcsTypeOK
<1>4. QED
  BY <1>1, <1>2, <1>3, RouteStep

LEMMA RouteCommitPointer ==
    ASSUME IInv, RouteInv, CommitPointer
    PROVE  RouteInv'
  BY NoneAssumption DEF RouteInv, CommitPointer, Goto, Here, JournalAt, HolderShape,
     LockTypeOK, ProcsTypeOK, Journal

LEMMA RouteClearLegacy ==
    ASSUME IInv, RouteInv, ClearLegacy
    PROVE  RouteInv'
  BY NoneAssumption DEF RouteInv, ClearLegacy, Goto, Here, JournalAt, HolderShape,
     LockTypeOK, ProcsTypeOK, Journal

LEMMA RouteRelinkAndEnd ==
    ASSUME IInv, RouteInv, RelinkAndEnd
    PROVE  RouteInv'
  BY NoneAssumption DEF RouteInv, RelinkAndEnd, Release, Clear, Here, JournalAt, HolderShape,
     LockTypeOK, ProcsTypeOK, Journal

LEMMA RouteStopLanded ==
    ASSUME IInv, RouteInv, StopLanded
    PROVE  RouteInv'
  BY NoneAssumption DEF RouteInv, StopLanded, Release, Clear, Here, JournalAt, HolderShape,
     LockTypeOK, ProcsTypeOK, Journal

LEMMA RouteUndoneRekeys ==
    ASSUME IInv, RouteInv, UndoneRekeys
    PROVE  RouteInv'
  BY NoneAssumption DEF RouteInv, UndoneRekeys, Goto, Here, JournalAt, HolderShape,
     LockTypeOK, ProcsTypeOK, Journal

LEMMA RouteUnmake ==
    ASSUME IInv, RouteInv, Unmake
    PROVE  RouteInv'
<1>1. (mem # None => mem.from # mem.to)'
  BY NoneAssumption DEF RouteInv, Unmake, Goto, HolderShape, LockTypeOK, Journal, Here
<1>2. \A q \in Places : \E r \in Places : JournalAt(q)' \in {None, JournalAt(r), mem'}
  BY UnmakeEffect DEF JournalAt
<1>3. (goal # None => holder # None /\ goal # Here)'
  BY DEF RouteInv, Unmake, Goto, Here, HolderShape, LockTypeOK, ProcsTypeOK
<1>4. QED
  BY <1>1, <1>2, <1>3, RouteStep

LEMMA RouteUnmakeHusk ==
    ASSUME IInv, RouteInv, UnmakeHusk
    PROVE  RouteInv'
<1>1. (mem # None => mem.from # mem.to)'
  BY NoneAssumption DEF RouteInv, UnmakeHusk, Goto, HolderShape, LockTypeOK, Journal, Here
<1>2. \A q \in Places : \E r \in Places : JournalAt(q)' \in {None, JournalAt(r), mem'}
  BY DEF UnmakeHusk, Goto, JournalAt, DataTypeOK
<1>3. (goal # None => holder # None /\ goal # Here)'
  BY DEF RouteInv, UnmakeHusk, Goto, Here, HolderShape, LockTypeOK, ProcsTypeOK
<1>4. QED
  BY <1>1, <1>2, <1>3, RouteStep

LEMMA RouteUnmakeFault ==
    ASSUME IInv, RouteInv, UnmakeFault
    PROVE  RouteInv'
  BY NoneAssumption DEF RouteInv, UnmakeFault, Goto, Here, JournalAt, HolderShape,
     LockTypeOK, ProcsTypeOK, Journal

LEMMA RouteRepair ==
    ASSUME IInv, RouteInv, Repair
    PROVE  RouteInv'
  BY NoneAssumption DEF RouteInv, Repair, Goto, Here, JournalAt, HolderShape,
     LockTypeOK, ProcsTypeOK, Journal

LEMMA RouteKeepJournal ==
    ASSUME IInv, RouteInv, KeepJournal
    PROVE  RouteInv'
  BY NoneAssumption DEF RouteInv, KeepJournal, Settled, Release, Goto, Clear, Here, JournalAt, HolderShape,
     LockTypeOK, ProcsTypeOK, Journal

LEMMA RouteLetGo ==
    ASSUME IInv, RouteInv, LetGo
    PROVE  RouteInv'
<1>a. holder \in Procs /\ dir[Here] # None
  BY DEF LetGo, Goto, HolderShape, LockTypeOK, FolderShape
<1>1. (mem # None => mem.from # mem.to)'
  BY NoneAssumption DEF RouteInv, LetGo, Goto, HolderShape, LockTypeOK, Journal, Here
<1>2. \A q \in Places : \E r \in Places : JournalAt(q)' \in {None, JournalAt(r), mem'}
  BY <1>a, JournaledEffect DEF LetGo, JournalAt
<1>3. (goal # None => holder # None /\ goal # Here)'
  BY DEF RouteInv, LetGo, Goto, Here, HolderShape, LockTypeOK, ProcsTypeOK
<1>4. QED
  BY <1>1, <1>2, <1>3, RouteStep

LEMMA RouteReviveStore ==
    ASSUME IInv, RouteInv, ReviveStore
    PROVE  RouteInv'
<1>a. holder \in Procs
  BY DEF ReviveStore, Settled, Release, Goto, Clear, HolderShape, LockTypeOK
<1>b. dir' = dir \/ \E b \in BOOLEAN : dir' = Refusing(b)
  BY DEF ReviveStore
<1>1. (mem # None => mem.from # mem.to)'
  BY NoneAssumption DEF RouteInv, ReviveStore, Settled, Release, Goto, Clear, HolderShape, LockTypeOK, Journal, Here
<1>2. \A q \in Places : \E r \in Places : JournalAt(q)' \in {None, JournalAt(r), mem'}
  BY <1>b, <1>a, RefusingEffect DEF JournalAt
<1>3. (goal # None => holder # None /\ goal # Here)'
  BY DEF RouteInv, ReviveStore, Settled, Release, Goto, Clear, Here, HolderShape, LockTypeOK, ProcsTypeOK
<1>4. QED
  BY <1>1, <1>2, <1>3, RouteStep

--------------------------------------------------------------------------------

\* Every step keeps the routes.
LEMMA RouteKeeps == ASSUME IInv, RouteInv, [Next]_vars PROVE RouteInv'
<1>1. CASE ResumeStep
  BY <1>1, RouteResumeNothing, RouteResumeRefusing, RouteResumeJournal DEF ResumeStep
<1>2. CASE PrepareStep
  BY <1>2, RouteRefuseMove, RouteStagePointer, RouteRetireStore,
     RouteAbortUnjournaled, RouteWriteJournal, RoutePlan, RoutePlanRefused
     DEF PrepareStep
<1>3. CASE RekeyStep
  BY <1>3, RoutePickRekey, RoutePickNothing, RouteRekeyRows, RouteCarryCapture,
     RouteLeaveCapture, RouteDropCapture, RouteMarkEntry, RouteRekeyFault
     DEF RekeyStep
<1>4. CASE LandStep
  BY <1>4, RouteReleasing, RouteRenameFolder, RouteRenameFault,
     RouteCrossVolumes, RouteStartCopy, RouteLandCopy, RouteCopyFault,
     RouteCommitPointer, RouteClearLegacy, RouteRelinkAndEnd, RouteStopLanded
     DEF LandStep
<1>5. CASE EndStep
  BY <1>5, RouteUndoneRekeys, RouteUnmake, RouteUnmakeHusk, RouteUnmakeFault,
     RouteRepair, RouteKeepJournal, RouteLetGo, RouteReviveStore DEF EndStep
<1>6. ASSUME NEW p \in Procs,
             StartStep(p) \/ Open(p) \/ Write(p) \/ Quit(p) \/ Crash(p)
      PROVE  RouteInv'
  BY <1>6, RouteLocate, RouteBeginSettle, RouteSkipSettle, RouteOpen, RouteWrite,
     RouteQuit, RouteCrash DEF StartStep
<1>7. ASSUME NEW p \in Procs, NEW w \in Worktrees, Capture(p, w) PROVE RouteInv'
  BY <1>7, RouteCapture
<1>8. ASSUME NEW p \in Places, BeginMove(p) PROVE RouteInv'
  BY <1>8, RouteBeginMove
<1>9. ASSUME NEW p \in Places, NEW dropped \in BOOLEAN, Rescue(p, dropped)
      PROVE  RouteInv'
  BY <1>9, RouteRescue
<1>10. CASE UNCHANGED vars
  BY <1>10 DEF vars, RouteInv, JournalAt, Here
<1>11. QED
  BY <1>1, <1>2, <1>3, <1>4, <1>5, <1>6, <1>7, <1>8, <1>9, <1>10
     DEF Next, HolderStep

\* No ref is ahead of its worktree's last capture, the last one is kept, and
\* the old ref is deleted when the new one has what the journal says it had.
BehindInv == \A w \in Worktrees, p \in Places : capture[w][p] <= latest[w]
CarriedInv == step = "drop" => capture[cur][Dst] >= mem.moved[cur].capture
CaptureInv == BehindInv /\ CarriedInv /\ LastCaptureKept

\* A step that leaves the refs, and does not go on to delete one.
LEMMA RefsLeft ==
    ASSUME CaptureInv, UNCHANGED <<capture, latest>>,
           step' = "drop" => UNCHANGED <<step, cur, back, mem>>
    PROVE  CaptureInv'
  BY DEF CaptureInv, BehindInv, CarriedInv, LastCaptureKept, Dst

\* A new capture is the last one, and under the id of where it was taken.
LEMMA CaptureTaken ==
    ASSUME IInv, CaptureInv, NEW p \in Procs, NEW w \in Worktrees, Capture(p, w)
    PROVE  CaptureInv'
<1>1. /\ at[p] \in Places
      /\ latest \in [Worktrees -> Nat] /\ capture \in [Worktrees -> [Places -> Nat]]
      /\ latest' = [latest EXCEPT ![w] = @ + 1]
      /\ capture' = [capture EXCEPT ![w][at[p]] = latest[w] + 1]
  BY DEF Capture, ProcsTypeOK, GitTypeOK, CountsTypeOK
<1>2. \A v \in Worktrees, q \in Places :
        /\ latest'[v] >= latest[v] /\ latest[v] \in Nat /\ latest'[v] \in Nat
        /\ capture'[v][q] >= capture[v][q] /\ capture[v][q] \in Nat
        /\ capture'[v][q] \in {capture[v][q], latest'[v]}
  BY <1>1 DEF CaptureInv, BehindInv
<1>3. BehindInv'
  BY <1>1, <1>2 DEF CaptureInv, BehindInv
<1>4. LastCaptureKept'
  <2> SUFFICES ASSUME NEW v \in Worktrees, latest'[v] # NoCapture
               PROVE  \E q \in Places : capture'[v][q] = latest'[v]
    BY DEF LastCaptureKept
  <2>1. CASE v = w
    BY <1>1, <2>1
  <2>2. CASE v # w
    BY <1>1, <2>2 DEF CaptureInv, LastCaptureKept
  <2> QED
    BY <2>1, <2>2
<1>5. CarriedInv'
  <2> SUFFICES ASSUME step = "drop"
               PROVE  capture'[cur][Dst] >= mem.moved[cur].capture
    BY DEF CarriedInv, Capture, Dst
  <2>1. /\ cur \in Worktrees /\ Dst \in Places
        /\ mem.moved[cur].capture \in Nat
    BY JournalParts DEF HolderShape, LockTypeOK, Dst, Entry
  <2>2. capture[cur][Dst] >= mem.moved[cur].capture
    BY DEF CaptureInv, CarriedInv
  <2> QED
    BY <1>2, <2>1, <2>2
<1>6. QED
  BY <1>3, <1>4, <1>5 DEF CaptureInv

\* A capture carried is under both ids.  It takes the place of none, or of
\* the same one.
LEMMA CaptureCarried ==
    ASSUME IInv, CaptureInv, CarryCapture
    PROVE  CaptureInv'
<1>1. /\ cur \in Worktrees /\ Src \in Places /\ Dst \in Places
      /\ latest \in [Worktrees -> Nat] /\ capture \in [Worktrees -> [Places -> Nat]]
      /\ mem.moved[cur].capture \in Nat
  BY JournalParts DEF CarryCapture, HolderShape, LockTypeOK, Src, Dst, GitTypeOK,
     CountsTypeOK, Entry
<1>2. CASE Followed
  BY <1>2, RefsLeft DEF CarryCapture, Goto
<1>3. CASE ~Followed
  <2>1. /\ capture' = [capture EXCEPT ![cur][Dst] = capture[cur][Src]]
        /\ capture[cur][Src] = mem.moved[cur].capture
        /\ capture[cur][Dst] \in {NoCapture, capture[cur][Src]}
        /\ UNCHANGED <<latest, cur, back, mem>>
    BY <1>3 DEF CarryCapture, Carried
  <2>2. BehindInv'
    BY <1>1, <2>1 DEF CaptureInv, BehindInv
  <2>3. CarriedInv'
    BY <1>1, <2>1 DEF CarriedInv, Dst
  <2>4. LastCaptureKept'
    <3> SUFFICES ASSUME NEW v \in Worktrees, latest[v] # NoCapture
                 PROVE  \E q \in Places : capture'[v][q] = latest[v]
      BY <2>1 DEF LastCaptureKept
    <3>1. PICK q \in Places : capture[v][q] = latest[v]
      BY DEF CaptureInv, LastCaptureKept
    <3>2. capture'[v][q] = capture[v][q]
      BY <1>1, <2>1, <3>1
    <3> QED
      BY <3>1, <3>2
  <2> QED
    BY <2>2, <2>3, <2>4 DEF CaptureInv
<1>4. QED
  BY <1>2, <1>3

\* The old ref deleted was the last capture only if the new one is too.
LEMMA CaptureDropped ==
    ASSUME IInv, RouteInv, CaptureInv, DropCapture
    PROVE  CaptureInv'
<1>1. /\ cur \in Worktrees /\ Src \in Places /\ Dst \in Places /\ Src # Dst
      /\ latest \in [Worktrees -> Nat] /\ capture \in [Worktrees -> [Places -> Nat]]
      /\ mem.moved[cur].capture \in Nat /\ step = "drop"
  BY JournalParts DEF DropCapture, HolderShape, LockTypeOK, Src, Dst, GitTypeOK,
     CountsTypeOK, Entry, RouteInv
<1>2. CASE capture[cur][Src] # mem.moved[cur].capture
  BY <1>2, RefsLeft DEF DropCapture, Goto, Failed, Abort
<1>3. CASE capture[cur][Src] = mem.moved[cur].capture
  <2>1. /\ capture' = [capture EXCEPT ![cur][Src] = NoCapture]
        /\ UNCHANGED latest /\ step' # "drop"
    BY <1>3 DEF DropCapture, Goto
  <2>2. BehindInv'
    BY <1>1, <2>1 DEF CaptureInv, BehindInv, NoCapture
  <2>3. CarriedInv'
    BY <2>1 DEF CarriedInv
  <2>4. LastCaptureKept'
    <3> SUFFICES ASSUME NEW v \in Worktrees, latest[v] # NoCapture
                 PROVE  \E q \in Places : capture'[v][q] = latest[v]
      BY <2>1 DEF LastCaptureKept
    <3>1. PICK q \in Places : capture[v][q] = latest[v]
      BY DEF CaptureInv, LastCaptureKept
    <3>2. CASE v = cur /\ q = Src
      <4>1. /\ capture[cur][Dst] >= latest[cur] /\ capture[cur][Dst] <= latest[cur]
            /\ capture[cur][Dst] \in Nat /\ latest[cur] \in Nat
        BY <1>1, <1>3, <3>1, <3>2 DEF CaptureInv, CarriedInv, BehindInv
      <4>2. capture[cur][Dst] = latest[cur]
        BY <4>1
      <4>3. capture'[cur][Dst] = capture[cur][Dst]
        BY <1>1, <2>1
      <4> QED
        BY <1>1, <3>2, <4>2, <4>3
    <3>3. CASE ~(v = cur /\ q = Src)
      BY <1>1, <2>1, <3>1, <3>3
    <3> QED
      BY <3>2, <3>3
  <2> QED
    BY <2>2, <2>3, <2>4 DEF CaptureInv
<1>4. QED
  BY <1>2, <1>3

\* No other step touches a ref.
LEMMA CaptureKept ==
    ASSUME IInv, RouteInv, CaptureInv, [Next]_vars
    PROVE  CaptureInv'
<1>1. CASE ResumeStep \/ PrepareStep
  <2>1. UNCHANGED <<capture, latest>> /\ step' # "drop"
    BY <1>1 DEF ResumeStep, ResumeNothing, ResumeRefusing, ResumeJournal,
       PrepareStep, RefuseMove, StagePointer, RetireStore, AbortUnjournaled,
       WriteJournal, Plan, PlanRefused, Settled, Release, Goto, Clear, Abort
  <2> QED
    BY <2>1, RefsLeft
<1>2. CASE RekeyStep
  <2>1. ASSUME NEW w \in Worktrees, PickRekey(w) \/ PickNothing(w)
        PROVE  UNCHANGED <<capture, latest>> /\ step' # "drop"
    BY <2>1 DEF PickRekey, PickNothing, Goto
  <2>2. CASE RekeyRows \/ LeaveCapture \/ MarkEntry \/ RekeyFault
    <3>1. UNCHANGED <<capture, latest>> /\ step' # "drop"
      BY <2>2 DEF RekeyRows, LeaveCapture, MarkEntry, RekeyFault, Failed, Abort, Goto
    <3> QED
      BY <3>1, RefsLeft
  <2> QED
    BY <1>2, <2>1, <2>2, RefsLeft, CaptureCarried, CaptureDropped DEF RekeyStep
<1>3. CASE LandStep
  <2>1. UNCHANGED <<capture, latest>> /\ step' # "drop"
    BY <1>3 DEF LandStep, Releasing, RenameFolder, RenameFault, CrossVolumes,
       StartCopy, LandCopy, CopyFault, CommitPointer, ClearLegacy, RelinkAndEnd,
       StopLanded, Release, Goto, Clear, Abort
  <2> QED
    BY <2>1, RefsLeft
<1>4. CASE EndStep
  <2>1. UNCHANGED <<capture, latest>> /\ step' # "drop"
    BY <1>4 DEF EndStep, UndoneRekeys, Unmake, UnmakeHusk, UnmakeFault, Repair,
       KeepJournal, LetGo, ReviveStore, Settled, Release, Goto, Clear, AfterCopy
  <2> QED
    BY <2>1, RefsLeft
<1>5. ASSUME NEW p \in Procs,
             StartStep(p) \/ Open(p) \/ Write(p) \/ Quit(p) \/ Crash(p)
      PROVE  CaptureInv'
  <2>1. /\ UNCHANGED <<capture, latest>>
        /\ step' = "drop" => UNCHANGED <<step, cur, back, mem>>
    BY <1>5 DEF StartStep, Locate, BeginSettle, SkipSettle, Open, Write, Quit,
       Crash, Clear, Hold
  <2> QED
    BY <2>1, RefsLeft
<1>6. ASSUME NEW p \in Procs, NEW w \in Worktrees, Capture(p, w) PROVE CaptureInv'
  BY <1>6, CaptureTaken
<1>7. ASSUME NEW p \in Places, BeginMove(p) PROVE CaptureInv'
  BY <1>7, RefsLeft DEF BeginMove, Hold
<1>8. ASSUME NEW p \in Places, NEW dropped \in BOOLEAN, Rescue(p, dropped)
      PROVE  CaptureInv'
  BY <1>8, RefsLeft DEF Rescue
<1>9. CASE UNCHANGED vars
  BY <1>9, RefsLeft DEF vars
<1>10. QED
  BY <1>1, <1>2, <1>3, <1>4, <1>5, <1>6, <1>7, <1>8, <1>9 DEF Next, HolderStep

LEMMA CaptureInit == Init => RouteInv /\ CaptureInv
<1> SUFFICES ASSUME Init PROVE RouteInv /\ CaptureInv
  OBVIOUS
<1>1. RouteInv
  BY DEF Init, RouteInv, JournalAt
<1>2. Named \in Places
  BY DEF Init, InitFiles, Named
<1>3. CaptureInv
  <2>1. /\ latest \in [Worktrees -> {0, 1}] /\ step = "idle"
        /\ \A w \in Worktrees, p \in Places :
             capture[w][p] = IF p = Named THEN latest[w] ELSE 0
    BY DEF Init, NoCapture
  <2>2. BehindInv
    BY <2>1 DEF BehindInv
  <2>3. CarriedInv /\ LastCaptureKept
    BY <1>2, <2>1 DEF CarriedInv, LastCaptureKept
  <2> QED
    BY <2>2, <2>3 DEF CaptureInv
<1>4. QED
  BY <1>1, <1>3

\* Whatever moves, failures and crashes there were, the last capture of every
\* worktree is under one of its ids, even one taken without the lock while the
\* re-key carried an earlier one (kept.ts, rekeyCapture).
THEOREM KeepsTheLastCapture == Spec => []LastCaptureKept
<1>1. Init => IInv /\ RouteInv /\ CaptureInv
  BY InitHolds, CaptureInit
<1>2. IInv /\ RouteInv /\ CaptureInv /\ [Next]_vars
        => (IInv /\ RouteInv /\ CaptureInv)'
  BY NextKeeps, RouteKeeps, CaptureKept
<1>3. CaptureInv => LastCaptureKept
  BY DEF CaptureInv
<1>4. QED
  BY <1>1, <1>2, <1>3, PTL DEF Spec

--------------------------------------------------------------------------------
(* Where a start ends up is the user's own data dir.                         *)
(* It is where the pointers lead, and then every other folder is the other   *)
(* copy of one move to another volume (Twin); or it was renamed from there   *)
(* and the pointer is due, which only its app, having let go of it, or a     *)
(* rescue commits (Away).  What is wrong for other bounds is Overrun's: a    *)
(* move that comes between a start's look and its open, and a pre-2.0        *)
(* pointer that outlives a first move and is followed after a second.        *)

Overrun == ~AtomicStart \/ (HasLegacy /\ MaxMoves > 1)

\* Named is the data dir, or it was renamed and only the pointer is due.
Whole(p) == dir[p] # None /\ dir[p].kind = "data" /\ dir[p].count = accepted
Same(i, j) == i.from = j.from /\ i.to = j.to /\ i.partial = j.partial

\* The other copy of the move to another volume Named's journal is of.
Twin(p) ==
    /\ JournalAt(p) # None /\ JournalAt(Named) # None
    /\ Same(JournalAt(p), JournalAt(Named))
    /\ JournalAt(Named).partial # NoPartial
    /\ p \in {JournalAt(Named).from, JournalAt(Named).to}
InPlace == Whole(Named) /\ \A p \in Places \ {Named} : dir[p] # None => Twin(p)

RenamedTo(p) ==
    /\ p # Named /\ Whole(p) /\ JournalAt(p) # None
    /\ JournalAt(p).partial = NoPartial
    /\ JournalAt(p).from = Named /\ JournalAt(p).to = p
    /\ p = Default \/ \E s \in staged : s[1] = p
    /\ \A q \in Places \ {p} : dir[q] = None

AppBusy == status[App] \in {"located", "opened", "up"}
Away ==
    /\ dir[Named] = None /\ moves > 0 /\ ~AppBusy
    /\ legacy # None => pointer = None
    /\ \E p \in Places : RenamedTo(p)
FolderInv == InPlace \/ Away

\* Only a journal that lists nothing may meet a store that writes.
ListedRefuse ==
    \A p \in Places : JournalAt(p) # None => dir[p].refusing \/ ~Lists(p, JournalAt(p))
JournalInv ==
    /\ ListedRefuse
    /\ JournalAt(Named) # None => Named \in {JournalAt(Named).from, JournalAt(Named).to}

\* No pointer leads to the default place.  With the pre-2.0 pointer still
\* there, the other leads nowhere until a move commits it.
PointersInv ==
    /\ \A s \in staged : s[1] # Default
    /\ legacy # None =>
          /\ HasLegacy
          /\ moves = 0 => pointer = None
          /\ goal # None => pointer = None \/ (step \in LandedSteps /\ goal # Default)

\* The app knows where the data dir is until it lets go of it, and a start
\* opens the one it found.
ProcsInv ==
    /\ AppBusy => at[App] = Named
    /\ status[App] \in {"opened", "up"} => fd[App] = Named
    /\ \A p \in Procs : status[p] = "located" => at[p] = Named /\ dir[Named] # None

Leaving == {"rename", "copy", "land"} \cup LandedSteps
Rekeying == step \in {"pick"} \cup RekeySteps
Moving == step \in {"plan"} \cup Leaving \/ (Rekeying /\ ~back)
Ending == step \in {"unmake", "unmakeHusk", "repair", "letGo"} \/ (Rekeying /\ back)

GoalInv ==
    /\ goal # None => /\ holder = App /\ moves > 0
                      /\ status[App] = IF step \in Leaving THEN "leaving" ELSE "up"
    /\ Moving => goal # None
    /\ back => Ending \/ step = "revive"

\* The move's own pointer, staged.
StagedTo(p) == p = Default \/ <<p, moves>> \in staged

PrepareInv ==
    /\ step \in {"retire", "journal"} => JournalAt(Here) = None /\ StagedTo(goal)
    /\ step = "journal" => dir[Here].refusing

\* Its journal is the one in memory, at the folder it is in.
Journals == Here = Named /\ JournalAt(Here) # None /\ Same(JournalAt(Here), mem)

MoveInv ==
    /\ Moving => mem.from = Here /\ mem.to = goal
    /\ Moving /\ step \notin LandedSteps => Journals /\ StagedTo(mem.to)
    /\ Moving /\ step \notin {"copy", "land"} \cup LandedSteps => mem.partial = NoPartial
    /\ step \in {"copy", "land"} => mem.partial # NoPartial

PointerTo(p) == IF p = Default THEN None ELSE p
LandedInv ==
    /\ step \in LandedSteps =>
          /\ Whole(mem.to) /\ JournalAt(mem.to) # None /\ Same(JournalAt(mem.to), mem)
          /\ Named \in {mem.from, mem.to}
    /\ step \in {"legacy", "links"} => pointer = PointerTo(mem.to)
    /\ step = "links" => legacy = None

EndInv ==
    /\ Ending => Journals /\ (back <=> mem.to # Named)
    /\ step \in {"repair", "letGo"} /\ good => \A p \in Places \ {Named} : dir[p] = None
    /\ step = "revive" => Here = Named /\ JournalAt(Here) = None

\* A move's store refuses until it is let go of, and an undo's if it re-keys any.
ClosedInv ==
    /\ Moving /\ step \notin LandedSteps => dir[Here].refusing
    /\ step \in LandedSteps => dir[mem.to].refusing
    /\ Rekeying /\ back => dir[Here].refusing \/ (step = "pick" /\ todo = {})

HolderInv == GoalInv /\ PrepareInv /\ MoveInv /\ LandedInv /\ EndInv /\ ClosedInv
FoundInv == FolderInv /\ JournalInv /\ PointersInv /\ ProcsInv /\ HolderInv

LEMMA NamedPlace == ASSUME IInv PROVE Named \in Places
  BY DEF Named, FilesTypeOK

\* A folder renamed away is one a start would rescue.
LEMMA AwayStranded == ASSUME FolderInv, Stranded = {} PROVE InPlace
<1>1. ASSUME Away PROVE FALSE
  <2>1. PICK p \in Places : RenamedTo(p)
    BY <1>1 DEF Away
  <2>2. p \in {s[1] : s \in staged} \cup {Default}
    BY <2>1 DEF RenamedTo
  <2>3. p \in Stranded
    BY <1>1, <2>1, <2>2 DEF Stranded, RenamedTo, Away, Whole, JournalAt
  <2> QED
    BY <2>3
<1>2. QED
  BY <1>1 DEF FolderInv

LEMMA FindsWhole == ASSUME IInv, FolderInv PROVE FoundWhole
<1>1. CASE InPlace
  <2>1. Stranded = {}
    BY <1>1 DEF InPlace, Whole, Stranded
  <2> QED
    BY <1>1, <2>1 DEF Found, FoundWhole, InPlace, Whole
<1>2. CASE Away
  <2>1. PICK p \in Places : RenamedTo(p)
    BY <1>2 DEF Away
  <2>2. p \in {s[1] : s \in staged} \cup {Default}
    BY <2>1 DEF RenamedTo
  <2>3. p \in Stranded
    BY <1>2, <2>1, <2>2 DEF Stranded, RenamedTo, Away, Whole, JournalAt
  <2>4. ASSUME NEW q \in Stranded PROVE q = p
    <3>1. q \in Places /\ dir[q] # None
      BY DEF Stranded, FilesTypeOK
    <3> QED
      BY <2>1, <3>1 DEF RenamedTo
  <2>5. Found = p
    BY <2>3, <2>4 DEF Found
  <2> QED
    BY <2>1, <2>5 DEF FoundWhole, RenamedTo, Whole
<1>3. QED
  BY <1>1, <1>2 DEF FolderInv

\* A step that moves no folder, no pointer, and at most marks a journal.
DirAlike ==
    \A q \in Places :
        /\ dir'[q] = None <=> dir[q] = None
        /\ dir[q] # None => dir'[q].kind = dir[q].kind /\ dir'[q].count = dir[q].count
        /\ JournalAt(q)' = None <=> JournalAt(q) = None
        /\ JournalAt(q) # None => /\ Same(JournalAt(q)', JournalAt(q))
                                  /\ JournalAt(q)' = JournalAt(q) \/ dir[q].refusing
                                  /\ dir[q].refusing => dir'[q].refusing

LEMMA WorldLeft ==
    ASSUME IInv, FolderInv, JournalInv, UNCHANGED <<pointer, legacy, accepted>>,
           staged' = staged \/ dir[Named] # None,
           moves > 0 => moves' > 0,
           AppBusy' => AppBusy \/ dir[Named] # None,
           DirAlike
    PROVE  FolderInv' /\ JournalInv'
<1>1. Named \in Places /\ Named' = Named
  BY NamedPlace DEF Named
<1>2. \A q \in Places : /\ Whole(q)' <=> Whole(q)
                        /\ Twin(q) => Twin(q)'
  BY <1>1 DEF DirAlike, Whole, Twin, Same
<1>3. JournalInv'
  BY <1>1 DEF DirAlike, JournalInv, ListedRefuse, Same
<1>4. CASE InPlace
  <2>1. InPlace'
    BY <1>1, <1>2, <1>4 DEF DirAlike, InPlace
  <2> QED
    BY <1>3, <2>1 DEF FolderInv
<1>5. CASE Away
  <2>1. PICK p \in Places : RenamedTo(p)
    BY <1>5 DEF Away
  <2>2. staged' = staged /\ ~AppBusy' /\ moves' > 0 /\ dir'[Named'] = None
    BY <1>1, <1>5 DEF DirAlike, Away
  <2>3. RenamedTo(p)'
    BY <1>1, <1>2, <2>1, <2>2 DEF DirAlike, RenamedTo, Same
  <2>4. Away'
    BY <1>5, <2>2, <2>3 DEF Away
  <2> QED
    BY <1>3, <2>4 DEF FolderInv
<1>6. QED
  BY <1>4, <1>5 DEF FolderInv

LEMMA WorldStill ==
    ASSUME IInv, FolderInv, JournalInv, UNCHANGED <<pointer, legacy, accepted, dir>>,
           staged' = staged \/ dir[Named] # None,
           moves > 0 => moves' > 0,
           AppBusy' => AppBusy \/ dir[Named] # None
    PROVE  FolderInv' /\ JournalInv'
  BY WorldLeft DEF DirAlike, JournalAt, Same

\* A step of a process that is not a start's look or open.
LEMMA ProcsLeft ==
    ASSUME IInv, ProcsInv, UNCHANGED <<pointer, legacy, at>>,
           status'[App] \in {"opened", "up"} =>
               status[App] \in {"opened", "up"} /\ fd'[App] = fd[App],
           \A p \in Procs : status'[p] = "located" => status[p] = "located",
           dir[Named] # None => dir'[Named] # None
    PROVE  ProcsInv'
<1>1. Named' = Named
  BY DEF Named
<1>2. QED
  BY <1>1 DEF ProcsInv, AppBusy

\* The pre-2.0 pointer kept or dropped, and the other not moved.
LEMMA PointersLeft ==
    ASSUME PointersInv, UNCHANGED pointer, staged' \subseteq staged, legacy' \in {legacy, None},
           moves' = 0 => moves = 0,
           goal' # None =>
               goal' = goal /\ (step \in LandedSteps => step' \in LandedSteps)
    PROVE  PointersInv'
  BY DEF PointersInv

\* The holder before or after its work relies on nothing.
LEMMA HolderRests ==
    ASSUME step' \in {"idle", "resume", "check"}, ~back',
           goal' # None => holder' = App /\ moves' > 0 /\ status'[App] = "up"
    PROVE  HolderInv'
  BY DEF HolderInv, GoalInv, PrepareInv, MoveInv, LandedInv, EndInv, ClosedInv, Moving, Ending,
     Leaving, Rekeying

\* A step of another process, that changes no journal.
LEMMA HolderLeft ==
    ASSUME IInv, HolderInv, UNCHANGED <<pointer, legacy, staged, moves, lock>>,
           holder # None => UNCHANGED <<at[holder], status[holder]>>,
           \A q \in Places :
             /\ dir[q] = None <=> dir'[q] = None
             /\ JournalAt(q)' = JournalAt(q)
             /\ dir[q] # None => dir'[q].refusing = dir[q].refusing
             /\ Whole(q) => Whole(q)'
    PROVE  HolderInv'
<1>1. CASE holder = None
  <2>1. step' = "idle" /\ ~Ending /\ ~Moving /\ step # "revive"
    BY <1>1 DEF HolderShape, Ending, Moving, Leaving, Rekeying
  <2>2. ~back' /\ goal' = None
    BY <1>1, <2>1 DEF HolderInv, GoalInv
  <2> QED
    BY <2>1, <2>2, HolderRests
<1>2. CASE holder # None
  <2>1. /\ holder \in Procs /\ Here \in Places /\ Here' = Here
        /\ Named' = Named /\ Named \in Places
    BY <1>2, NamedPlace DEF LockTypeOK, ProcsTypeOK, Here, Named
  <2>2. /\ Moving' = Moving /\ Ending' = Ending
        /\ step \in JournalSteps => mem.from \in Places /\ mem.to \in Places
    BY JournalParts DEF Moving, Ending, Leaving, Rekeying, HolderShape, LockTypeOK
  <2>3. GoalInv'
    BY <1>2, <2>2 DEF HolderInv, GoalInv, Leaving
  <2>4. PrepareInv'
    <3>1. step = "journal" => dir[Here] # None \/ dir[Here] = None
      OBVIOUS
    <3> QED
      BY <2>1 DEF HolderInv, PrepareInv, StagedTo
  <2>5. Journals' = Journals
    BY <2>1 DEF Journals, Same
  <2>6. MoveInv'
    BY <2>1, <2>2, <2>5 DEF HolderInv, MoveInv, StagedTo
  <2>7. LandedInv'
    BY <2>1, <2>2 DEF HolderInv, LandedInv, Same, PointerTo
  <2>8. EndInv'
    BY <2>1, <2>2, <2>5 DEF HolderInv, EndInv
  <2>9. ClosedInv'
    <3>1. Moving /\ step \notin LandedSteps => dir[Here] # None /\ dir[Here].refusing
      BY DEF HolderInv, MoveInv, ClosedInv, Journals, JournalAt
    <3>2. step \in LandedSteps =>
            mem.to \in Places /\ dir[mem.to] # None /\ dir[mem.to].refusing
      BY <2>2 DEF HolderInv, LandedInv, ClosedInv, Whole
    <3>3. Rekeying /\ back /\ ~(step = "pick" /\ todo = {})
            => dir[Here] # None /\ dir[Here].refusing
      BY DEF HolderInv, EndInv, ClosedInv, Ending, Journals, JournalAt
    <3> QED
      BY <2>1, <2>2, <3>1, <3>2, <3>3 DEF ClosedInv, Rekeying
  <2> QED
    BY <2>3, <2>4, <2>6, <2>7, <2>8, <2>9 DEF HolderInv
<1>3. QED
  BY <1>1, <1>2

\* A re-key that goes on keeps to its journal.
LEMMA HolderRekeys ==
    ASSUME IInv, HolderInv, UNCHANGED <<files, moves, holder, goal, back, status, at>>,
           Rekeying, Rekeying',
           mem' # None, Same(mem', mem),
           JournalAt(Here)' # None, Same(JournalAt(Here)', mem),
           step = "pick" => todo # {}, dir[Here].refusing => dir'[Here].refusing
    PROVE  HolderInv'
<1>1. Here' = Here /\ Named' = Named /\ (Moving' <=> Moving) /\ (Ending' <=> Ending)
  BY DEF Here, Named, Moving, Ending, Rekeying, Leaving
<1>2. Journals => Journals'
  BY <1>1 DEF Journals, Same
<1>3. step' \notin Leaving \cup {"idle", "plan", "revive", "unmake", "unmakeHusk"}
  BY DEF Rekeying, Leaving
<1>4. GoalInv' /\ PrepareInv' /\ LandedInv'
  BY <1>1, <1>3 DEF HolderInv, GoalInv, PrepareInv, LandedInv, Rekeying, Leaving
<1>5. MoveInv' /\ EndInv'
  BY <1>1, <1>2, <1>3 DEF HolderInv, MoveInv, EndInv, Rekeying, Leaving, StagedTo, Same
<1>6. ClosedInv'
  BY <1>1, <1>3 DEF HolderInv, ClosedInv, Moving, Rekeying, Leaving
<1>7. QED
  BY <1>4, <1>5, <1>6 DEF HolderInv

\* A move that fails before its folder landed has its journal to undo.
LEMMA HolderAborts ==
    ASSUME IInv, HolderInv, NEW j \in Journal, Abort(j), UNCHANGED at,
           JournalAt(Here)' # None, Same(JournalAt(Here)', j), dir'[Here].refusing,
           Here = Named, j.to # Named
    PROVE  HolderInv'
<1>1. Here' = Here /\ Named' = Named /\ mem' = j /\ step' = "pick" /\ back' /\ goal' = None
  BY DEF Abort, Here, Named
<1>2. Journals'
  BY <1>1 DEF Journals
<1>3. ~Moving' /\ Ending'
  BY <1>1 DEF Moving, Ending, Rekeying, Leaving
<1>4. QED
  BY <1>1, <1>2, <1>3 DEF HolderInv, GoalInv, PrepareInv, MoveInv, LandedInv, EndInv, ClosedInv

\* While the folder is away its app is past its landing, or holds nothing.
LEMMA AwaySteps ==
    ASSUME IInv, HolderInv, dir[Named] = None, ~AppBusy
    PROVE  step \in LandedSteps \/ (step \in {"idle", "resume"} /\ goal = None)
<1>1. CASE step \in {"idle", "resume"}
  BY <1>1 DEF HolderInv, GoalInv, AppBusy, Leaving
<1>2. CASE step \in MovingSteps
  BY <1>2 DEF HolderInv, GoalInv, HolderShape, AppBusy, Leaving
<1>3. CASE step = "revive"
  BY <1>3 DEF HolderInv, EndInv, FolderShape, HolderShape
<1>4. CASE Moving \/ Ending
  BY <1>4 DEF HolderInv, MoveInv, EndInv, Journals, JournalAt, Leaving, Moving
<1>5. QED
  BY <1>1, <1>2, <1>3, <1>4 DEF LockTypeOK, Moving, Ending, Leaving, Rekeying

\* The rescue commits the pointer to the folder that was renamed.
LEMMA FoundRescue ==
    ASSUME IInv, FoundInv, NEW x \in Places, NEW d \in BOOLEAN, Rescue(x, d)
    PROVE  FoundInv'
<1>1. PICK p \in Places : RenamedTo(p)
  BY DEF FoundInv, FolderInv, InPlace, Whole, Away, Rescue, Stranded
<1>2. dir[Named] = None /\ ~AppBusy /\ moves > 0 /\ (legacy # None => pointer = None)
  BY DEF FoundInv, FolderInv, InPlace, Whole, Away, Rescue, Stranded
<1>3. x = p
  BY <1>1 DEF Rescue, Stranded, RenamedTo
<1>4. /\ UNCHANGED <<dir, status, at, fd, accepted, moves, lock>>
      /\ staged' \subseteq staged /\ legacy' \in {legacy, None}
      /\ \/ x # Default /\ pointer' = x
         \/ x = Default /\ pointer' = None /\ staged' = staged
  BY <1>1, <1>3 DEF Rescue, FoundInv, PointersInv, RenamedTo
<1>5. Named' = x \/ (x = Default /\ Named' = Named /\ pointer' = None)
  BY <1>2, <1>4 DEF Named
<1>6. Whole(x)' /\ JournalAt(x)' = JournalAt(x)
  BY <1>1, <1>3, <1>4 DEF RenamedTo, Whole, JournalAt
<1>7. FolderInv' /\ JournalInv'
  <2>1. ListedRefuse'
    BY <1>4 DEF FoundInv, JournalInv, ListedRefuse, JournalAt
  <2>2. CASE Named' = x
    <3>1. InPlace' /\ JournalAt(Named)'.to = Named'
      BY <1>1, <1>3, <1>4, <1>6, <2>2 DEF RenamedTo, InPlace
    <3> QED
      BY <2>1, <3>1 DEF FolderInv, JournalInv
  <2>3. CASE x = Default /\ Named' = Named /\ pointer' = None
    <3>1. RenamedTo(p)'
      BY <1>1, <1>3, <1>4, <1>6, <2>3 DEF RenamedTo
    <3>2. Away' /\ JournalAt(Named)' = None
      BY <1>2, <1>4, <2>3, <3>1 DEF Away, AppBusy, JournalAt
    <3> QED
      BY <2>1, <3>2 DEF FolderInv, JournalInv
  <2> QED
    BY <1>5, <2>2, <2>3
<1>8. step \in LandedSteps \/ (step \in {"idle", "resume"} /\ goal = None)
  BY <1>2, AwaySteps DEF FoundInv
<1>9. step \in LandedSteps => /\ mem \in Journal /\ mem.to = x /\ mem.from \in Places
                              /\ goal = x
  <2>1. ASSUME step \in LandedSteps
        PROVE  mem \in Journal /\ mem.to \in Places /\ mem.from \in Places
    BY <2>1, JournalParts DEF HolderShape, LockTypeOK
  <2>2. ASSUME step \in LandedSteps PROVE mem.to = x /\ goal = mem.to
    BY <1>1, <1>3, <2>1, <2>2 DEF FoundInv, HolderInv, LandedInv, Whole, RenamedTo,
       MoveInv, Moving, Leaving
  <2> QED
    BY <2>1, <2>2
<1>10. PointersInv'
  BY <1>2, <1>4, <1>8, <1>9 DEF FoundInv, PointersInv
<1>11. ProcsInv'
  BY <1>2, <1>4 DEF FoundInv, ProcsInv, AppBusy
<1>12. HolderInv'
  <2>1. CASE step \in {"idle", "resume"} /\ goal = None
    <3>1. ~back
      BY <2>1 DEF FoundInv, HolderInv, GoalInv, Ending, Rekeying
    <3> QED
      BY <1>4, <2>1, <3>1, HolderRests
  <2>2. CASE step \in LandedSteps
    <3>1. GoalInv' /\ PrepareInv'
      BY <1>4, <2>2 DEF FoundInv, HolderInv, GoalInv, PrepareInv, Moving, Ending,
         Rekeying, Leaving
    <3>2. MoveInv' /\ EndInv'
      BY <1>4, <2>2 DEF FoundInv, HolderInv, GoalInv, MoveInv, EndInv, Moving,
         Ending, Rekeying, Leaving, Here
    <3>3. LandedInv'
      BY <1>4, <1>5, <1>6, <1>9, <2>2 DEF FoundInv, HolderInv, LandedInv, PointerTo
    <3>4. ClosedInv'
      BY <1>4, <2>2 DEF FoundInv, HolderInv, ClosedInv, Moving, Rekeying, Leaving
    <3> QED
      BY <3>1, <3>2, <3>3, <3>4 DEF HolderInv
  <2> QED
    BY <1>8, <2>1, <2>2
<1>13. QED
  BY <1>7, <1>10, <1>11, <1>12 DEF FoundInv

\* A step of a process that changes no file, no folder and not the lock.
LEMMA ProcessStep ==
    ASSUME IInv, FoundInv, UNCHANGED <<files, data, accepted, moves, lock>>,
           holder # None => UNCHANGED <<at[holder], status[holder]>>,
           AppBusy' => AppBusy \/ dir[Named] # None,
           ProcsInv'
    PROVE  FoundInv'
<1>1. FolderInv' /\ JournalInv'
  BY WorldStill DEF FoundInv
<1>2. PointersInv'
  BY PointersLeft DEF FoundInv
<1>3. HolderInv'
  BY HolderLeft DEF FoundInv, JournalAt, Whole
<1>4. QED
  BY <1>1, <1>2, <1>3 DEF FoundInv

LEMMA FoundLocate ==
    ASSUME IInv, FoundInv, NEW p \in Procs, Locate(p)
    PROVE  FoundInv'
<1>1. InPlace
  BY AwayStranded DEF Locate, FoundInv
<1>2. ProcsInv'
  BY <1>1 DEF Locate, FoundInv, ProcsInv, AppBusy, InPlace, Whole, ProcsTypeOK, Named
<1>3. holder # None => holder # p
  BY DEF Locate, HolderShape
<1>4. QED
  BY <1>1, <1>2, <1>3, ProcessStep DEF Locate, InPlace, Whole, ProcsTypeOK

\* The folder a start opens is the one it found, so it makes none.
LEMMA FoundOpen ==
    ASSUME IInv, FoundInv, NEW p \in Procs, Open(p)
    PROVE  FoundInv'
<1>1. at[p] = Named /\ dir[Named] # None /\ Named \in Places
  BY NamedPlace DEF Open, FoundInv, ProcsInv
<1>2. dir[Named].kind = "data"
  BY <1>1 DEF FoundInv, FolderInv, InPlace, Whole, Away
<1>3. \A q \in Places : dir'[q] = dir[q]
  BY <1>1, <1>2, OpenEffect
<1>4. dir' = dir
  BY <1>3, OpenKeeps DEF DataTypeOK
<1>5. ProcsInv'
  BY <1>1, <1>4 DEF Open, FoundInv, ProcsInv, AppBusy, ProcsTypeOK, Named
<1>6. holder # None => holder # p
  BY DEF Open, HolderShape
<1>7. QED
  BY <1>1, <1>4, <1>5, <1>6, ProcessStep DEF Open, ProcsTypeOK

LEMMA FoundSkipSettle ==
    ASSUME IInv, FoundInv, NEW p \in Procs, SkipSettle(p)
    PROVE  FoundInv'
<1>1. ProcsInv'
  BY ProcsLeft DEF SkipSettle, FoundInv, ProcsTypeOK
<1>2. QED
  BY <1>1, ProcessStep DEF SkipSettle, AppBusy, ProcsTypeOK

LEMMA FoundCapture ==
    ASSUME IInv, FoundInv, NEW p \in Procs, NEW w \in Worktrees, Capture(p, w)
    PROVE  FoundInv'
<1>1. ProcsInv'
  BY ProcsLeft DEF Capture, FoundInv
<1>2. QED
  BY <1>1, ProcessStep DEF Capture, AppBusy

LEMMA FoundQuit ==
    ASSUME IInv, FoundInv, NEW p \in Procs, Quit(p)
    PROVE  FoundInv'
<1>1. ProcsInv'
  BY ProcsLeft DEF Quit, FoundInv, ProcsTypeOK
<1>2. QED
  BY <1>1, ProcessStep DEF Quit, AppBusy, ProcsTypeOK

\* A store that writes is the data dir's, and alone: every other folder has a
\* journal that lists something, and refuses.
LEMMA OpenAlone ==
    ASSUME IInv, FoundInv, NEW d \in Places, dir[d] # None, ~dir[d].refusing
    PROVE  /\ d = Named /\ InPlace /\ \A q \in Places \ {Named} : dir[q] = None
           /\ JournalAt(d) # None => ~Lists(d, JournalAt(d))
<1>1. JournalAt(d) # None => /\ ~Lists(d, JournalAt(d)) /\ JournalAt(d).from = d
                             /\ JournalAt(d).partial = NoPartial
  BY DEF FoundInv, JournalInv, ListedRefuse, Lists
<1>2. InPlace
  BY <1>1 DEF FoundInv, FolderInv, Away, RenamedTo
<1>3. d = Named
  BY <1>1, <1>2 DEF InPlace, Twin, Same
<1>4. QED
  BY <1>1, <1>2, <1>3 DEF InPlace, Twin

LEMMA FoundWrite ==
    ASSUME IInv, FoundInv, NEW p \in Procs, Write(p)
    PROVE  FoundInv'
<1>1. /\ fd[p] \in Places /\ ~dir[fd[p]].refusing
      /\ dir[fd[p]] # None
  <2>1. fd[p] \in Places /\ ~dir[fd[p]].refusing
    BY WriteEffect, PlacesAssumption
  <2> QED
    BY <2>1 DEF FolderShape
<1>3. fd[p] = Named /\ InPlace /\ \A q \in Places \ {Named} : dir[q] = None
  BY <1>1, OpenAlone
<1>4. /\ UNCHANGED <<files, moves, lock, status, at, fd>>
      /\ accepted' = accepted + 1 /\ Named' = Named /\ Named \in Places
  BY NamedPlace DEF Write, Named
<1>5. /\ \A q \in Places : /\ dir[q] = None <=> dir'[q] = None
                           /\ JournalAt(q)' = JournalAt(q)
                           /\ dir[q] # None => dir'[q].refusing = dir[q].refusing
      /\ dir'[Named].count = dir[Named].count + 1 /\ dir'[Named].kind = dir[Named].kind
  BY <1>3, <1>4, WriteEffect DEF JournalAt, InPlace, Whole
<1>6. Whole(Named)' /\ \A q \in Places : Whole(q) => Whole(q)'
  BY <1>3, <1>4, <1>5 DEF InPlace, Whole
<1>7. InPlace'
  BY <1>3, <1>4, <1>5, <1>6 DEF InPlace
<1>8. JournalInv'
  BY <1>4, <1>5 DEF FoundInv, JournalInv, ListedRefuse, JournalAt
<1>9. PointersInv'
  BY <1>4, PointersLeft DEF FoundInv
<1>10. ProcsInv'
  BY <1>3, <1>4, <1>5, ProcsLeft DEF FoundInv
<1>11. HolderInv'
  BY <1>4, <1>5, <1>6, HolderLeft DEF FoundInv
<1>12. QED
  BY <1>7, <1>8, <1>9, <1>10, <1>11 DEF FoundInv, FolderInv

\* A process that dies leaves its journal to the next start.
LEMMA FoundCrash ==
    ASSUME IInv, FoundInv, NEW p \in Procs, Crash(p)
    PROVE  FoundInv'
<1>1. ProcsInv'
  BY ProcsLeft DEF Crash, FoundInv, ProcsTypeOK
<1>2. CASE holder # p
  <2>1. UNCHANGED <<files, data, accepted, moves, lock, at>>
        /\ status' = [status EXCEPT ![p] = "off"]
    BY <1>2 DEF Crash
  <2> QED
    BY <1>1, <1>2, <2>1, ProcessStep DEF AppBusy, ProcsTypeOK
<1>3. CASE holder = p
  <2>1. UNCHANGED <<files, data, accepted, moves, at>> /\ (AppBusy' => AppBusy)
    BY DEF Crash, AppBusy, ProcsTypeOK
  <2>2. FolderInv' /\ JournalInv'
    BY <2>1, WorldStill DEF FoundInv
  <2>3. PointersInv' /\ HolderInv'
    BY <1>3, <2>1, PointersLeft, HolderRests DEF FoundInv, Crash, Clear
  <2> QED
    BY <1>1, <2>2, <2>3 DEF FoundInv
<1>4. QED
  BY <1>2, <1>3

\* A start that takes the lock relies on nothing yet.
LEMMA FoundBeginSettle ==
    ASSUME IInv, FoundInv, NEW p \in Procs, BeginSettle(p)
    PROVE  FoundInv'
<1>1. /\ UNCHANGED <<files, data, accepted, moves, procs>>
      /\ step' = "resume" /\ goal' = None /\ ~back'
  BY DEF BeginSettle, Hold, HolderShape, FoundInv, HolderInv, GoalInv, Ending, Rekeying
<1>2. FolderInv' /\ JournalInv'
  BY <1>1, WorldStill DEF FoundInv, AppBusy
<1>3. PointersInv' /\ ProcsInv' /\ HolderInv'
  BY <1>1, PointersLeft, ProcsLeft, HolderRests DEF FoundInv
<1>4. QED
  BY <1>2, <1>3 DEF FoundInv

\* A flavor with a pre-2.0 pointer makes its one move, and the other pointer
\* leads nowhere before it.
LEMMA FoundBeginMove ==
    ASSUME ~Overrun, IInv, FoundInv, NEW x \in Places, BeginMove(x)
    PROVE  FoundInv'
<1>1. /\ UNCHANGED <<files, data, accepted, procs>> /\ moves' = moves + 1
      /\ step' = "resume" /\ goal' = x /\ ~back' /\ holder' = App /\ status[App] = "up"
      /\ moves \in Nat
  BY DEF BeginMove, Hold, HolderShape, FoundInv, HolderInv, GoalInv, Ending, Rekeying,
     CountsTypeOK
<1>2. FolderInv' /\ JournalInv'
  BY <1>1, WorldStill DEF FoundInv, AppBusy
<1>3. HasLegacy => moves = 0
  <2>1. moves < MaxMoves /\ MaxMoves \in Nat
    BY BoundsAssumption DEF BeginMove
  <2> QED
    BY <1>1, <2>1 DEF Overrun
<1>4. PointersInv'
  BY <1>1, <1>3 DEF FoundInv, PointersInv
<1>5. ProcsInv' /\ HolderInv'
  BY <1>1, ProcsLeft, HolderRests DEF FoundInv
<1>6. QED
  BY <1>2, <1>4, <1>5 DEF FoundInv

\* The holder done, or with an earlier move settled and its own to make.
LEMMA HolderEnds ==
    ASSUME IInv, FoundInv, Release \/ (Settled /\ step \notin Leaving),
           UNCHANGED <<pointer, legacy, at, fd, moves>>, staged' \subseteq staged,
           dir[Named] # None => dir'[Named] # None
    PROVE  /\ PointersInv' /\ ProcsInv' /\ HolderInv'
           /\ AppBusy' => AppBusy
<1>1. /\ \A p \in Procs : status'[p] = status[p]
                          \/ (status[p] = "opened" /\ status'[p] = "up")
      /\ status' = status \/ goal' = None
      /\ step' \in {"idle", "check"} /\ ~back' /\ goal' \in {goal, None}
      /\ goal' # None => holder' = holder /\ step \notin Leaving
  BY DEF Settled, Release, Clear, Goto, ProcsTypeOK
<1>2. PointersInv'
  BY <1>1, PointersLeft DEF FoundInv, Leaving
<1>3. ProcsInv'
  BY <1>1, ProcsLeft DEF FoundInv
<1>4. HolderInv'
  BY <1>1, HolderRests DEF FoundInv, HolderInv, GoalInv
<1>5. AppBusy' => AppBusy
  BY <1>1 DEF AppBusy
<1>6. QED
  BY <1>2, <1>3, <1>4, <1>5

\* The triggers made or dropped where no journal is.
LEMMA RefusingAlike ==
    ASSUME IInv, InPlace, JournalAt(Named) = None, holder \in Procs,
           dir' = dir \/ \E b \in BOOLEAN : dir' = Refusing(b)
    PROVE  /\ DirAlike
           /\ \A q \in Places : JournalAt(q) = None /\ JournalAt(q)' = None
<1>1. \A q \in Places : JournalAt(q) = None
  BY DEF InPlace, Twin, JournalAt
<1>2. CASE dir' = dir
  BY <1>1, <1>2 DEF DirAlike, JournalAt
<1>3. ASSUME NEW b \in BOOLEAN, dir' = Refusing(b)
      PROVE  DirAlike /\ \A q \in Places : JournalAt(q)' = None
  <2>1. \A q \in Places : JournalAt(q)' = None
    BY <1>1, <1>3, RefusingEffect DEF JournalAt
  <2>2. DirAlike
    BY <1>1, <1>3, <2>1, RefusingEffect DEF DirAlike
  <2> QED
    BY <2>1, <2>2
<1>4. QED
  BY <1>1, <1>2, <1>3

LEMMA FoundResumeRefusing ==
    ASSUME IInv, FoundInv, ResumeRefusing
    PROVE  FoundInv'
<1>1. /\ InPlace /\ JournalAt(Named) = None /\ holder \in Procs
      /\ UNCHANGED <<files, accepted, at, fd, moves>>
      /\ Settled /\ step = "resume"
      /\ dir' = dir \/ \E b \in BOOLEAN : dir' = Refusing(b)
  BY AwayStranded DEF ResumeRefusing, Fault, FoundInv, HolderShape, LockTypeOK
<1>2. DirAlike
  BY <1>1, RefusingAlike
<1>3. PointersInv' /\ ProcsInv' /\ HolderInv' /\ (AppBusy' => AppBusy)
  BY <1>1, <1>2, NamedPlace, HolderEnds DEF DirAlike, Leaving
<1>4. QED
  BY <1>1, <1>2, <1>3, WorldLeft DEF FoundInv

LEMMA FoundReviveStore ==
    ASSUME IInv, FoundInv, ReviveStore
    PROVE  FoundInv'
<1>1. /\ JournalAt(Named) = None /\ holder \in Procs /\ dir[Named] # None
      /\ UNCHANGED <<files, accepted, at, fd, moves>>
      /\ Settled /\ step = "revive"
      /\ dir' = dir \/ \E b \in BOOLEAN : dir' = Refusing(b)
  BY DEF ReviveStore, Fault, FoundInv, HolderInv, EndInv, HolderShape, FolderShape,
     LockTypeOK
<1>2. InPlace
  BY <1>1 DEF FoundInv, FolderInv, Away
<1>3. DirAlike
  BY <1>1, <1>2, RefusingAlike
<1>4. PointersInv' /\ ProcsInv' /\ HolderInv' /\ (AppBusy' => AppBusy)
  BY <1>1, <1>3, NamedPlace, HolderEnds DEF DirAlike, Leaving
<1>5. QED
  BY <1>1, <1>3, <1>4, WorldLeft DEF FoundInv

\* While the app is up and moves, it is where the pointers lead.
LEMMA MovesHere ==
    ASSUME IInv, FoundInv, goal # None, step \notin Leaving
    PROVE  /\ holder = App /\ Here = Named /\ Store = Named /\ status[App] = "up"
           /\ InPlace /\ moves > 0 /\ Named \in Places
  BY NamedPlace DEF FoundInv, HolderInv, GoalInv, ProcsInv, AppBusy, FolderInv, Away,
     Here, Store

LEMMA FoundAbortUnjournaled ==
    ASSUME IInv, FoundInv, AbortUnjournaled
    PROVE  FoundInv'
<1>1. /\ goal # None /\ step \in {"retire", "journal"} /\ Release
      /\ UNCHANGED <<pointer, legacy, accepted, at, fd, moves>>
      /\ staged' \subseteq staged
  BY DEF AbortUnjournaled, HolderShape
<1>2. InPlace /\ JournalAt(Named) = None /\ holder \in Procs /\ dir[Named] # None
  BY <1>1, MovesHere DEF FoundInv, HolderInv, PrepareInv, Leaving, InPlace, Whole
<1>3. ASSUME NEW b \in BOOLEAN, dir' = Refusing(b) PROVE FoundInv'
  <2>1. DirAlike
    BY <1>2, <1>3, RefusingAlike
  <2>2. PointersInv' /\ ProcsInv' /\ HolderInv' /\ (AppBusy' => AppBusy)
    BY <1>1, <2>1, NamedPlace, HolderEnds DEF DirAlike, Leaving
  <2> QED
    BY <1>1, <1>2, <2>1, <2>2, WorldLeft DEF FoundInv
<1>4. ASSUME NEW b \in BOOLEAN, dir' = BareLeft(b) PROVE FoundInv'
  <2>1. /\ Here = Named /\ Named \in Places /\ Named' = Named /\ goal \in Places
    BY <1>1, MovesHere DEF Leaving, Named, LockTypeOK
  <2>2. \A q \in Places \ {Named} : dir[q] = None
    BY <1>2 DEF InPlace, Twin
  <2>3. /\ \A q \in Places \ {Named} : dir'[q] = None
        /\ dir'[Named] # None /\ dir'[Named].journal = Bare
        /\ dir'[Named].kind = dir[Named].kind /\ dir'[Named].count = dir[Named].count
    BY <1>2, <1>4, <2>1, <2>2, BareEffect
  <2>4. FolderInv'
    BY <1>1, <1>2, <2>1, <2>3 DEF FolderInv, InPlace, Whole
  <2>5. JournalAt(Named)' = Bare /\ \A q \in Places \ {Named} : JournalAt(q)' = None
    BY <2>1, <2>3 DEF JournalAt
  <2>6. Bare.from = Named /\ ~Lists(Named, Bare)
    BY <2>1 DEF Bare, Lists
  <2>7. JournalInv'
    BY <2>1, <2>5, <2>6 DEF JournalInv, ListedRefuse, Lists
  <2>8. PointersInv' /\ ProcsInv' /\ HolderInv'
    BY <1>1, <2>1, <2>3, HolderEnds DEF Leaving
  <2> QED
    BY <2>4, <2>7, <2>8 DEF FoundInv
<1>5. QED
  BY <1>3, <1>4 DEF AbortUnjournaled

\* A holder done that changed no file and no folder.
LEMMA FoundRest ==
    ASSUME IInv, FoundInv, Release \/ (Settled /\ step \notin Leaving),
           UNCHANGED <<files, dir, at, fd, accepted, moves>>
    PROVE  FoundInv'
<1>1. PointersInv' /\ ProcsInv' /\ HolderInv' /\ (AppBusy' => AppBusy)
  BY HolderEnds
<1>2. QED
  BY <1>1, WorldStill DEF FoundInv

LEMMA FoundEnds ==
    ASSUME IInv, FoundInv, ResumeNothing \/ RefuseMove \/ RelinkAndEnd \/ StopLanded
                            \/ KeepJournal
    PROVE  FoundInv'
<1>1. Release \/ (Settled /\ step \notin Leaving)
  BY DEF ResumeNothing, RefuseMove, RelinkAndEnd, StopLanded, KeepJournal, Leaving
<1>2. UNCHANGED <<files, dir, at, fd, accepted, moves>>
  BY DEF ResumeNothing, RefuseMove, RelinkAndEnd, StopLanded, KeepJournal
<1>3. QED
  BY <1>1, <1>2, FoundRest

LEMMA FoundStagePointer ==
    ASSUME IInv, FoundInv, StagePointer
    PROVE  FoundInv'
<1>1. /\ goal # None /\ step = "check" /\ JournalAt(Here) = None /\ step' = "retire"
      /\ UNCHANGED <<pointer, legacy, data, accepted, procs, holder, goal, rekey, moves>>
      /\ staged' = IF goal = Default THEN staged ELSE staged \cup {<<goal, moves>>}
  BY DEF StagePointer, HolderShape, Goto
<1>2. InPlace /\ Here = Named
  BY <1>1, MovesHere DEF Leaving
<1>3. FolderInv' /\ JournalInv'
  BY <1>1, <1>2, WorldStill DEF FoundInv, AppBusy, InPlace, Whole
<1>4. PointersInv' /\ ProcsInv'
  BY <1>1, ProcsLeft DEF FoundInv, PointersInv
<1>5. ~back
  BY <1>1 DEF FoundInv, HolderInv, GoalInv, Ending, Rekeying
<1>6. HolderInv'
  BY <1>1, <1>5 DEF FoundInv, HolderInv, GoalInv, PrepareInv, MoveInv, LandedInv,
     EndInv, ClosedInv, Moving, Ending, Leaving, Rekeying, StagedTo, JournalAt, Here
<1>7. QED
  BY <1>3, <1>4, <1>6 DEF FoundInv

LEMMA FoundRetireStore ==
    ASSUME IInv, FoundInv, RetireStore
    PROVE  FoundInv'
<1>1. /\ goal # None /\ step = "retire" /\ step' = "journal"
      /\ UNCHANGED <<files, accepted, procs, holder, goal, rekey, moves>>
      /\ dir' = Refusing(TRUE) /\ JournalAt(Here) = None /\ holder \in Procs
  BY DEF RetireStore, HolderShape, LockTypeOK, Goto, FoundInv, HolderInv, PrepareInv
<1>2. InPlace /\ Here = Named /\ Store = Named /\ Named \in Places
  BY <1>1, MovesHere DEF Leaving
<1>3. DirAlike /\ JournalAt(Named)' = None
  <2>1. DirAlike /\ \A q \in Places : JournalAt(q)' = None
    BY <1>1, <1>2, RefusingAlike
  <2>2. Named' = Named
    BY <1>1 DEF Named
  <2> QED
    BY <1>2, <2>1, <2>2
<1>4. FolderInv' /\ JournalInv'
  BY <1>1, <1>2, <1>3, WorldLeft DEF FoundInv, AppBusy, InPlace, Whole
<1>5. PointersInv' /\ ProcsInv'
  BY <1>1, <1>2, <1>3, ProcsLeft, PointersLeft DEF FoundInv, DirAlike
<1>6. dir'[Here].refusing /\ Here' = Named' /\ Named' = Named
  BY <1>1, <1>2, RefusingEffect DEF InPlace, Whole, Here, Named
<1>7. ~back
  BY <1>1 DEF FoundInv, HolderInv, GoalInv, Ending, Rekeying
<1>8. HolderInv'
  BY <1>1, <1>2, <1>3, <1>6, <1>7 DEF FoundInv, HolderInv, GoalInv, PrepareInv,
     MoveInv, LandedInv, EndInv, ClosedInv, Moving, Ending, Leaving, Rekeying, StagedTo
<1>9. QED
  BY <1>4, <1>5, <1>8 DEF FoundInv

\* The journal is written where no other folder is, and its store refuses.
LEMMA FoundWriteJournal ==
    ASSUME IInv, FoundInv, WriteJournal
    PROVE  FoundInv'
<1>1. /\ goal # None /\ step = "journal" /\ step' = "plan"
      /\ UNCHANGED <<files, accepted, procs, holder, goal, moves, back>>
      /\ dir' = Journaled(mem') /\ JournalAt(Here) = None /\ holder \in Procs
      /\ mem'.from = Here /\ mem'.to = goal /\ mem'.partial = NoPartial
      /\ dir[Here].refusing /\ StagedTo(goal) /\ dir[Here] # None
  BY DEF WriteJournal, HolderShape, LockTypeOK, Goto, FoundInv, HolderInv, PrepareInv,
     Bare
<1>2. mem' \in Journal
  BY WriteJournalKeeps, <1>1 DEF HolderShape, LockTypeOK
<1>3. InPlace /\ Here = Named /\ Named \in Places /\ Named' = Named /\ Here' = Here
  BY <1>1, MovesHere DEF Leaving, Named, Here
<1>4. \A q \in Places \ {Named} : dir[q] = None
  BY <1>1, <1>3 DEF InPlace, Twin
<1>5. /\ \A q \in Places \ {Named} : dir'[q] = None
      /\ dir'[Named] # None /\ dir'[Named].journal = mem' /\ dir'[Named].refusing
      /\ dir'[Named].kind = dir[Named].kind /\ dir'[Named].count = dir[Named].count
  BY <1>1, <1>2, <1>3, <1>4, JournaledEffect
<1>6. FolderInv' /\ JournalInv'
  <2>1. InPlace'
    BY <1>1, <1>3, <1>5 DEF InPlace, Whole
  <2>2. ListedRefuse'
    BY <1>5 DEF ListedRefuse, JournalAt
  <2> QED
    BY <1>1, <1>3, <1>5, <2>1, <2>2 DEF FolderInv, JournalInv, JournalAt
<1>7. PointersInv' /\ ProcsInv'
  BY <1>1, <1>5, ProcsLeft, PointersLeft DEF FoundInv
<1>8. ~back
  BY <1>1 DEF FoundInv, HolderInv, GoalInv, Ending, Rekeying
<1>9. Journals'
  BY <1>2, <1>3, <1>5, NoneAssumption DEF Journals, JournalAt, Same
<1>10. HolderInv'
  BY <1>1, <1>3, <1>5, <1>8, <1>9 DEF FoundInv, HolderInv, GoalInv, PrepareInv,
     MoveInv, LandedInv, EndInv, ClosedInv, Moving, Ending, Leaving, Rekeying, StagedTo
<1>11. QED
  BY <1>6, <1>7, <1>10 DEF FoundInv

\* A journal marked is that move's still.
LEMMA JournalAlike ==
    ASSUME IInv, holder \in Procs, JournalAt(Here) # None,
           NEW j \in Journal, Same(j, JournalAt(Here)), dir' = Journaled(j),
           dir[Here].refusing
    PROVE  DirAlike
<1>1. dir[Here] # None
  BY DEF JournalAt
<1>2. \A q \in Places : /\ dir'[q] = None <=> dir[q] = None
                        /\ dir[q] # None =>
                             /\ dir'[q].kind = dir[q].kind
                             /\ dir'[q].count = dir[q].count
                             /\ dir'[q].refusing = dir[q].refusing
                             /\ dir'[q].journal = IF q = Here THEN j ELSE dir[q].journal
  BY <1>1, JournaledEffect
<1>3. QED
  BY <1>2, NoneAssumption DEF DirAlike, JournalAt, Same

LEMMA FoundPlan ==
    ASSUME IInv, FoundInv, Plan
    PROVE  FoundInv'
<1>1. /\ step = "plan" /\ step' = "pick" /\ holder \in Procs /\ mem \in Journal
      /\ UNCHANGED <<files, accepted, procs, holder, goal, moves, back>>
      /\ mem' = [mem EXCEPT !.moved =
                   [w \in Worktrees |-> [state |-> "planned",
                                         capture |-> capture[w][mem.from]]]]
      /\ dir' = Journaled(mem')
  BY DEF Plan, HolderShape, LockTypeOK, Goto
<1>2. mem' \in Journal /\ Same(mem', mem)
  <2>1. mem' \in Journal
    BY PlanKeeps, <1>1 DEF HolderShape, LockTypeOK
  <2> QED
    BY <1>1, <2>1 DEF Journal, Same
<1>3. Journals /\ goal # None /\ ~back /\ dir[Here].refusing
  BY <1>1 DEF FoundInv, HolderInv, MoveInv, GoalInv, ClosedInv, Moving, Ending, Rekeying
<1>4. DirAlike
  BY <1>1, <1>2, <1>3, JournalAlike DEF Journals, Same
<1>5. FolderInv' /\ JournalInv'
  BY <1>1, <1>4, WorldLeft DEF FoundInv, AppBusy
<1>6. Named \in Places /\ Named' = Named /\ Here' = Here
  BY <1>1, NamedPlace DEF Named, Here
<1>7. PointersInv' /\ ProcsInv'
  BY <1>1, <1>4, <1>6, ProcsLeft, PointersLeft DEF FoundInv, DirAlike
<1>8. Journals'
  BY <1>2, <1>3, <1>4, <1>6 DEF Journals, DirAlike, Same
<1>a. dir'[Here].refusing
  BY <1>3, <1>4, <1>6 DEF Journals, DirAlike
<1>9. HolderInv'
  BY <1>1, <1>2, <1>3, <1>6, <1>8, <1>a DEF FoundInv, HolderInv, GoalInv, PrepareInv,
     MoveInv, LandedInv, EndInv, ClosedInv, Moving, Ending, Leaving, Rekeying, StagedTo, Same
<1>10. QED
  BY <1>5, <1>7, <1>9 DEF FoundInv

\* A move that fails before its folder landed is undone where the folder is.
LEMMA FoundAborts ==
    ASSUME IInv, RouteInv, FoundInv, NEW j \in Journal, Abort(j), Same(j, mem),
           Moving, step \notin LandedSteps,
           UNCHANGED <<dir, at, fd, status, accepted, moves>>
    PROVE  FoundInv'
<1>1. /\ Journals /\ mem.from = Here /\ mem # None
  BY DEF FoundInv, HolderInv, MoveInv, Moving, Leaving, Rekeying, HolderShape
<1>2. j.to # Named /\ Here = Named /\ dir[Named] # None
  BY <1>1 DEF RouteInv, Journals, Same, JournalAt
<1>3. /\ UNCHANGED <<pointer, legacy>> /\ staged' \subseteq staged
      /\ goal' = None
  BY DEF Abort
<1>4. FolderInv' /\ JournalInv'
  BY <1>2, <1>3, WorldStill DEF FoundInv, AppBusy
<1>5. PointersInv' /\ ProcsInv'
  BY <1>3, ProcsLeft, PointersLeft DEF FoundInv
<1>6. JournalAt(Here)' = JournalAt(Here)
  BY DEF Abort, JournalAt, Here
<1>7. HolderInv'
  BY <1>1, <1>2, <1>6, HolderAborts DEF FoundInv, HolderInv, ClosedInv, Journals, Same
<1>8. QED
  BY <1>4, <1>5, <1>7 DEF FoundInv

LEMMA FoundPlanRefused ==
    ASSUME IInv, RouteInv, FoundInv, PlanRefused
    PROVE  FoundInv'
<1>1. mem \in Journal /\ Same(mem, mem) /\ Moving /\ step \notin LandedSteps
  BY DEF PlanRefused, HolderShape, LockTypeOK, Moving, Same
<1>2. Abort(mem) /\ UNCHANGED <<dir, at, fd, status, accepted, moves>>
  BY DEF PlanRefused
<1>3. QED
  BY <1>1, <1>2, FoundAborts

\* A re-key that goes on leaves every folder where it is.
LEMMA FoundRekeys ==
    ASSUME IInv, FoundInv, Rekeying, Rekeying',
           UNCHANGED <<files, accepted, moves, holder, goal, back, status, at, fd>>,
           mem' # None, Same(mem', mem), DirAlike, step = "pick" => todo # {}
    PROVE  FoundInv'
<1>1. Journals /\ Here \in Places /\ Named \in Places /\ Here' = Here
  BY NamedPlace DEF FoundInv, HolderInv, MoveInv, EndInv, Moving, Ending, Rekeying,
     Leaving, Journals, Here
<1>2. FolderInv' /\ JournalInv'
  BY WorldLeft DEF FoundInv, AppBusy
<1>3. PointersInv' /\ ProcsInv'
  BY <1>1, ProcsLeft, PointersLeft DEF FoundInv, DirAlike, Rekeying
<1>4. HolderInv'
  BY <1>1, HolderRekeys DEF FoundInv, DirAlike, Journals, Same
<1>5. QED
  BY <1>2, <1>3, <1>4 DEF FoundInv

LEMMA FoundPicks ==
    ASSUME IInv, FoundInv, NEW w \in Worktrees, PickRekey(w) \/ PickNothing(w)
    PROVE  FoundInv'
<1>1. /\ Rekeying /\ Rekeying' /\ mem # None /\ mem' = mem /\ dir' = dir
      /\ UNCHANGED <<files, accepted, moves, holder, goal, back, status, at, fd>>
      /\ todo # {}
  BY DEF PickRekey, PickNothing, Goto, Rekeying, HolderShape
<1>2. QED
  BY <1>1, FoundRekeys DEF Same, DirAlike, JournalAt

LEMMA FoundRekeyRows ==
    ASSUME IInv, FoundInv, RekeyRows
    PROVE  FoundInv'
<1>1. /\ Rekeying /\ Rekeying' /\ mem # None /\ mem' = mem /\ step # "pick"
      /\ UNCHANGED <<files, accepted, moves, holder, goal, back, status, at, fd>>
  BY DEF RekeyRows, Goto, Rekeying, HolderShape
<1>2. DirAlike
  BY RowsEffect DEF DirAlike, JournalAt, Same
<1>3. QED
  BY <1>1, <1>2, FoundRekeys DEF Same

\* A re-key that fails fails the move, or is left by the undo.
LEMMA FoundFailed ==
    ASSUME IInv, RouteInv, FoundInv, Failed, step \in RekeySteps,
           UNCHANGED <<dir, at, fd, status, accepted, moves>>
    PROVE  FoundInv'
<1>1. mem \in Journal /\ cur \in Worktrees
  BY DEF HolderShape, LockTypeOK
<1>2. /\ Marked \in Journal /\ Same(Marked, mem)
      /\ Same(mem, mem)
  BY <1>1, JournalMarked DEF Marked, Same, Journal
<1>3. CASE back
  <2>1. /\ Rekeying /\ Rekeying' /\ mem' \in {mem, Marked}
        /\ UNCHANGED <<files, holder, goal, back>>
    BY <1>3 DEF Failed, Goto, Rekeying
  <2> QED
    BY <1>1, <1>2, <2>1, NoneAssumption, FoundRekeys DEF DirAlike, JournalAt, Same
<1>4. CASE ~back
  <2>1. PICK j \in {mem, Marked} : Abort(j)
    BY <1>4 DEF Failed
  <2>2. Moving /\ step \notin LandedSteps
    BY <1>4 DEF Moving, Rekeying
  <2> QED
    BY <1>1, <1>2, <2>1, <2>2, FoundAborts
<1>5. QED
  BY <1>3, <1>4

LEMMA FoundCaptures ==
    ASSUME IInv, RouteInv, FoundInv,
           CarryCapture \/ LeaveCapture \/ DropCapture \/ RekeyFault
    PROVE  FoundInv'
<1>1. /\ step \in RekeySteps /\ Rekeying /\ mem \in Journal
      /\ UNCHANGED <<dir, at, fd, status, accepted, moves>>
  BY DEF CarryCapture, LeaveCapture, DropCapture, RekeyFault, Rekeying, HolderShape,
     LockTypeOK
<1>2. CASE Failed
  BY <1>1, <1>2, FoundFailed
<1>3. CASE UNCHANGED <<files, rekey, holder, goal>> /\ step' \in RekeySteps
  <2>1. Rekeying'
    BY <1>3 DEF Rekeying
  <2> QED
    BY <1>1, <1>3, <2>1, NoneAssumption, FoundRekeys DEF DirAlike, JournalAt, Same
<1>4. CASE Abort(mem) /\ ~back
  <2>1. Moving /\ step \notin LandedSteps
    BY <1>1, <1>4 DEF Moving
  <2> QED
    BY <1>1, <1>4, <2>1, FoundAborts DEF Same
<1>5. QED
  BY <1>2, <1>3, <1>4 DEF CarryCapture, LeaveCapture, DropCapture, RekeyFault, Goto

LEMMA FoundMarkEntry ==
    ASSUME IInv, FoundInv, MarkEntry
    PROVE  FoundInv'
<1>1. /\ Rekeying /\ Rekeying' /\ mem \in Journal /\ cur \in Worktrees
      /\ holder \in Procs /\ dir' = Journaled(mem') /\ mem' = Marked
      /\ UNCHANGED <<files, accepted, moves, holder, goal, back, status, at, fd>>
  BY DEF MarkEntry, Goto, Rekeying, HolderShape, LockTypeOK
<1>2. mem' \in Journal /\ Same(mem', mem)
  BY <1>1, JournalMarked DEF Marked, Same, Journal
<1>3. Journals /\ dir[Here].refusing /\ step # "pick"
  BY DEF MarkEntry, FoundInv, HolderInv, MoveInv, EndInv, ClosedInv, Moving, Ending,
     Rekeying, Leaving
<1>4. DirAlike
  BY <1>1, <1>2, <1>3, JournalAlike DEF Journals, Same
<1>5. QED
  BY <1>1, <1>2, <1>3, <1>4, NoneAssumption, FoundRekeys

\* A start or a move that finds a journal takes it up where it finds it.
LEMMA FoundResumeJournal ==
    ASSUME IInv, FoundInv, ResumeJournal
    PROVE  FoundInv'
<1>1. /\ Named = Here /\ JournalAt(Here) # None /\ mem' = JournalAt(Here)
      /\ UNCHANGED <<files, data, accepted, moves, holder, goal, procs>>
      /\ back' = (mem'.to # Named) /\ step = "resume"
      /\ step' = IF back' THEN "pick" ELSE "unmake"
      /\ back' => todo' = {w \in Worktrees : mem'.moved[w].state # "none"}
  BY DEF ResumeJournal, Goto, JournalAt
<1>2. FolderInv' /\ JournalInv'
  BY <1>1, WorldStill DEF FoundInv, AppBusy
<1>3. PointersInv' /\ ProcsInv'
  BY <1>1, ProcsLeft, PointersLeft DEF FoundInv
<1>4. /\ Named' = Named /\ Here' = Here /\ JournalAt(Here)' = JournalAt(Here)
  BY <1>1 DEF Named, Here, JournalAt
<1>a. dir[Here].refusing \/ (back' => todo' = {})
  <2>1. dir[Here].refusing \/ mem'.moved = Unlisted
    BY <1>1, NamedPlace DEF FoundInv, JournalInv, ListedRefuse, Lists
  <2>2. mem'.moved = Unlisted => \A w \in Worktrees : mem'.moved[w].state = "none"
    BY DEF Unlisted
  <2> QED
    BY <1>1, <2>1, <2>2
<1>5. HolderInv'
  BY <1>1, <1>4, <1>a DEF FoundInv, HolderInv, GoalInv, PrepareInv, MoveInv, LandedInv,
     EndInv, ClosedInv, Moving, Ending, Leaving, Rekeying, Journals, Same
<1>6. QED
  BY <1>2, <1>3, <1>5 DEF FoundInv

\* A move on its way keeps its journal and its staged pointer.
LEMMA MovesOn ==
    ASSUME IInv, FoundInv, Moving, step \notin LandedSteps
    PROVE  /\ Journals /\ StagedTo(mem.to) /\ mem \in Journal
           /\ mem.from = Here /\ mem.to = goal /\ mem.from = Named
           /\ mem.from \in Places /\ mem.to \in Places
           /\ goal # None /\ holder = App /\ holder \in Procs /\ moves > 0
           /\ ~back /\ InPlace /\ Whole(Named) /\ JournalAt(Named) # None
           /\ Same(JournalAt(Named), mem)
<1>1. /\ Journals /\ StagedTo(mem.to) /\ mem.from = Here /\ mem.to = goal
      /\ goal # None /\ holder = App /\ moves > 0
  BY DEF FoundInv, HolderInv, MoveInv, GoalInv
<1>2. mem \in Journal /\ mem.from \in Places /\ mem.to \in Places
  BY JournalParts DEF Moving, Leaving, Rekeying, HolderShape, LockTypeOK
<1>3. ~back
  BY DEF FoundInv, HolderInv, GoalInv, Moving, Ending, Leaving, Rekeying
<1>4. InPlace
  BY <1>1 DEF FoundInv, FolderInv, Away, Journals, JournalAt
<1>5. QED
  BY <1>1, <1>2, <1>3, <1>4 DEF Journals, InPlace

LEMMA FoundReleasing ==
    ASSUME IInv, FoundInv, Releasing
    PROVE  FoundInv'
<1>1. /\ Moving /\ step = "pick" /\ step' = "rename"
      /\ UNCHANGED <<files, data, accepted, moves, holder, goal, rekey, at, fd>>
      /\ status' = [status EXCEPT ![holder] = "leaving"]
  BY DEF Releasing, Goto, Moving, Rekeying
<1>2. /\ Journals /\ goal # None /\ holder = App /\ InPlace /\ ~back
  BY <1>1, MovesOn
<1>3. FolderInv' /\ JournalInv'
  BY <1>1, <1>2, WorldStill DEF FoundInv, AppBusy, InPlace, Whole
<1>4. PointersInv' /\ ProcsInv'
  BY <1>1, <1>2, ProcsLeft, PointersLeft DEF FoundInv, ProcsTypeOK
<1>5. Journals' /\ status'[App] = "leaving"
  BY <1>1, <1>2 DEF Journals, JournalAt, Here, Named, ProcsTypeOK
<1>6. HolderInv'
  BY <1>1, <1>2, <1>5 DEF FoundInv, HolderInv, GoalInv, PrepareInv, MoveInv,
     LandedInv, EndInv, ClosedInv, Moving, Ending, Leaving, Rekeying, StagedTo, Here
<1>7. QED
  BY <1>3, <1>4, <1>6 DEF FoundInv

\* The folder renamed is the only one, and the pointer is due.
LEMMA RenamedAway ==
    ASSUME IInv, RouteInv, FoundInv, Unopened = {}, step = "rename", Renamed,
           NEW t \in Places, t = mem.to,
           UNCHANGED <<files, partials, at, status, accepted, moves>>
    PROVE  /\ FolderInv' /\ JournalInv' /\ ProcsInv'
           /\ Whole(t)' /\ dir'[t].journal = JournalAt(Named)
           /\ dir'[t] # None /\ dir'[t].refusing
<1>1. /\ Journals /\ StagedTo(mem.to) /\ mem.from = Named /\ mem.from # mem.to
      /\ mem.from \in Places /\ mem.to \in Places /\ mem.to = goal /\ goal # None
      /\ moves > 0 /\ InPlace /\ JournalAt(Named) # None /\ Same(JournalAt(Named), mem)
      /\ mem.partial = NoPartial /\ status[App] = "leaving"
  BY MovesOn DEF Moving, Leaving, RouteInv, FoundInv, HolderInv, MoveInv, GoalInv,
     HolderShape
<1>2. \A q \in Places \ {Named} : dir[q] = None
  BY <1>1 DEF InPlace, Twin, Same
<1>3. /\ \A q \in Places \ {t} : dir'[q] = None
      /\ dir'[t] = dir[Named]
  BY <1>1, <1>2 DEF Renamed, DataTypeOK
<1>4. Named' = Named
  BY DEF Named
<1>5. /\ Whole(t)' /\ JournalAt(t)' = JournalAt(Named)
      /\ dir'[t] # None /\ dir'[t].journal = JournalAt(Named)
  <2>1. Whole(Named) /\ dir[Named].journal = JournalAt(Named)
    BY <1>1 DEF InPlace, Whole, JournalAt
  <2> QED
    BY <1>3, <2>1 DEF Whole, JournalAt
<1>6. FolderInv'
  <2>1. RenamedTo(t)'
    BY <1>1, <1>3, <1>4, <1>5 DEF RenamedTo, StagedTo, Same
  <2>2. legacy # None => pointer = None
    BY <1>1 DEF FoundInv, PointersInv
  <2>3. Away'
    BY <1>1, <1>3, <1>4, <2>1, <2>2 DEF Away, AppBusy
  <2> QED
    BY <2>3 DEF FolderInv
<1>a. dir[Named].refusing
  BY <1>1 DEF FoundInv, HolderInv, ClosedInv, Moving, Leaving, Journals
<1>7. JournalInv'
  BY <1>1, <1>3, <1>4, <1>5, <1>a DEF JournalInv, ListedRefuse, JournalAt, Same
<1>8. ProcsInv'
  BY <1>1 DEF ProcsInv, AppBusy, Unopened
<1>9. QED
  BY <1>3, <1>5, <1>6, <1>7, <1>8, <1>a

LEMMA FoundRenameFolder ==
    ASSUME IInv, RouteInv, FoundInv, Unopened = {}, RenameFolder
    PROVE  FoundInv'
<1>1. /\ step = "rename" /\ step' = "pointer" /\ Renamed /\ mem.to \in Places
      /\ UNCHANGED <<files, partials, at, status, accepted, moves, holder, goal, rekey>>
  BY JournalParts DEF RenameFolder, Goto, HolderShape, LockTypeOK
<1>2. /\ mem.from = Here /\ mem.from = Named /\ mem.to = goal /\ goal # None
      /\ JournalAt(Named) # None /\ Same(JournalAt(Named), mem) /\ ~back
  BY <1>1, MovesOn DEF Moving, Leaving
<1>3. PICK t \in Places : t = mem.to
  BY <1>1
<1>4. /\ FolderInv' /\ JournalInv' /\ ProcsInv'
      /\ Whole(t)' /\ dir'[t].journal = JournalAt(Named) /\ dir'[t] # None
      /\ dir'[t].refusing
  BY <1>1, <1>3, RenamedAway
<1>5. PointersInv'
  BY <1>1, PointersLeft DEF FoundInv
<1>6. Whole(mem.to)' /\ JournalAt(mem.to)' # None /\ Same(JournalAt(mem.to)', mem)
  BY <1>1, <1>2, <1>3, <1>4 DEF Whole, JournalAt
<1>7. HolderInv'
  BY <1>1, <1>2, <1>3, <1>4, <1>6 DEF FoundInv, HolderInv, GoalInv, PrepareInv, MoveInv,
     LandedInv, EndInv, ClosedInv, Moving, Ending, Leaving, Rekeying, Here, Named, Same
<1>8. QED
  BY <1>4, <1>5, <1>7 DEF FoundInv

LEMMA FoundRenameFault ==
    ASSUME IInv, RouteInv, FoundInv, Unopened = {}, RenameFault
    PROVE  FoundInv'
<1>1. step = "rename" /\ UNCHANGED <<partials, at, accepted, moves>>
  BY DEF RenameFault
<1>2. mem \in Journal /\ mem.to \in Places /\ Moving /\ step \notin LandedSteps
  BY <1>1, JournalParts DEF HolderShape, LockTypeOK, Moving, Leaving
<1>3. CASE Abort(mem) /\ UNCHANGED <<dir, fd, status>>
  BY <1>1, <1>2, <1>3, FoundAborts DEF Same
<1>4. CASE Renamed /\ Release /\ UNCHANGED files
  <2>1. status' = status /\ step' = "idle" /\ ~back' /\ goal' = None
    BY <1>1, <1>2, <1>4, MovesOn DEF Release, Clear, ProcsTypeOK, FoundInv, HolderInv,
       GoalInv, Leaving
  <2>2. PICK t \in Places : t = mem.to
    BY <1>2
  <2>3. FolderInv' /\ JournalInv' /\ ProcsInv'
    BY <1>1, <1>4, <2>1, <2>2, RenamedAway
  <2>4. PointersInv' /\ HolderInv'
    BY <1>1, <1>4, <2>1, PointersLeft, HolderRests DEF FoundInv
  <2> QED
    BY <2>3, <2>4 DEF FoundInv
<1>5. QED
  BY <1>3, <1>4 DEF RenameFault

\* The journal names its copy before there is one.
LEMMA FoundCrossVolumes ==
    ASSUME IInv, FoundInv, CrossVolumes
    PROVE  FoundInv'
<1>1. /\ step = "rename" /\ step' = "copy" /\ dir' = Journaled(mem')
      /\ mem' = [mem EXCEPT !.partial = moves] /\ moves \in Nat
      /\ UNCHANGED <<files, at, status, fd, accepted, moves, holder, goal, back>>
  BY DEF CrossVolumes, Goto, CountsTypeOK
<1>2. /\ mem.from = Here /\ mem.from = Named /\ mem.to = goal /\ goal # None /\ moves > 0
      /\ JournalAt(Named) # None /\ Same(JournalAt(Named), mem) /\ ~back
      /\ mem \in Journal /\ holder \in Procs /\ InPlace /\ StagedTo(mem.to)
      /\ mem.partial = NoPartial /\ mem.from \in Places
  BY <1>1, MovesOn DEF Moving, Leaving, FoundInv, HolderInv, MoveInv
<1>3. /\ mem' \in Journal /\ mem'.from = mem.from /\ mem'.to = mem.to
      /\ mem'.partial # NoPartial
  BY <1>1, <1>2, JournalParts DEF Journal, NoPartial
<1>4. \A q \in Places \ {Named} : dir[q] = None
  BY <1>2 DEF InPlace, Twin, Same
<1>5. Named' = Named /\ Here' = Here
  BY <1>1 DEF Named, Here
<1>6. /\ \A q \in Places \ {Named} : dir'[q] = None
      /\ dir'[Named] # None /\ dir'[Named].journal = mem'
      /\ dir'[Named].refusing = dir[Named].refusing
      /\ dir'[Named].kind = dir[Named].kind /\ dir'[Named].count = dir[Named].count
  BY <1>1, <1>2, <1>3, <1>4, JournaledEffect DEF JournalAt
<1>7. FolderInv' /\ JournalInv'
  <2>1. InPlace'
    BY <1>1, <1>2, <1>5, <1>6 DEF InPlace, Whole
  <2>2. dir[Named].refusing
    BY <1>1, <1>2 DEF FoundInv, HolderInv, ClosedInv, Moving, Leaving
  <2>3. ListedRefuse'
    BY <1>6, <2>2 DEF ListedRefuse, JournalAt
  <2> QED
    BY <1>2, <1>3, <1>5, <1>6, <2>1, <2>3 DEF FolderInv, JournalInv, JournalAt
<1>8. PointersInv' /\ ProcsInv'
  BY <1>1, <1>6, ProcsLeft, PointersLeft DEF FoundInv
<1>9. Journals' /\ StagedTo(mem.to)'
  <2>1. Here' = Named' /\ JournalAt(Here)' = mem'
    BY <1>2, <1>5, <1>6 DEF JournalAt
  <2>2. Journals'
    BY <1>3, <2>1, NoneAssumption DEF Journals, Same
  <2>3. StagedTo(mem.to)'
    BY <1>1, <1>2, <1>3 DEF StagedTo
  <2> QED
    BY <2>2, <2>3
<1>a. dir'[Here].refusing
  BY <1>1, <1>2, <1>6 DEF FoundInv, HolderInv, ClosedInv, Moving, Leaving
<1>10. HolderInv'
  BY <1>1, <1>2, <1>3, <1>5, <1>9, <1>a DEF FoundInv, HolderInv, GoalInv, PrepareInv, MoveInv,
     LandedInv, EndInv, ClosedInv, Moving, Ending, Leaving, Rekeying
<1>11. QED
  BY <1>7, <1>8, <1>10 DEF FoundInv

LEMMA FoundStartCopy ==
    ASSUME IInv, FoundInv, StartCopy
    PROVE  FoundInv'
<1>1. /\ step = "copy" /\ step' = "land"
      /\ UNCHANGED <<files, dir, at, status, fd, accepted, moves, holder, goal, rekey>>
  BY DEF StartCopy, Goto
<1>2. FolderInv' /\ JournalInv'
  BY <1>1, WorldStill DEF FoundInv, AppBusy
<1>3. PointersInv' /\ ProcsInv'
  BY <1>1, ProcsLeft, PointersLeft DEF FoundInv
<1>4. HolderInv'
  BY <1>1 DEF FoundInv, HolderInv, GoalInv, PrepareInv, MoveInv, LandedInv, EndInv, ClosedInv,
     Moving, Ending, Leaving, Rekeying, Journals, JournalAt, Here, Named, StagedTo
<1>5. QED
  BY <1>2, <1>3, <1>4 DEF FoundInv

\* The copy landed is the other half of its move.
LEMMA LandedTwin ==
    ASSUME IInv, RouteInv, FoundInv, step = "land", Landed,
           NEW t \in Places, t = mem.to,
           UNCHANGED <<pointer, legacy, accepted>>
    PROVE  /\ FolderInv' /\ JournalInv'
           /\ Whole(t)' /\ dir'[t] = dir[Named] /\ t # Named /\ dir'[Named] = dir[Named]
           /\ dir[Named].refusing
<1>1. /\ mem.from = Named /\ mem.from # mem.to /\ Named \in Places
      /\ InPlace /\ JournalAt(Named) # None /\ Same(JournalAt(Named), mem)
      /\ mem.partial # NoPartial
  BY MovesOn DEF Moving, Leaving, RouteInv, FoundInv, HolderInv, MoveInv, HolderShape
<1>2. \A q \in Places \ {Named} : dir[q] = None
  BY <1>1 DEF InPlace, Twin, Same, Landed
<1>3. /\ \A q \in Places \ {Named, t} : dir'[q] = None
      /\ dir'[t] = dir[Named] /\ dir'[Named] = dir[Named] /\ t # Named
  BY <1>1, <1>2 DEF Landed, DataTypeOK
<1>4. Named' = Named
  BY DEF Named
<1>5. Whole(Named)' /\ Whole(t)'
  BY <1>1, <1>3, <1>4 DEF InPlace, Whole
<1>6. Twin(t)'
  BY <1>1, <1>3, <1>4 DEF Twin, JournalAt, Same
<1>a. dir[Named].refusing
  BY <1>1, MovesOn DEF FoundInv, HolderInv, ClosedInv, Moving, Leaving
<1>7. InPlace' /\ JournalInv'
  BY <1>1, <1>3, <1>4, <1>5, <1>6, <1>a DEF InPlace, FoundInv, JournalInv, ListedRefuse,
     JournalAt
<1>8. QED
  BY <1>3, <1>5, <1>7, <1>a DEF FolderInv

LEMMA FoundLandCopy ==
    ASSUME IInv, RouteInv, FoundInv, LandCopy
    PROVE  FoundInv'
<1>1. /\ step = "land" /\ step' = "pointer" /\ Landed /\ mem.to \in Places
      /\ UNCHANGED <<files, at, status, fd, accepted, moves, holder, goal, rekey>>
  BY JournalParts DEF LandCopy, Goto, HolderShape, LockTypeOK
<1>2. /\ mem.from = Here /\ mem.from = Named /\ mem.to = goal /\ goal # None
      /\ JournalAt(Named) # None /\ Same(JournalAt(Named), mem) /\ ~back
  BY <1>1, MovesOn DEF Moving, Leaving
<1>3. PICK t \in Places : t = mem.to
  BY <1>1
<1>4. /\ FolderInv' /\ JournalInv'
      /\ Whole(t)' /\ dir'[t] = dir[Named] /\ dir'[Named] = dir[Named]
      /\ dir[Named].refusing
  BY <1>1, <1>3, LandedTwin
<1>5. PointersInv' /\ ProcsInv'
  BY <1>1, <1>4, ProcsLeft, PointersLeft DEF FoundInv
<1>6. Whole(mem.to)' /\ JournalAt(mem.to)' # None /\ Same(JournalAt(mem.to)', mem)
  BY <1>1, <1>2, <1>3, <1>4 DEF Whole, JournalAt
<1>7. HolderInv'
  BY <1>1, <1>2, <1>3, <1>4, <1>6 DEF FoundInv, HolderInv, GoalInv, PrepareInv, MoveInv,
     LandedInv, EndInv, ClosedInv, Moving, Ending, Leaving, Rekeying, Here, Named, Same
<1>8. QED
  BY <1>4, <1>5, <1>7 DEF FoundInv

\* A copy that failed after it landed is removed by the undo.
LEMMA FoundCopyFault ==
    ASSUME IInv, RouteInv, FoundInv, CopyFault
    PROVE  FoundInv'
<1>1. /\ step \in {"copy", "land"} /\ Abort(mem)
      /\ UNCHANGED <<at, fd, status, accepted, moves>>
      /\ mem \in Journal /\ mem.to \in Places
  BY JournalParts DEF CopyFault, HolderShape, LockTypeOK
<1>2. Moving /\ step \notin LandedSteps
  BY <1>1 DEF Moving, Leaving
<1>3. CASE dir' = dir
  BY <1>1, <1>2, <1>3, FoundAborts DEF Same
<1>4. CASE step = "land" /\ Landed
  <2>1. PICK t \in Places : t = mem.to
    BY <1>1
  <2>2. /\ UNCHANGED <<pointer, legacy>> /\ staged' \subseteq staged /\ goal' = None
    BY <1>1 DEF Abort
  <2>3. /\ FolderInv' /\ JournalInv' /\ t # Named /\ dir'[Named] = dir[Named]
        /\ dir[Named].refusing
    BY <1>4, <1>1, <2>1, <2>2, LandedTwin
  <2>4. PointersInv' /\ ProcsInv'
    BY <1>1, <2>2, <2>3, ProcsLeft, PointersLeft DEF FoundInv
  <2>5. /\ Here = Named /\ JournalAt(Named) # None /\ Same(JournalAt(Named), mem)
    BY <1>2, MovesOn
  <2>6. Here' = Here /\ JournalAt(Here)' = JournalAt(Named)
    BY <1>1, <2>3, <2>5 DEF Abort, Here, JournalAt
  <2>7. HolderInv'
    BY <1>1, <2>1, <2>3, <2>5, <2>6, HolderAborts DEF FoundInv
  <2> QED
    BY <2>3, <2>4, <2>7 DEF FoundInv
<1>5. QED
  BY <1>3, <1>4 DEF CopyFault

\* A move that landed has its folder at its end, and what the pointers lead to.
LEMMA LandsWhole ==
    ASSUME IInv, RouteInv, FoundInv, step \in LandedSteps
    PROVE  /\ mem.from \in Places /\ mem.to \in Places /\ mem.from # mem.to
           /\ Whole(mem.to) /\ JournalAt(mem.to) # None /\ Same(JournalAt(mem.to), mem)
           /\ Named \in {mem.from, mem.to}
           /\ goal = mem.to /\ goal # None /\ holder = App /\ status[App] = "leaving"
           /\ moves > 0 /\ mem.from = Here /\ ~back /\ Moving
  BY JournalParts DEF RouteInv, FoundInv, HolderInv, LandedInv, MoveInv, GoalInv, Moving,
     Ending, Leaving, Rekeying, HolderShape, LockTypeOK

\* The pointers lead to the folder that landed, or where they did.
LEMMA PointerCommitted ==
    ASSUME IInv, RouteInv, FoundInv, Unopened = {}, step \in LandedSteps,
           UNCHANGED <<dir, accepted, moves, status, at, fd>>,
           NEW t \in Places, t = mem.to,
           Named' = t \/ (Named' = Named /\ UNCHANGED <<staged, legacy>> /\ pointer' = None)
    PROVE  FolderInv' /\ JournalInv' /\ ProcsInv'
<1>1. /\ mem.from \in Places /\ mem.from # t /\ Named \in {mem.from, t}
      /\ Whole(t) /\ JournalAt(t) # None /\ Same(JournalAt(t), mem)
      /\ status[App] = "leaving"
  BY LandsWhole
<1>2. /\ \A q \in Places : JournalAt(q)' = JournalAt(q) /\ (Whole(q) <=> Whole(q)')
      /\ ListedRefuse'
  BY DEF JournalAt, Whole, FoundInv, JournalInv, ListedRefuse
<1>3. ProcsInv'
  BY <1>1 DEF ProcsInv, AppBusy, Unopened
<1>4. CASE Named' = t
  <2>1. ASSUME NEW q \in Places \ {t}, dir[q] # None PROVE Twin(q)'
    <3>1. InPlace
      BY <1>1, <2>1 DEF FoundInv, FolderInv, Away, RenamedTo, Whole
    <3>2. CASE Named = t
      BY <1>2, <1>4, <2>1, <3>1, <3>2 DEF InPlace, Twin
    <3>3. CASE Named # t
      <4>1. Twin(t) /\ Named = mem.from
        BY <1>1, <3>1, <3>3 DEF InPlace, Whole
      <4>2. CASE q = Named
        BY <1>1, <1>2, <1>4, <4>1, <4>2 DEF Twin, Same
      <4>3. CASE q # Named
        <5>1. Twin(q)
          BY <2>1, <3>1, <4>3 DEF InPlace
        <5> QED
          BY <1>1, <1>2, <1>4, <4>1, <5>1 DEF Twin, Same
      <4> QED
        BY <4>2, <4>3
    <3> QED
      BY <3>2, <3>3
  <2>2. InPlace'
    BY <1>1, <1>2, <1>4, <2>1 DEF InPlace
  <2>3. JournalInv'
    BY <1>1, <1>2, <1>4 DEF JournalInv, Same
  <2> QED
    BY <1>3, <2>2, <2>3 DEF FolderInv
<1>5. CASE Named' = Named /\ UNCHANGED <<staged, legacy>> /\ pointer' = None
  <2>1. InPlace => InPlace'
    BY <1>2, <1>5, NamedPlace DEF InPlace, Twin
  <2>2. Away => Away'
    BY <1>2, <1>5 DEF Away, AppBusy, RenamedTo
  <2>3. JournalInv'
    BY <1>2, <1>5, NamedPlace DEF FoundInv, JournalInv
  <2> QED
    BY <1>3, <2>1, <2>2, <2>3 DEF FoundInv, FolderInv
<1>6. QED
  BY <1>4, <1>5

\* The holder past its landing, with its pointer committed.
LEMMA LandedOn ==
    ASSUME IInv, RouteInv, FoundInv, step \in LandedSteps, step' \in {"legacy", "links"},
           UNCHANGED <<dir, accepted, moves, status, at, fd, holder, goal, rekey>>,
           pointer' = PointerTo(mem.to), Named' \in {mem.from, mem.to},
           step' = "links" => legacy' = None
    PROVE  HolderInv'
<1>1. GoalInv' /\ PrepareInv' /\ MoveInv' /\ EndInv'
  BY LandsWhole DEF FoundInv, HolderInv, GoalInv, PrepareInv, MoveInv, EndInv, Moving,
     Ending, Leaving, Rekeying, Here
<1>2. LandedInv'
  BY LandsWhole DEF LandedInv, Whole, JournalAt, PointerTo, Same
<1>3. ClosedInv'
  BY LandsWhole DEF FoundInv, HolderInv, ClosedInv, Moving, Rekeying, Leaving
<1>4. QED
  BY <1>1, <1>2, <1>3 DEF HolderInv

LEMMA FoundCommitPointer ==
    ASSUME IInv, RouteInv, FoundInv, Unopened = {}, CommitPointer
    PROVE  FoundInv'
<1>1. /\ step = "pointer" /\ step' = "legacy" /\ staged' \subseteq staged
      /\ UNCHANGED <<legacy, dir, accepted, moves, status, at, fd, holder, goal, rekey>>
      /\ pointer' = PointerTo(mem.to) /\ (mem.to = Default => staged' = staged)
  BY DEF CommitPointer, Goto, PointerTo
<1>2. /\ mem.from \in Places /\ mem.to \in Places /\ Named \in {mem.from, mem.to}
      /\ goal = mem.to /\ goal # None /\ moves > 0
  BY <1>1, LandsWhole
<1>3. legacy # None => pointer = None \/ mem.to # Default
  BY <1>2 DEF FoundInv, PointersInv
<1>4. Named' = mem.to \/ (Named' = Named /\ UNCHANGED <<staged, legacy>> /\ pointer' = None)
  BY <1>1, <1>2, <1>3 DEF Named, PointerTo
<1>5. FolderInv' /\ JournalInv' /\ ProcsInv'
  <2>1. PICK t \in Places : t = mem.to
    BY <1>2
  <2> QED
    BY <1>1, <1>4, <2>1, PointerCommitted
<1>6. PointersInv'
  BY <1>1, <1>2 DEF FoundInv, PointersInv, PointerTo
<1>7. HolderInv'
  BY <1>1, <1>2, <1>4, LandedOn
<1>8. QED
  BY <1>5, <1>6, <1>7 DEF FoundInv

\* With the pre-2.0 pointer gone the pointers lead to the folder.
LEMMA FoundClearLegacy ==
    ASSUME IInv, RouteInv, FoundInv, Unopened = {}, ClearLegacy
    PROVE  FoundInv'
<1>1. /\ step = "legacy" /\ step' = "links" /\ legacy' = None
      /\ UNCHANGED <<pointer, staged, dir, accepted, moves, status, at, fd, holder, goal,
                     rekey>>
      /\ pointer = PointerTo(mem.to)
  BY DEF ClearLegacy, Goto, FoundInv, HolderInv, LandedInv
<1>2. mem.to \in Places /\ moves > 0
  BY <1>1, LandsWhole
<1>3. Named' = mem.to
  BY <1>1, <1>2 DEF Named, PointerTo
<1>4. FolderInv' /\ JournalInv' /\ ProcsInv'
  <2>1. PICK t \in Places : t = mem.to
    BY <1>2
  <2> QED
    BY <1>1, <1>3, <2>1, PointerCommitted
<1>5. PointersInv'
  BY <1>1 DEF FoundInv, PointersInv
<1>6. HolderInv'
  BY <1>1, <1>3, LandedOn
<1>7. QED
  BY <1>4, <1>5, <1>6 DEF FoundInv

\* An undo or a finish is where the pointers lead, with its journal there, and
\* the only other folder is the copy it removes.
LEMMA EndsHere ==
    ASSUME IInv, FoundInv, Ending
    PROVE  /\ Journals /\ Here = Named /\ Named \in Places /\ holder \in Procs
           /\ mem \in Journal /\ Copy \in Places /\ step \notin Leaving
           /\ (back <=> mem.to # Named) /\ InPlace
           /\ \A q \in Places \ {Named} : dir[q] # None => q = Copy /\ OwnCopy
<1>1. /\ Journals /\ Here = Named /\ (back <=> mem.to # Named)
  BY DEF FoundInv, HolderInv, EndInv, Journals
<1>2. /\ mem \in Journal /\ mem.from \in Places /\ mem.to \in Places /\ holder \in Procs
      /\ step \notin Leaving
  BY JournalParts DEF Ending, Leaving, Rekeying, HolderShape, LockTypeOK
<1>3. InPlace /\ Named \in {mem.from, mem.to} /\ JournalAt(Named) # None
  BY <1>1 DEF FoundInv, FolderInv, Away, JournalInv, Journals, JournalAt, Same
<1>4. ASSUME NEW q \in Places \ {Named}, dir[q] # None PROVE q = Copy /\ OwnCopy
  <2>1. Twin(q)
    BY <1>3, <1>4 DEF InPlace
  <2> QED
    BY <1>1, <1>3, <2>1 DEF Twin, Journals, Same, Copy, OwnCopy
<1>5. QED
  BY <1>1, <1>2, <1>3, <1>4, NamedPlace DEF Copy

\* An undo or a finish that goes on, with the folder where it was.
LEMMA EndsOn ==
    ASSUME IInv, FoundInv, Ending, step' \in {"unmake", "unmakeHusk", "repair", "letGo"},
           UNCHANGED <<files, accepted, moves, holder, goal, mem, back, status, at>>,
           FolderInv', JournalInv', ProcsInv', Journals',
           step' \in {"repair", "letGo"} /\ good'
               => \A q \in Places \ {Named} : dir'[q] = None
    PROVE  FoundInv'
<1>1. Named' = Named /\ ~Moving' /\ step' \notin Leaving /\ step \notin Leaving
  BY DEF Named, Moving, Ending, Rekeying, Leaving
<1>2. PointersInv'
  BY PointersLeft, <1>1 DEF FoundInv, Leaving
<1>3. HolderInv'
  BY <1>1 DEF FoundInv, HolderInv, GoalInv, PrepareInv, MoveInv, LandedInv, EndInv, ClosedInv,
     Ending, Rekeying, Leaving
<1>4. QED
  BY <1>2, <1>3 DEF FoundInv

LEMMA FoundEndsOn ==
    ASSUME IInv, FoundInv, UndoneRekeys \/ UnmakeFault \/ Repair
    PROVE  FoundInv'
<1>1. /\ Ending /\ step' \in {"unmake", "repair", "letGo"}
      /\ UNCHANGED <<files, data, accepted, moves, holder, goal, mem, back, procs>>
      /\ step' \in {"repair", "letGo"} /\ good' => step = "repair" /\ good
  BY DEF UndoneRekeys, UnmakeFault, Repair, Goto, AfterCopy, Ending, Rekeying
<1>2. /\ FolderInv' /\ JournalInv'
  BY <1>1, WorldStill DEF FoundInv, AppBusy
<1>3. ProcsInv'
  BY <1>1, ProcsLeft DEF FoundInv
<1>4. Journals'
  BY <1>1, EndsHere DEF Journals, JournalAt, Here, Named
<1>5. step = "repair" /\ good => \A q \in Places \ {Named} : dir[q] = None
  BY DEF FoundInv, HolderInv, EndInv
<1>6. QED
  BY <1>1, <1>2, <1>3, <1>4, <1>5, EndsOn

LEMMA FoundUnmake ==
    ASSUME IInv, FoundInv, Unmake
    PROVE  FoundInv'
<1>1. /\ step = "unmake" /\ Ending
      /\ UNCHANGED <<files, accepted, moves, holder, goal, mem, back, good, status, at>>
      /\ IF OwnCopy THEN step' = "unmakeHusk" /\ Closed(Copy)
                    ELSE step' \in {"repair", "letGo"} /\ fd' = fd
  BY DEF Unmake, Goto, AfterCopy, Ending
<1>2. /\ Here = Named /\ Named \in Places /\ InPlace /\ Journals /\ Copy \in Places
      /\ \A q \in Places \ {Named} : dir[q] # None => q = Copy /\ OwnCopy
  BY <1>1, EndsHere
<1>3. OwnCopy => Copy # Named
  BY <1>2 DEF OwnCopy
<1>4. /\ dir'[Named] = dir[Named]
      /\ \A q \in Places : /\ dir'[q] = None <=> dir[q] = None
                           /\ JournalAt(q)' = JournalAt(q)
                           /\ dir[q] # None => dir'[q].refusing = dir[q].refusing
  BY <1>2, <1>3, UnmakeEffect DEF JournalAt
<1>5. Named' = Named /\ Here' = Here
  BY <1>1 DEF Named, Here
<1>6. InPlace' /\ JournalInv'
  BY <1>1, <1>2, <1>4, <1>5 DEF InPlace, Whole, Twin, FoundInv, JournalInv, ListedRefuse
<1>7. ProcsInv'
  BY <1>1, <1>2, <1>3, <1>4, <1>5 DEF FoundInv, ProcsInv, AppBusy, Closed, ProcsTypeOK
<1>8. Journals'
  BY <1>1, <1>2, <1>4, <1>5 DEF Journals
<1>9. ~OwnCopy => \A q \in Places \ {Named} : dir'[q] = None
  BY <1>2, <1>4
<1>10. QED
  BY <1>1, <1>6, <1>7, <1>8, <1>9, EndsOn DEF FolderInv

LEMMA FoundUnmakeHusk ==
    ASSUME IInv, FoundInv, UnmakeHusk
    PROVE  FoundInv'
<1>1. /\ step = "unmakeHusk" /\ Ending /\ Copy # Here
      /\ UNCHANGED <<files, accepted, moves, holder, goal, mem, back, good, status, at>>
      /\ step' \in {"repair", "letGo"} /\ Closed(Copy)
      /\ dir' = [dir EXCEPT ![Copy] = None]
  BY DEF UnmakeHusk, Goto, AfterCopy, Ending, HolderShape
<1>2. /\ Here = Named /\ Named \in Places /\ InPlace /\ Journals /\ Copy \in Places
      /\ \A q \in Places \ {Named} : dir[q] # None => q = Copy
  BY <1>1, EndsHere
<1>3. /\ dir'[Named] = dir[Named]
      /\ \A q \in Places \ {Named} : dir'[q] = None
  BY <1>1, <1>2 DEF DataTypeOK
<1>4. Named' = Named /\ Here' = Here
  BY <1>1 DEF Named, Here
<1>5. InPlace' /\ JournalInv'
  BY <1>1, <1>2, <1>3, <1>4 DEF InPlace, Whole, FoundInv, JournalInv, ListedRefuse,
     JournalAt
<1>6. ProcsInv'
  BY <1>1, <1>2, <1>3, <1>4 DEF FoundInv, ProcsInv, AppBusy, Closed, ProcsTypeOK
<1>7. Journals'
  BY <1>1, <1>2, <1>3, <1>4 DEF Journals, JournalAt
<1>8. QED
  BY <1>1, <1>3, <1>5, <1>6, <1>7, EndsOn DEF FolderInv

\* The journal goes when no copy is left.
LEMMA FoundLetGo ==
    ASSUME IInv, FoundInv, LetGo
    PROVE  FoundInv'
<1>1. /\ step = "letGo" /\ good /\ Ending /\ step' = "revive"
      /\ UNCHANGED <<files, accepted, moves, holder, goal, rekey, procs>>
      /\ dir' = Journaled(None)
  BY DEF LetGo, Goto, Ending
<1>2. /\ Here = Named /\ Named \in Places /\ InPlace /\ holder \in Procs
      /\ dir[Named] # None /\ \A q \in Places \ {Named} : dir[q] = None
  BY <1>1, EndsHere DEF FoundInv, HolderInv, EndInv, InPlace, Whole
<1>3. /\ \A q \in Places \ {Named} : dir'[q] = None
      /\ dir'[Named] # None /\ dir'[Named].journal = None
      /\ dir'[Named].kind = dir[Named].kind /\ dir'[Named].count = dir[Named].count
  BY <1>1, <1>2, JournaledEffect
<1>4. Named' = Named /\ Here' = Here
  BY <1>1 DEF Named, Here
<1>5. InPlace' /\ JournalInv'
  BY <1>1, <1>2, <1>3, <1>4 DEF InPlace, Whole, JournalInv, ListedRefuse, JournalAt
<1>6. ProcsInv' /\ PointersInv'
  BY <1>1, <1>3, ProcsLeft, PointersLeft DEF FoundInv
<1>7. HolderInv'
  BY <1>1, <1>2, <1>3, <1>4 DEF FoundInv, HolderInv, GoalInv, PrepareInv, MoveInv,
     LandedInv, EndInv, ClosedInv, Moving, Ending, Rekeying, Leaving, JournalAt
<1>8. QED
  BY <1>5, <1>6, <1>7 DEF FoundInv, FolderInv

--------------------------------------------------------------------------------

LEMMA FoundInit == Init => FoundInv
<1> SUFFICES ASSUME Init PROVE FoundInv
  OBVIOUS
<1>1. Named \in Places
  BY DEF Init, InitFiles, Named
<1>2. /\ dir[Named] # None /\ dir[Named].kind = "data" /\ dir[Named].count = accepted
      /\ \A q \in Places \ {Named} : dir[q] = None
      /\ \A q \in Places : JournalAt(q) = None
  <2>1. ASSUME NEW q \in Places
        PROVE  dir[q] = IF q = Named
                          THEN [kind |-> "data", refusing |-> FALSE, count |-> 0,
                                rows |-> [w \in Worktrees |-> Named], journal |-> None]
                          ELSE None
    BY DEF Init
  <2>2. dir[Named] # None
    <3>1. [kind |-> "data", refusing |-> FALSE, count |-> 0,
           rows |-> [w \in Worktrees |-> Named], journal |-> None] \in Folder
      BY <1>1 DEF Folder
    <3> QED
      BY <1>1, <2>1, <3>1, NoneAssumption
  <2> QED
    BY <1>1, <2>1, <2>2 DEF Init, JournalAt
<1>3. FolderInv /\ JournalInv
  BY <1>1, <1>2 DEF FolderInv, InPlace, Whole, JournalInv, ListedRefuse
<1>4. PointersInv /\ ProcsInv
  BY DEF Init, InitFiles, PointersInv, ProcsInv, AppBusy
<1>5. HolderInv
  BY DEF Init, HolderInv, GoalInv, PrepareInv, MoveInv, LandedInv, EndInv, ClosedInv, Moving, Ending,
     Rekeying, Leaving
<1>6. QED
  BY <1>3, <1>4, <1>5 DEF FoundInv

\* Every step keeps what a start finds.
LEMMA FoundKept ==
    ASSUME ~Overrun, IInv, RouteInv, FoundInv, [Next]_vars
    PROVE  FoundInv'
<1>1. ASSUME NEW p \in Procs, Open(p) PROVE FoundInv'
  BY <1>1, FoundOpen
<1>2. CASE UNCHANGED vars
  <2>1. UNCHANGED <<files, data, accepted, moves, lock, procs>>
    BY <1>2 DEF vars
  <2>2. ProcsInv'
    BY <2>1, ProcsLeft DEF FoundInv
  <2> QED
    BY <2>1, <2>2, ProcessStep DEF AppBusy
<1>3. ASSUME Unopened = {}, HolderStep PROVE FoundInv'
  <2>1. CASE ResumeStep
    BY <2>1, FoundEnds, FoundResumeRefusing, FoundResumeJournal DEF ResumeStep
  <2>2. CASE PrepareStep
    BY <2>2, FoundEnds, FoundStagePointer, FoundRetireStore, FoundAbortUnjournaled,
       FoundWriteJournal, FoundPlan, FoundPlanRefused DEF PrepareStep
  <2>3. CASE RekeyStep
    BY <2>3, FoundPicks, FoundRekeyRows, FoundCaptures, FoundMarkEntry DEF RekeyStep
  <2>4. CASE LandStep
    BY <1>3, <2>4, FoundReleasing, FoundRenameFolder, FoundRenameFault,
       FoundCrossVolumes, FoundStartCopy, FoundLandCopy, FoundCopyFault,
       FoundCommitPointer, FoundClearLegacy, FoundEnds DEF LandStep
  <2>5. CASE EndStep
    BY <2>5, FoundEndsOn, FoundUnmake, FoundUnmakeHusk, FoundEnds, FoundLetGo,
       FoundReviveStore DEF EndStep
  <2> QED
    BY <1>3, <2>1, <2>2, <2>3, <2>4, <2>5 DEF HolderStep
<1>4. ASSUME NEW p \in Procs, StartStep(p) \/ Write(p) \/ Quit(p) \/ Crash(p)
      PROVE  FoundInv'
  BY <1>4, FoundLocate, FoundBeginSettle, FoundSkipSettle, FoundWrite, FoundQuit,
     FoundCrash DEF StartStep
<1>5. ASSUME NEW p \in Procs, NEW w \in Worktrees, Capture(p, w) PROVE FoundInv'
  BY <1>5, FoundCapture
<1>6. ASSUME NEW p \in Places, BeginMove(p) PROVE FoundInv'
  BY <1>6, FoundBeginMove
<1>7. ASSUME NEW p \in Places, NEW dropped \in BOOLEAN, Rescue(p, dropped)
      PROVE  FoundInv'
  BY <1>7, FoundRescue
<1>8. AtomicStart
  BY DEF Overrun
<1>9. QED
  BY <1>1, <1>2, <1>3, <1>4, <1>5, <1>6, <1>7, <1>8 DEF Next

LEMMA FoundAlways ==
    ASSUME ~Overrun PROVE Spec => [](IInv /\ RouteInv /\ FoundInv)
<1>1. Init => IInv /\ RouteInv /\ FoundInv
  BY InitHolds, CaptureInit, FoundInit
<1>2. IInv /\ RouteInv /\ FoundInv /\ [Next]_vars => (IInv /\ RouteInv /\ FoundInv)'
  BY NextKeeps, RouteKeeps, FoundKept
<1>3. QED
  BY <1>1, <1>2, PTL DEF Spec

\* At every instant of a move, an undo or a finish, whatever crashed or failed
\* and whichever of several moves it is, a start finds the user's own data dir,
\* with every write a store ever took (Paths.ts, locate; dataDirMove.ts).
THEOREM FindsTheDataDir == ASSUME ~Overrun PROVE Spec => []FoundWhole
<1>1. IInv /\ RouteInv /\ FoundInv => FoundWhole
  BY FindsWhole DEF FoundInv
<1>2. QED
  BY <1>1, FoundAlways, PTL

\* A store that writes under a journal has one that lists nothing, and no holder
\* makes its move: who may be there undoes it.
LEMMA OpenGivenUp ==
    ASSUME IInv, RouteInv, FoundInv, NEW p \in Places, JournalAt(p) # None,
           ~dir[p].refusing
    PROVE  GivenUp(p)
<1>1. ~Lists(p, JournalAt(p)) /\ JournalAt(p).from = p
  BY OpenAlone DEF JournalAt, Lists
<1>2. \A q \in Places \ {Named} : dir[q] = None
  BY OpenAlone DEF JournalAt
<1>3. p = Named
  BY OpenAlone DEF JournalAt
<1>4. ASSUME Moving, step \notin LandedSteps PROVE FALSE
  BY <1>3, <1>4, MovesOn DEF FoundInv, HolderInv, ClosedInv, Journals
<1>5. ASSUME step \in LandedSteps PROVE FALSE
  <2>1. mem.to \in Places /\ dir[mem.to] # None /\ dir[mem.to].refusing
    BY <1>5, LandsWhole DEF FoundInv, HolderInv, ClosedInv, Whole
  <2> QED
    BY <1>2, <1>3, <2>1
<1>6. ASSUME Ending, ~back PROVE FALSE
  <2>1. mem.to = Named /\ Same(JournalAt(Named), mem)
    BY <1>6, EndsHere DEF Journals
  <2> QED
    BY <1>1, <1>3, <2>1 DEF RouteInv, Same
<1>7. step # "revive"
  BY <1>3 DEF FoundInv, HolderInv, EndInv
<1>8. QED
  BY <1>1, <1>4, <1>5, <1>6, <1>7 DEF GivenUp, Moving, Ending, Rekeying, Leaving

\* Wherever the journal of a move is, its store refuses every write but the move's,
\* so no undo loses one; a journal that lists nothing, given up on as it was written,
\* is the one a store may write under (dataDirMove.ts, header).
THEOREM RefusesWhileJournaled == ASSUME ~Overrun PROVE Spec => []JournalRefuses
<1>1. IInv /\ RouteInv /\ FoundInv => JournalRefuses
  BY OpenGivenUp DEF JournalRefuses
<1>2. QED
  BY <1>1, FoundAlways, PTL

--------------------------------------------------------------------------------
(* What stands once the store writes again, and the promise to the rest of   *)
(* sm.  With d the folder a start finds: what it keeps where no journal is   *)
(* (QuietAt), where its journal is of a move from it (LeftAt) or to it       *)
(* (ReachedAt), and how far the holder's work at it has come (WorkAt).  A    *)
(* process whose folder moved away under it is behind by that move           *)
(* (StoreInv), so with two moves at most the store an undo re-keys is the    *)
(* one of the folder found.  The promise is read off the same steps: the     *)
(* place it names changes as the folder is renamed, or as the pointer to a   *)
(* copy equal to it is committed.                                            *)

LEMMA FoundPlace == IInv /\ FolderInv => Found \in Places /\ dir[Found] # None
<1> SUFFICES ASSUME IInv, FolderInv PROVE Found \in Places /\ dir[Found] # None
  OBVIOUS
<1>1. CASE Stranded = {}
  <2>1. Found = Named
    BY <1>1 DEF Found
  <2>2. InPlace
    BY <1>1, AwayStranded
  <2> QED
    BY <2>1, <2>2, NamedPlace DEF InPlace, Whole
<1>2. CASE Stranded # {}
  <2>1. Found \in Stranded
    BY <1>2 DEF Found
  <2> QED
    BY <2>1, PlacesAssumption DEF Stranded, FilesTypeOK
<1>3. QED
  BY <1>1, <1>2

LEMMA FoundThere == dir[Named] # None => Found = Named
  BY DEF Found, Stranded

LEMMA FoundAway ==
    ASSUME IInv, FolderInv, dir[Named] = None
    PROVE  RenamedTo(Found)
<1>1. PICK p \in Places : RenamedTo(p)
  BY DEF FolderInv, InPlace, Whole, Away
<1>2. p = Found
  BY <1>1, FoundPlace DEF RenamedTo
<1>3. QED
  BY <1>1, <1>2

\* What is known of the folder found.
LEMMA FoundFolder ==
    ASSUME IInv, FoundInv
    PROVE  /\ Found \in Places /\ dir[Found] \in Folder /\ dir[Found] # None
           /\ Whole(Found)
           /\ JournalAt(Found) # None =>
                /\ JournalAt(Found) \in Journal
                /\ dir[Found].refusing \/ ~Lists(Found, JournalAt(Found))
                /\ Found \in {JournalAt(Found).from, JournalAt(Found).to}
           /\ dir[Named] = None => JournalAt(Found) # None /\ JournalAt(Found).to = Found
<1>1. /\ Found \in Places /\ dir[Found] # None /\ dir[Found] \in Folder
  BY FoundPlace DEF FoundInv, DataTypeOK
<1>2. Whole(Found)
  <2>1. CASE dir[Named] = None
    BY <2>1, FoundAway DEF FoundInv, RenamedTo
  <2>2. CASE dir[Named] # None
    BY <2>2, FoundThere DEF FoundInv, FolderInv, InPlace, Away
  <2> QED
    BY <2>1, <2>2
<1>3. JournalAt(Found) # None => JournalAt(Found) \in Journal
  BY <1>1, FolderParts DEF JournalAt
<1>4. dir[Named] = None => JournalAt(Found) # None /\ JournalAt(Found).to = Found
  BY FoundAway DEF FoundInv, RenamedTo
<1>5. JournalAt(Found) # None => (dir[Found].refusing \/ ~Lists(Found, JournalAt(Found)))
                                 /\ Found \in {JournalAt(Found).from, JournalAt(Found).to}
  BY <1>1, <1>4, FoundThere DEF FoundInv, JournalInv, ListedRefuse
<1>6. QED
  BY <1>1, <1>2, <1>3, <1>4, <1>5

\* A folder that is found after a step with the others gone is that one.
LEMMA FoundAlone ==
    ASSUME IInv', FolderInv', NEW p \in Places, \A q \in Places \ {p} : dir'[q] = None
    PROVE  Found' = p
<1>1. (Found \in Places /\ dir[Found] # None)'
  BY FoundPlace, PTL
<1>2. QED
  BY <1>1

\* A step that makes no folder, removes none and moves no pointer.
LEMMA FoundSame ==
    ASSUME IInv, FolderInv, IInv', FolderInv', UNCHANGED <<pointer, legacy>>,
           \A q \in Places : dir'[q] = None <=> dir[q] = None
    PROVE  Found' = Found
<1>1. Named' = Named /\ Named \in Places
  BY NamedPlace DEF Named
<1>2. CASE dir[Named] # None
  <2>1. dir'[Named'] # None
    BY <1>1, <1>2
  <2>2. (dir[Named] # None => Found = Named)'
    BY FoundThere, PTL
  <2> QED
    BY <1>1, <1>2, <2>1, <2>2, FoundThere
<1>3. CASE dir[Named] = None
  <2>1. PICK p \in Places : p = Found
    BY FoundPlace
  <2>2. \A q \in Places \ {p} : dir'[q] = None
    BY <1>3, <2>1, FoundAway DEF RenamedTo
  <2> QED
    BY <2>1, <2>2, FoundAlone
<1>4. QED
  BY <1>2, <1>3

LEMMA FoundStays ==
    ASSUME Named' = Named, dir[Named] # None, dir'[Named] # None
    PROVE  Found = Named /\ Found' = Named
<1>1. (dir[Named] # None => Found = Named)'
  BY FoundThere, PTL
<1>2. dir'[Named'] # None
  OBVIOUS
<1>3. QED
  BY <1>1, <1>2, FoundThere

\* What a worktree keeps, its rows and its last capture, is under its id at p;
\* a change that could not hold the lock frees its capture of that.
CaptureAt(w, p) == touches = 0 => capture[w][p] = latest[w]
KeptAt(w, d, p) == dir[d].rows[w] = p /\ CaptureAt(w, p)

\* The folder that owes nothing.
QuietAt(d) ==
    JournalAt(d) = None =>
        /\ partials = {}
        /\ \A w \in Worktrees : link[w] = d /\ KeptAt(w, d, d)

\* The one a move was to leave: what its journal has as planned or re-keyed
\* may be under either id, its capture under one of the two.
LeftAt(d) ==
    JournalAt(d) # None /\ JournalAt(d).from = d =>
        /\ partials \subseteq {JournalAt(d).partial} \ {NoPartial}
        /\ \A w \in Worktrees :
              /\ link[w] = d
              /\ dir[d].rows[w] \in {d, JournalAt(d).to}
              /\ JournalAt(d).moved[w].state \in {"none", "returned"} => KeptAt(w, d, d)
              /\ touches = 0 =>
                    \/ capture[w][d] = latest[w]
                    \/ /\ capture[w][d] = NoCapture
                       /\ capture[w][JournalAt(d).to] = latest[w]
                       /\ latest[w] = JournalAt(d).moved[w].capture

\* The one a move landed.
ReachedAt(d) ==
    JournalAt(d) # None /\ JournalAt(d).to = d =>
        partials = {} /\ \A w \in Worktrees : KeptAt(w, d, d)

DataAt(d) == QuietAt(d) /\ LeftAt(d) /\ ReachedAt(d)

\* The re-key of a move, up to its folder's landing.
ForwardAt(d) ==
    Moving /\ step \notin LandedSteps =>
        /\ mem = JournalAt(d)
        /\ step # "plan" =>
              \A w \in Worktrees : mem.moved[w].state \in {"planned", "rekeyed"}
        /\ Rekeying => \A w \in Worktrees \ todo : KeptAt(w, d, mem.to)
        /\ step \in {"drop", "rows", "mark"} => CaptureAt(cur, mem.to)
        /\ step = "mark" => dir[d].rows[cur] = mem.to
        /\ step \in Leaving => \A w \in Worktrees : KeptAt(w, d, mem.to)

\* The copy landed is the folder, whichever of the two a start would find.
LandedAt(d) ==
    step \in LandedSteps =>
        /\ partials = {}
        /\ \A w \in Worktrees : /\ dir[mem.to].rows[w] = mem.to
                                /\ KeptAt(w, d, mem.to)

\* The re-key of an undo, and what it then removes.
UndoneAt(d) ==
    Ending /\ back =>
        /\ \A w \in Worktrees :
              /\ mem.moved[w].capture = JournalAt(d).moved[w].capture
              /\ mem.moved[w].state \in {"none", "returned"} => KeptAt(w, d, d)
              /\ good /\ w \notin todo => KeptAt(w, d, d)
        /\ step \in {"drop", "rows", "mark"} => CaptureAt(cur, d)
        /\ step = "mark" => dir[d].rows[cur] = d
        /\ ~Rekeying => todo = {}
        /\ step \in {"unmakeHusk", "repair", "letGo"} /\ good => partials = {}

FinishedAt(d) ==
    step = "letGo" /\ good /\ ~back => \A w \in Worktrees : link[w] = d

WorkAt(d) == ForwardAt(d) /\ LandedAt(d) /\ UndoneAt(d) /\ FinishedAt(d)

StandInv == DataAt(Found) /\ WorkAt(Found)

\* The last move begun has landed, or was ended before.
LandedLast ==
    /\ goal # None => step \in LandedSteps /\ Found = mem.to
    /\ JournalAt(Found) # None => JournalAt(Found).to = Found
Past(n) == moves > n \/ (moves = n /\ LandedLast)

\* A process whose data dir was moved away, or away and back.
Runs(p) == status[p] \in {"opened", "up", "leaving"}
StoreInv ==
    /\ moves <= MaxMoves
    /\ \A p \in Procs : Runs(p) =>
          /\ at[p] # Found => Past(1)
          /\ at[p] = Found /\ fd[p] # Found => Past(2)

\* What a step is to the promise.
Promised == [Promise!Next]_(Promise!vars)

LEMMA DataLeft ==
    ASSUME NEW d \in Places, DataAt(d), dir'[d].rows = dir[d].rows,
           JournalAt(d)' = JournalAt(d), UNCHANGED <<partials, git, latest, touches>>
    PROVE  DataAt(d)'
  BY DEF DataAt, QuietAt, LeftAt, ReachedAt, KeptAt, CaptureAt

\* The holder's work left where it was.
LEMMA WorkLeft ==
    ASSUME IInv, NEW d \in Places, WorkAt(d), dir'[d].rows = dir[d].rows,
           JournalAt(d)' = JournalAt(d), UNCHANGED <<partials, git, latest, touches>>,
           UNCHANGED <<step, rekey>>,
           \A q \in Places : dir[q] # None => dir'[q].rows = dir[q].rows,
           step \in LandedSteps => dir[mem.to] # None
    PROVE  WorkAt(d)'
<1>1. step \in LandedSteps => mem.to \in Places
  BY JournalParts DEF HolderShape, LockTypeOK
<1>2. step' = step /\ mem' = mem /\ todo' = todo /\ cur' = cur /\ good' = good /\ back' = back
  OBVIOUS
<1>3. Moving' = Moving /\ Ending' = Ending /\ Rekeying' = Rekeying
  BY <1>2 DEF Moving, Ending, Rekeying, Leaving
<1>4. ForwardAt(d)'
  BY <1>2, <1>3 DEF WorkAt, ForwardAt, KeptAt, CaptureAt, Leaving
<1>5. LandedAt(d)'
  BY <1>1, <1>2, <1>3 DEF WorkAt, LandedAt, KeptAt, CaptureAt
<1>6. UndoneAt(d)' /\ FinishedAt(d)'
  BY <1>2, <1>3 DEF WorkAt, UndoneAt, FinishedAt, KeptAt, CaptureAt
<1>7. QED
  BY <1>4, <1>5, <1>6 DEF WorkAt

\* No work to speak of.
LEMMA WorkRests ==
    ASSUME NEW d \in Places,
           step' \in {"idle", "resume", "check", "retire", "journal", "revive"}
    PROVE  WorkAt(d)'
  BY DEF WorkAt, ForwardAt, LandedAt, UndoneAt, FinishedAt, Moving, Ending, Rekeying,
     Leaving

\* The last move landed stays so.
LEMMA LandedLeft ==
    ASSUME LandedLast, Found' = Found,
           goal' # None => goal' = goal /\ step' \in LandedSteps /\ mem' = mem,
           JournalAt(Found)' # None =>
               JournalAt(Found) # None /\ Same(JournalAt(Found)', JournalAt(Found))
    PROVE  LandedLast'
  BY DEF LandedLast, Same

LEMMA StoreLeft ==
    ASSUME IInv, StoreInv, Found' = Found, UNCHANGED moves, LandedLast => LandedLast',
           \A p \in Procs : Runs(p)' => Runs(p) /\ at'[p] = at[p]
                                       /\ (fd'[p] = fd[p] \/ fd[p] # Found)
    PROVE  StoreInv'
<1>1. moves \in Nat /\ moves' <= MaxMoves /\ (Past(1) => Past(1)') /\ (Past(2) => Past(2)')
  BY DEF CountsTypeOK, StoreInv, Past
<1>2. QED
  BY <1>1 DEF StoreInv

\* A step the promise does not see.
LEMMA KeptStill ==
    ASSUME NEW d, Found = d, Found' = d, dir'[d].rows = dir[d].rows,
           dir'[d].count = dir[d].count, dir'[d].refusing = dir[d].refusing
    PROVE  Promised
  BY DEF Promised, Promise!vars

\* A step of another process than the holder, of no store and no capture.
LEMMA StandsAside ==
    ASSUME IInv, FoundInv, IInv', FoundInv', StandInv, StoreInv,
           UNCHANGED <<pointer, legacy, data, git, latest, moves, touches>>,
           UNCHANGED lock \/ (step' \in {"idle", "resume"} /\ goal' = None),
           \A p \in Procs : Runs(p)' => Runs(p) /\ at'[p] = at[p] /\ fd'[p] = fd[p]
    PROVE  StandInv' /\ StoreInv' /\ Promised
<1>1. PICK d \in Places : Found = d
  BY FoundFolder
<1>2. Found' = d
  BY <1>1, FoundSame DEF FoundInv
<1>3. JournalAt(d)' = JournalAt(d) /\ JournalAt(Found)' = JournalAt(Found)
  BY <1>1, <1>2 DEF JournalAt
<1>4. DataAt(d)'
  BY <1>1, <1>3, DataLeft DEF StandInv
<1>5. WorkAt(d)'
  <2>1. CASE UNCHANGED lock
    <3>1. step \in LandedSteps => dir[mem.to] # None
      BY DEF FoundInv, HolderInv, LandedInv, Whole
    <3> QED
      BY <1>1, <1>3, <2>1, <3>1, WorkLeft DEF StandInv
  <2>2. CASE step' \in {"idle", "resume"}
    BY <2>2, WorkRests
  <2> QED
    BY <2>1, <2>2
<1>6. LandedLast => LandedLast'
  BY <1>1, <1>2, <1>3 DEF LandedLast, Same
<1>7. StoreInv'
  BY <1>1, <1>2, <1>6, StoreLeft
<1>8. QED
  BY <1>1, <1>2, <1>4, <1>5, <1>7, KeptStill DEF StandInv

LEMMA StandsProcess ==
    ASSUME IInv, FoundInv, IInv', FoundInv', StandInv, StoreInv, NEW p \in Procs,
           Locate(p) \/ BeginSettle(p) \/ SkipSettle(p) \/ Quit(p) \/ Crash(p)
    PROVE  StandInv' /\ StoreInv' /\ Promised
<1>1. /\ UNCHANGED <<pointer, legacy, data, git, latest, moves, touches>>
      /\ UNCHANGED lock \/ (step' \in {"idle", "resume"} /\ goal' = None)
  BY DEF Locate, BeginSettle, SkipSettle, Quit, Crash, Hold, Clear
<1>2. \A q \in Procs : Runs(q)' => Runs(q) /\ at'[q] = at[q] /\ fd'[q] = fd[q]
  BY DEF Locate, BeginSettle, SkipSettle, Quit, Crash, Runs, ProcsTypeOK
<1>3. QED
  BY <1>1, <1>2, StandsAside

\* A start opens the store of the folder it found.
LEMMA StandsOpen ==
    ASSUME IInv, FoundInv, IInv', FoundInv', StandInv, StoreInv, NEW p \in Procs, Open(p)
    PROVE  StandInv' /\ StoreInv' /\ Promised
<1>1. at[p] = Named /\ dir[Named] # None /\ Named \in Places
  BY NamedPlace DEF Open, FoundInv, ProcsInv
<1>2. dir[Named].kind = "data"
  BY <1>1 DEF FoundInv, FolderInv, InPlace, Whole, Away
<1>3. \A q \in Places : dir'[q] = dir[q]
  BY <1>1, <1>2, OpenEffect
<1>4. dir' = dir /\ UNCHANGED <<files, partials, git, at, lock, latest, budgets>>
  BY <1>3 DEF Open, DataTypeOK
<1>5. PICK d \in Places : Found = d /\ Named = d
  BY <1>1, FoundThere
<1>6. Found' = d
  BY <1>4, <1>5, FoundSame DEF FoundInv
<1>7. JournalAt(d)' = JournalAt(d) /\ JournalAt(Found)' = JournalAt(Found)
  BY <1>4, <1>5, <1>6 DEF JournalAt
<1>8. DataAt(d)'
  BY <1>4, <1>5, <1>7, DataLeft DEF StandInv
<1>9. step \in LandedSteps => dir[mem.to] # None
  BY DEF FoundInv, HolderInv, LandedInv, Whole
<1>10. WorkAt(d)'
  BY <1>4, <1>5, <1>7, <1>9, WorkLeft DEF StandInv
<1>11. LandedLast' = LandedLast
  BY <1>4, <1>5, <1>6, <1>7 DEF LandedLast
<1>12. Past(1)' = Past(1) /\ Past(2)' = Past(2)
  BY <1>4, <1>11 DEF Past
<1>13. ASSUME NEW q \in Procs, Runs(q)', q # p
       PROVE  Runs(q) /\ at'[q] = at[q] /\ fd'[q] = fd[q]
  BY <1>13 DEF Open, Runs, ProcsTypeOK
<1>14. at'[p] = d /\ fd'[p] = d
  BY <1>1, <1>4, <1>5 DEF Open, ProcsTypeOK
<1>15. StoreInv'
  BY <1>4, <1>5, <1>6, <1>12, <1>13, <1>14 DEF StoreInv
<1>16. QED
  BY <1>4, <1>5, <1>6, <1>8, <1>10, <1>15, KeptStill DEF StandInv

\* A write is the found store's, and the promise takes it.
LEMMA StandsWrite ==
    ASSUME IInv, FoundInv, IInv', FoundInv', StandInv, StoreInv, NEW p \in Procs, Write(p)
    PROVE  StandInv' /\ StoreInv' /\ Promised
<1>1. /\ fd[p] \in Places /\ ~dir[fd[p]].refusing
      /\ dir[fd[p]] # None
  <2>1. fd[p] \in Places /\ ~dir[fd[p]].refusing
    BY WriteEffect, PlacesAssumption
  <2> QED
    BY <2>1 DEF FolderShape
<1>3. fd[p] = Named /\ InPlace
  BY <1>1, OpenAlone
<1>4. PICK d \in Places : Found = d /\ fd[p] = d
  BY <1>1, <1>3, FoundThere
<1>5. \A q \in Places :
        /\ dir'[q] = None <=> dir[q] = None
        /\ dir[q] # None => dir'[q].rows = dir[q].rows
        /\ JournalAt(q)' = JournalAt(q)
  BY WriteEffect DEF JournalAt
<1>6. /\ ~dir[d].refusing /\ ~dir'[d].refusing /\ dir'[d].rows = dir[d].rows
      /\ dir'[d].count = dir[d].count + 1
  BY <1>1, <1>4, WriteEffect
<1>7. UNCHANGED <<files, partials, git, procs, lock, latest, budgets>>
  BY DEF Write
<1>8. Found' = d
  BY <1>4, <1>5, <1>7, FoundSame DEF FoundInv
<1>9. DataAt(d)'
  BY <1>4, <1>5, <1>6, <1>7, DataLeft DEF StandInv
<1>10. step \in LandedSteps => dir[mem.to] # None
  BY DEF FoundInv, HolderInv, LandedInv, Whole
<1>11. WorkAt(d)'
  BY <1>4, <1>5, <1>6, <1>7, <1>10, WorkLeft DEF StandInv
<1>12. LandedLast => LandedLast'
  <2>1. JournalAt(Found)' = JournalAt(Found)
    BY <1>4, <1>5, <1>8 DEF JournalAt
  <2> QED
    BY <1>4, <1>7, <1>8, <2>1 DEF LandedLast
<1>13. StoreInv'
  BY <1>4, <1>7, <1>8, <1>12, StoreLeft DEF Runs
<1>14. Promise!Accept
  BY <1>4, <1>6, <1>8 DEF Promise!Accept
<1>15. QED
  BY <1>4, <1>8, <1>9, <1>11, <1>13, <1>14 DEF StandInv, Promised, Promise!Next

\* A capture goes under its worktree's id where the folder is found.
LEMMA StandsCapture ==
    ASSUME IInv, FoundInv, IInv', FoundInv', StandInv, StoreInv,
           NEW p \in Procs, NEW w \in Worktrees, Capture(p, w)
    PROVE  StandInv' /\ StoreInv' /\ Promised
<1>1. /\ UNCHANGED <<files, data, link, procs, lock, accepted, moves>>
      /\ Named = at[p] /\ dir[Named] # None
      /\ latest' = [latest EXCEPT ![w] = @ + 1]
      /\ capture' = [capture EXCEPT ![w][at[p]] = latest[w] + 1]
      /\ (holder = None /\ touches' = touches) \/ touches' = touches + 1
      /\ touches \in Nat
  BY DEF Capture, CountsTypeOK
<1>2. PICK d \in Places : Found = d /\ at[p] = d
  BY <1>1, NamedPlace, FoundThere
<1>3. Found' = d
  BY <1>1, <1>2, FoundSame DEF FoundInv
<1>4. JournalAt(d)' = JournalAt(d) /\ JournalAt(Found)' = JournalAt(Found)
  BY <1>1, <1>2, <1>3 DEF JournalAt
<1>5. touches' = 0 =>
         /\ touches = 0 /\ holder = None
         /\ latest'[w] = latest[w] + 1 /\ capture'[w][d] = latest'[w]
         /\ \A v \in Worktrees \ {w}, q \in Places :
               latest'[v] = latest[v] /\ capture'[v][q] = capture[v][q]
  BY <1>1, <1>2 DEF GitTypeOK, CountsTypeOK
<1>6. DataAt(d)'
  <2>1. QuietAt(d)' /\ ReachedAt(d)'
    BY <1>1, <1>2, <1>4, <1>5 DEF StandInv, DataAt, QuietAt, ReachedAt, KeptAt, CaptureAt
  <2>2. LeftAt(d)'
    <3>1. JournalAt(d) # None => JournalAt(d).to \in Places
      BY <1>2, FoundFolder, JournalParts
    <3> QED
      BY <1>1, <1>2, <1>4, <1>5, <3>1 DEF StandInv, DataAt, LeftAt, KeptAt, CaptureAt
  <2> QED
    BY <2>1, <2>2 DEF DataAt
<1>7. WorkAt(d)'
  <2>1. CASE touches' # 0
    BY <1>1, <1>2, <1>4, <2>1 DEF StandInv, WorkAt, ForwardAt, LandedAt, UndoneAt,
       FinishedAt, KeptAt, CaptureAt, Moving, Ending, Rekeying, Leaving
  <2>2. CASE touches' = 0
    <3>1. step' = "idle"
      BY <1>1, <1>5, <2>2 DEF HolderShape
    <3> QED
      BY <3>1, WorkRests
  <2> QED
    BY <2>1, <2>2
<1>8. LandedLast => LandedLast'
  BY <1>1, <1>2, <1>3, <1>4 DEF LandedLast
<1>9. StoreInv'
  BY <1>1, <1>2, <1>3, <1>8, StoreLeft DEF Runs
<1>10. QED
  BY <1>1, <1>2, <1>3, <1>6, <1>7, <1>9, KeptStill DEF StandInv

\* The move begun has not landed; a process left behind has one more before it.
LEMMA StandsBeginMove ==
    ASSUME IInv, FoundInv, IInv', FoundInv', StandInv, StoreInv,
           NEW x \in Places, BeginMove(x)
    PROVE  StandInv' /\ StoreInv' /\ Promised
<1>1. /\ UNCHANGED <<files, data, git, latest, touches, procs>>
      /\ step' = "resume" /\ moves' = moves + 1 /\ moves' <= MaxMoves
      /\ moves \in Nat
  BY BoundsAssumption DEF BeginMove, Hold, CountsTypeOK
<1>2. PICK d \in Places : Found = d
  BY FoundFolder
<1>3. Found' = d
  BY <1>1, <1>2, FoundSame DEF FoundInv
<1>4. JournalAt(d)' = JournalAt(d)
  BY <1>1 DEF JournalAt
<1>5. DataAt(d)' /\ WorkAt(d)'
  BY <1>1, <1>2, <1>4, DataLeft, WorkRests DEF StandInv
<1>6. (Past(1) => Past(1)') /\ (Past(2) => Past(2)')
  BY <1>1 DEF Past
<1>7. StoreInv'
  BY <1>1, <1>2, <1>3, <1>6 DEF StoreInv, Runs
<1>8. QED
  BY <1>1, <1>2, <1>3, <1>5, <1>7, KeptStill DEF StandInv

\* The rescue commits the pointer to the folder a start would find anyway.
LEMMA StandsRescue ==
    ASSUME IInv, FoundInv, IInv', FoundInv', StandInv, StoreInv,
           NEW x \in Places, NEW b \in BOOLEAN, Rescue(x, b)
    PROVE  StandInv' /\ StoreInv' /\ Promised
<1>1. UNCHANGED <<data, git, procs, lock, latest, moves, touches>>
  BY DEF Rescue
<1>2. dir[Named] = None
  BY DEF Rescue, Stranded
<1>3. PICK d \in Places : Found = d
  BY FoundFolder
<1>4. \A q \in Places \ {d} : dir'[q] = None
  BY <1>1, <1>2, <1>3, FoundAway DEF FoundInv, RenamedTo
<1>5. Found' = d
  BY <1>4, FoundAlone DEF FoundInv
<1>6. JournalAt(d)' = JournalAt(d) /\ JournalAt(Found)' = JournalAt(Found)
  BY <1>1, <1>3, <1>5 DEF JournalAt
<1>7. step \in LandedSteps => dir[mem.to] # None
  BY DEF FoundInv, HolderInv, LandedInv, Whole
<1>8. DataAt(d)' /\ WorkAt(d)'
  BY <1>1, <1>3, <1>6, <1>7, DataLeft, WorkLeft DEF StandInv
<1>9. LandedLast => LandedLast'
  BY <1>1, <1>3, <1>5, <1>6 DEF LandedLast
<1>10. StoreInv'
  BY <1>1, <1>3, <1>5, <1>9, StoreLeft DEF Runs
<1>11. QED
  BY <1>1, <1>3, <1>5, <1>8, <1>10, KeptStill DEF StandInv

\* What ends or goes on with another of the holder's parts.
Ends == Release \/ (Settled /\ step \notin Leaving)

LEMMA EndsShape ==
    ASSUME IInv, FoundInv, Ends, step # "idle"
    PROVE  /\ step' \in {"idle", "check"} /\ holder \in Procs
           /\ \A p \in Procs : Runs(p)' <=> Runs(p)
           /\ LandedLast => goal' = None
<1>1. holder \in Procs /\ status[holder] \in {"opened", "up", "leaving"}
  BY DEF HolderShape, LockTypeOK
<1>2. step' \in {"idle", "check"}
  BY DEF Ends, Release, Settled, Clear, Goto
<1>3. \A p \in Procs : Runs(p)' <=> Runs(p)
  BY <1>1 DEF Ends, Release, Settled, Runs, ProcsTypeOK
<1>4. LandedLast => goal' = None
  BY DEF LandedLast, Ends, Release, Settled, Clear, Leaving
<1>5. QED
  BY <1>1, <1>2, <1>3, <1>4

LEMMA StandsRest ==
    ASSUME IInv, FoundInv, IInv', FoundInv', StandInv, StoreInv,
           Ends, step # "idle",
           UNCHANGED <<pointer, legacy, data, git, at, fd, latest, moves, touches>>
    PROVE  StandInv' /\ StoreInv' /\ Promised
<1>1. PICK d \in Places : Found = d
  BY FoundFolder
<1>2. Found' = d
  BY <1>1, FoundSame DEF FoundInv
<1>3. JournalAt(d)' = JournalAt(d) /\ JournalAt(Found)' = JournalAt(Found)
  BY <1>1, <1>2 DEF JournalAt
<1>4. DataAt(d)' /\ WorkAt(d)'
  BY <1>1, <1>3, DataLeft, WorkRests, EndsShape DEF StandInv
<1>5. LandedLast => LandedLast'
  BY <1>1, <1>2, <1>3, EndsShape DEF LandedLast
<1>6. StoreInv'
  BY <1>1, <1>2, <1>5, StoreLeft, EndsShape
<1>7. QED
  BY <1>1, <1>2, <1>4, <1>6, KeptStill DEF StandInv

LEMMA StandsEnds ==
    ASSUME IInv, FoundInv, IInv', FoundInv', StandInv, StoreInv,
           ResumeNothing \/ RefuseMove \/ StopLanded \/ KeepJournal
    PROVE  StandInv' /\ StoreInv' /\ Promised
<1>1. Ends /\ step # "idle"
  BY DEF ResumeNothing, RefuseMove, StopLanded, KeepJournal, Leaving, Ends
<1>2. UNCHANGED <<pointer, legacy, data, git, at, fd, latest, moves, touches>>
  BY DEF ResumeNothing, RefuseMove, StopLanded, KeepJournal
<1>3. QED
  BY <1>1, <1>2, StandsRest

\* The triggers of the found store made or dropped, where no journal was: the
\* promise's close, or its reopening with every worktree's rows in place.
LEMMA TriggersPromised ==
    ASSUME IInv, FoundInv, IInv', StandInv, NEW d \in Places, Found = d, Found' = d,
           JournalAt(d) = None, dir'[d] # None,
           dir'[d].rows = dir[d].rows, dir'[d].count = dir[d].count
    PROVE  Promised
<1>1. dir[d].refusing \in BOOLEAN /\ dir'[d].refusing \in BOOLEAN
  <2>1. dir[d] \in Folder
    BY FoundFolder
  <2>2. dir'[d] \in Folder
    BY DEF DataTypeOK
  <2> QED
    BY <2>1, <2>2 DEF Folder
<1>2. dir[d].rows = [w \in Worktrees |-> d]
  <2>1. dir[d].rows \in [Worktrees -> Places]
    BY FoundFolder DEF Folder
  <2>2. \A w \in Worktrees : dir[d].rows[w] = d
    BY DEF StandInv, DataAt, QuietAt, KeptAt
  <2> QED
    BY <2>1, <2>2
<1>3. CASE dir'[d].refusing = dir[d].refusing
  BY <1>3, KeptStill
<1>4. CASE ~dir[d].refusing /\ dir'[d].refusing
  <2>1. Promise!Close
    BY <1>4 DEF Promise!Close
  <2> QED
    BY <2>1 DEF Promised, Promise!Next
<1>5. CASE dir[d].refusing /\ ~dir'[d].refusing
  <2>1. Promise!Consistent
    BY <1>2 DEF Promise!Consistent
  <2>2. Promise!Reopen
    BY <1>5, <2>1 DEF Promise!Reopen
  <2> QED
    BY <2>2 DEF Promised, Promise!Next
<1>6. QED
  BY <1>1, <1>3, <1>4, <1>5

LEMMA RefusingPromised ==
    ASSUME IInv, FoundInv, IInv', FoundInv', StandInv, InPlace, JournalAt(Named) = None,
           holder \in Procs, UNCHANGED <<pointer, legacy>>,
           dir' = dir \/ \E b \in BOOLEAN : dir' = Refusing(b)
    PROVE  /\ Found' = Found /\ Found \in Places /\ Promised
           /\ dir'[Found].rows = dir[Found].rows
           /\ JournalAt(Found)' = None /\ JournalAt(Found) = None
<1>1. /\ \A q \in Places : JournalAt(q) = None /\ JournalAt(q)' = None
      /\ \A q \in Places : dir'[q] = None <=> dir[q] = None
  BY RefusingAlike DEF DirAlike
<1>2. PICK d \in Places : Found = d
  BY FoundFolder
<1>3. Found' = d
  BY <1>1, <1>2, FoundSame DEF FoundInv
<1>4. dir'[d].rows = dir[d].rows /\ dir'[d].count = dir[d].count
  BY <1>2, RefusingEffect, FoundFolder
<1>5. JournalAt(Found)' = None
  <2>1. JournalAt(d)' = None
    BY <1>1
  <2> QED
    BY <1>3, <2>1 DEF JournalAt
<1>6. Promised
  <2>1. dir'[d] # None
    BY <1>1, <1>2, FoundFolder
  <2> QED
    BY <1>1, <1>2, <1>3, <1>4, <2>1, TriggersPromised
<1>7. QED
  BY <1>1, <1>2, <1>3, <1>4, <1>5, <1>6

LEMMA StandsRefusing ==
    ASSUME IInv, FoundInv, IInv', FoundInv', StandInv, StoreInv,
           ResumeRefusing \/ ReviveStore \/ AbortUnjournaled \/ RetireStore,
           dir' = dir \/ \E b \in BOOLEAN : dir' = Refusing(b)
    PROVE  StandInv' /\ StoreInv' /\ Promised
<1>1. /\ UNCHANGED <<pointer, legacy, partials, git, at, fd, latest, moves, touches>>
      /\ step # "idle" /\ holder \in Procs
  BY DEF ResumeRefusing, ReviveStore, AbortUnjournaled, RetireStore, HolderShape, LockTypeOK
<1>2. InPlace /\ JournalAt(Named) = None
  <2>1. CASE ResumeRefusing
    BY <2>1, AwayStranded DEF ResumeRefusing, FoundInv
  <2>2. CASE ReviveStore
    BY <2>2 DEF ReviveStore, FoundInv, HolderInv, EndInv, HolderShape, FolderShape,
       FolderInv, Away
  <2>3. CASE AbortUnjournaled \/ RetireStore
    BY <2>3, MovesHere DEF AbortUnjournaled, RetireStore, HolderShape, Leaving, FoundInv,
       HolderInv, PrepareInv
  <2> QED
    BY <2>1, <2>2, <2>3, <1>1
<1>3. PICK d \in Places : Found = d
  BY FoundFolder
<1>4. /\ Found' = d /\ Promised /\ dir'[d].rows = dir[d].rows
      /\ JournalAt(Found)' = None /\ JournalAt(d) = None
  BY <1>1, <1>2, <1>3, RefusingPromised
<1>5. JournalAt(d)' = None
  BY <1>4 DEF JournalAt
<1>6. DataAt(d)'
  BY <1>1, <1>3, <1>4, <1>5, DataLeft DEF StandInv
<1>7. CASE Ends
  <2>1. WorkAt(d)'
    BY <1>1, <1>7, WorkRests, EndsShape
  <2>2. LandedLast => LandedLast'
    BY <1>1, <1>4, <1>7, EndsShape DEF LandedLast
  <2>3. StoreInv'
    BY <1>1, <1>3, <1>4, <1>7, <2>2, StoreLeft, EndsShape
  <2> QED
    BY <1>4, <1>6, <2>1, <2>3 DEF StandInv
<1>8. CASE RetireStore
  <2>1. step' = "journal" /\ step = "retire" /\ goal # None /\ UNCHANGED status
    BY <1>8 DEF RetireStore, Goto, HolderShape
  <2>2. WorkAt(d)' /\ ~LandedLast
    BY <2>1, WorkRests DEF LandedLast
  <2>3. StoreInv'
    BY <1>1, <1>3, <1>4, <2>1, <2>2, StoreLeft DEF Runs
  <2> QED
    BY <1>4, <1>6, <2>2, <2>3 DEF StandInv
<1>9. QED
  BY <1>7, <1>8 DEF ResumeRefusing, ReviveStore, AbortUnjournaled, Ends, Leaving

\* The triggers made or dropped, and a journal that lists nothing left, where
\* everything is in place.
LEMMA StandsBare ==
    ASSUME IInv, RouteInv, FoundInv, IInv', FoundInv', StandInv, StoreInv, AbortUnjournaled,
           NEW b \in BOOLEAN, dir' = BareLeft(b), dir[Here] # None
    PROVE  StandInv' /\ StoreInv' /\ Promised
<1>1. /\ UNCHANGED <<pointer, legacy, partials, git, at, fd, latest, moves, touches>>
      /\ Ends /\ step # "idle" /\ step \in {"retire", "journal"} /\ holder \in Procs
      /\ goal \in Places
  BY DEF AbortUnjournaled, HolderShape, LockTypeOK, Ends
<1>2. /\ Here = Named /\ JournalAt(Here) = None /\ dir[Named] # None /\ Named \in Places
  BY <1>1, MovesHere DEF FoundInv, HolderInv, PrepareInv, HolderShape, Leaving, InPlace, Whole
<1>3. PICK d \in Places : Found = d /\ Named = d
  BY <1>2, FoundThere
<1>4. /\ dir'[d] # None /\ dir'[d].rows = dir[d].rows /\ dir'[d].count = dir[d].count
      /\ dir'[d].journal = Bare
  BY <1>1, <1>2, <1>3, BareEffect
<1>5. JournalAt(d) = None /\ JournalAt(d)' = Bare
  BY <1>2, <1>3, <1>4 DEF JournalAt
<1>6. Found' = d
  BY <1>1, <1>2, <1>3, <1>4, FoundStays DEF Named
<1>7. /\ Bare.from = d /\ Bare.to = goal /\ Bare.partial = NoPartial /\ goal # d
      /\ \A w \in Worktrees : Bare.moved[w].state = "none"
  <2>1. goal # d
    BY <1>1, <1>2, <1>3 DEF RouteInv
  <2> QED
    BY <1>2, <1>3, <2>1 DEF Bare, Unlisted
<1>8. DataAt(d)'
  BY <1>1, <1>3, <1>4, <1>5, <1>7 DEF StandInv, DataAt, QuietAt, LeftAt, ReachedAt, KeptAt,
     CaptureAt
<1>9. WorkAt(d)'
  BY <1>1, WorkRests, EndsShape
<1>10. ~LandedLast
  BY <1>1, PlacesAssumption DEF LandedLast
<1>11. StoreInv'
  BY <1>1, <1>3, <1>6, <1>10, StoreLeft, EndsShape
<1>12. Promised
  BY <1>3, <1>4, <1>5, <1>6, TriggersPromised
<1>13. QED
  BY <1>6, <1>8, <1>9, <1>11, <1>12 DEF StandInv

LEMMA StandsTriggers ==
    ASSUME IInv, RouteInv, FoundInv, IInv', FoundInv', StandInv, StoreInv,
           ResumeRefusing \/ ReviveStore \/ AbortUnjournaled \/ RetireStore
    PROVE  StandInv' /\ StoreInv' /\ Promised
<1>1. CASE dir' = dir \/ \E b \in BOOLEAN : dir' = Refusing(b)
  BY <1>1, StandsRefusing
<1>2. ASSUME NEW b \in BOOLEAN, AbortUnjournaled, dir[Here] # None, dir' = BareLeft(b)
      PROVE  StandInv' /\ StoreInv' /\ Promised
  BY <1>2, StandsBare
<1>3. QED
  BY <1>1, <1>2 DEF ResumeRefusing, ReviveStore, AbortUnjournaled, RetireStore

\* With a third move a start could outlast two, and undo the third in a store
\* whose folder the first removed.
Overtaken == Overrun \/ MaxMoves > 2

\* A journal of a move from where the folder is, followed or undone.
OnTheWay == (Moving /\ step \notin LandedSteps) \/ (Ending /\ back)

LEMMA WayShape ==
    ASSUME IInv, RouteInv, FoundInv, OnTheWay, NEW d \in Places, Found = d
    PROVE  /\ Named = d /\ Here = d /\ dir[d] # None /\ holder \in Procs
           /\ mem \in Journal /\ mem.from = d /\ mem.to \in Places /\ mem.to # d
           /\ JournalAt(d) \in Journal /\ JournalAt(d) # None /\ Same(JournalAt(d), mem)
           /\ ~LandedLast /\ (Moving \/ step \in RekeySteps => dir[d].refusing)
           /\ Moving => goal # None /\ ~back
           /\ Moving /\ step \notin Leaving => Store = d
<1>1. JournalAt(d) # None => JournalAt(d) \in Journal
  BY FoundFolder
<1>2. CASE Moving /\ step \notin LandedSteps
  <2>1. /\ Journals /\ mem \in Journal /\ mem.from = Named /\ mem.to \in Places
        /\ goal # None /\ holder = App /\ holder \in Procs /\ ~back /\ Whole(Named)
    BY <1>2, MovesOn
  <2>2. d = Named /\ dir[Named] # None
    BY <2>1, FoundThere DEF Whole
  <2>3. mem.from # mem.to
    BY <2>1 DEF RouteInv
  <2>4. Same(JournalAt(d), mem) /\ JournalAt(d) # None /\ Here = Named
    BY <2>1, <2>2 DEF Journals
  <2>5. ~LandedLast
    BY <1>2, <2>1 DEF LandedLast
  <2>6. step \notin Leaving => status[App] = "up" /\ Store = fd[App]
    BY <1>2, <2>1 DEF FoundInv, HolderInv, GoalInv, Store
  <2>7. step \notin Leaving => Store = d
    BY <2>2, <2>6 DEF FoundInv, ProcsInv
  <2>8. dir[d].refusing
    BY <1>2, <2>2, <2>4 DEF FoundInv, HolderInv, ClosedInv
  <2> QED
    BY <1>1, <2>1, <2>2, <2>3, <2>4, <2>5, <2>7, <2>8
<1>3. CASE Ending /\ back
  <2>1. /\ Journals /\ Here = Named /\ holder \in Procs /\ mem \in Journal
        /\ mem.to # Named /\ Whole(Named)
    BY <1>3, EndsHere DEF InPlace
  <2>2. d = Named /\ dir[Named] # None
    BY <2>1, FoundThere DEF Whole
  <2>3. Same(JournalAt(d), mem) /\ JournalAt(d) # None
    BY <2>1, <2>2 DEF Journals
  <2>4. d \in {JournalAt(d).from, JournalAt(d).to}
    BY <2>3, FoundFolder
  <2>5. mem.from = d /\ mem.to # d /\ JournalAt(d).to # d
    BY <2>1, <2>2, <2>3, <2>4 DEF Same
  <2>6. ~LandedLast
    BY <2>3, <2>5 DEF LandedLast
  <2>7. ~Moving
    BY <1>3, EndsHere DEF Moving, Ending, Rekeying, Leaving
  <2>8. step \in RekeySteps => dir[d].refusing
    BY <1>3, <2>1, <2>2 DEF FoundInv, HolderInv, ClosedInv, Rekeying
  <2> QED
    BY <1>1, <2>1, <2>2, <2>3, <2>5, <2>6, <2>7, <2>8, JournalParts
<1>4. QED
  BY <1>2, <1>3 DEF OnTheWay

\* With two moves at most an undo is its store's own.
LEMMA UndoesHere ==
    ASSUME ~Overtaken, IInv, RouteInv, FoundInv, StoreInv, Ending, back,
           NEW d \in Places, Found = d
    PROVE  Store = d
<1>1. Here = d /\ holder \in Procs /\ ~LandedLast
  BY WayShape DEF OnTheWay
<1>2. status[holder] \in {"opened", "up", "leaving"}
  BY <1>1 DEF HolderShape
<1>3. ~Past(2)
  BY <1>1, BoundsAssumption DEF Past, StoreInv, Overtaken, CountsTypeOK
<1>4. QED
  BY <1>1, <1>2, <1>3 DEF StoreInv, Runs, Store, Here

\* The rest of a step on the way: the folder is where it was.
LEMMA WayStays ==
    ASSUME IInv, RouteInv, FoundInv, IInv', FoundInv', StoreInv, OnTheWay,
           NEW d \in Places, Found = d,
           UNCHANGED <<pointer, legacy, at, moves>>, dir'[d] # None,
           \A p \in Procs : /\ status'[p] = status[p] \/ {status'[p], status[p]} \subseteq {"opened", "up", "leaving"}
                            /\ fd'[p] = fd[p] \/ fd[p] # d
    PROVE  Found' = d /\ StoreInv'
<1>1. Named = d /\ Named' = d /\ dir[d] # None /\ ~LandedLast
  BY WayShape DEF Named
<1>2. Found' = d
  BY <1>1, FoundStays
<1>3. StoreInv'
  BY <1>1, <1>2, StoreLeft DEF Runs
<1>4. QED
  BY <1>2, <1>3

LEMMA StandsStagePointer ==
    ASSUME IInv, FoundInv, IInv', FoundInv', StandInv, StoreInv, StagePointer
    PROVE  StandInv' /\ StoreInv' /\ Promised
<1>1. /\ UNCHANGED <<pointer, legacy, data, git, procs, latest, moves, touches>>
      /\ step' = "retire" /\ step = "check" /\ goal # None
  BY DEF StagePointer, Goto, HolderShape
<1>2. PICK d \in Places : Found = d
  BY FoundFolder
<1>3. Found' = d
  BY <1>1, <1>2, FoundSame DEF FoundInv
<1>4. JournalAt(d)' = JournalAt(d) /\ ~LandedLast
  BY <1>1 DEF JournalAt, LandedLast
<1>5. DataAt(d)' /\ WorkAt(d)'
  BY <1>1, <1>2, <1>4, DataLeft, WorkRests DEF StandInv
<1>6. StoreInv'
  BY <1>1, <1>2, <1>3, <1>4, StoreLeft DEF Runs
<1>7. QED
  BY <1>1, <1>2, <1>3, <1>5, <1>6, KeptStill DEF StandInv

\* A journal that lists nothing yet, where everything is in place.
LEMMA StandsWriteJournal ==
    ASSUME IInv, RouteInv, FoundInv, IInv', FoundInv', StandInv, StoreInv, WriteJournal
    PROVE  StandInv' /\ StoreInv' /\ Promised
<1>1. /\ UNCHANGED <<pointer, legacy, partials, git, procs, latest, moves, touches>>
      /\ step' = "plan" /\ step = "journal" /\ goal # None /\ holder \in Procs
      /\ mem' = [from |-> Here, to |-> goal, partial |-> NoPartial, moved |-> Unlisted]
      /\ dir' = Journaled(mem') /\ dir[Here] # None /\ back' = back /\ todo' = todo
      /\ cur' = cur /\ good' = good
      /\ Here \in Places /\ goal \in Places
  BY DEF WriteJournal, Goto, HolderShape, LockTypeOK, ProcsTypeOK, Here,
     Bare
<1>2. PICK d \in Places : Found = d /\ Named = d /\ Here = d /\ JournalAt(d) = None
  BY <1>1, FoundThere, MovesHere DEF FoundInv, HolderInv, PrepareInv, Leaving, InPlace,
     Whole
<1>3. mem' \in Journal
  BY <1>1 DEF LockTypeOK, HolderShape
<1>4. /\ dir'[d] # None /\ dir'[d].journal = mem' /\ dir'[d].rows = dir[d].rows
      /\ dir'[d].count = dir[d].count /\ dir'[d].refusing = dir[d].refusing
  BY <1>1, <1>2, <1>3, JournaledEffect
<1>5. JournalAt(d)' = mem' /\ mem'.from = d /\ mem'.to = goal /\ goal # d
      /\ \A w \in Worktrees : mem'.moved[w].state = "none"
  BY <1>1, <1>2, <1>4 DEF JournalAt, RouteInv, Unlisted
<1>6. Found' = d
  BY <1>1, <1>2, <1>4, FoundStays DEF Named
<1>7. DataAt(d)'
  BY <1>1, <1>2, <1>4, <1>5 DEF StandInv, DataAt, QuietAt, LeftAt, ReachedAt, KeptAt,
     CaptureAt
<1>8. ~back
  BY <1>1 DEF FoundInv, HolderInv, GoalInv, Ending, Rekeying
<1>9. WorkAt(d)'
  BY <1>1, <1>5, <1>8 DEF WorkAt, ForwardAt, LandedAt, UndoneAt, FinishedAt, Moving, Ending,
     Rekeying, Leaving
<1>10. StoreInv'
  <2>1. ~LandedLast
    BY <1>1 DEF LandedLast
  <2> QED
    BY <1>1, <1>2, <1>6, <2>1, StoreLeft DEF Runs
<1>11. QED
  BY <1>2, <1>4, <1>6, <1>7, <1>9, <1>10, KeptStill DEF StandInv

\* An undo takes up all its journal lists, a finish only what is left to remove.
LEMMA StandsResumeJournal ==
    ASSUME IInv, FoundInv, IInv', FoundInv', StandInv, StoreInv, ResumeJournal
    PROVE  StandInv' /\ StoreInv' /\ Promised
<1>1. /\ UNCHANGED <<pointer, legacy, data, git, procs, latest, moves, touches, goal>>
      /\ step = "resume" /\ Stranded = {} /\ Named = Here /\ dir[Here].journal # None
      /\ mem' = dir[Here].journal /\ dir[Here] # None
      /\ (back' <=> mem'.to # Named)
      /\ step' = IF back' THEN "pick" ELSE "unmake"
      /\ back' => todo' = {w \in Worktrees : mem'.moved[w].state # "none"}
  BY DEF ResumeJournal, Goto, JournalAt
<1>2. PICK d \in Places : Found = d /\ Named = d
  BY <1>1, NamedPlace, FoundThere
<1>3. Found' = d
  BY <1>1, <1>2, FoundSame DEF FoundInv
<1>4. JournalAt(d)' = JournalAt(d) /\ JournalAt(d) = mem' /\ JournalAt(d) # None
  BY <1>1, <1>2 DEF JournalAt
<1>5. DataAt(d) /\ DataAt(d)'
  BY <1>1, <1>2, <1>4, DataLeft DEF StandInv
<1>6. back' => JournalAt(d).from = d
  BY <1>1, <1>2, <1>4, FoundFolder
<1>7. WorkAt(d)'
  <2>1. ForwardAt(d)' /\ LandedAt(d)' /\ FinishedAt(d)'
    BY <1>1 DEF ForwardAt, LandedAt, FinishedAt, Moving, Rekeying, Leaving
  <2>2. UndoneAt(d)'
    BY <1>1, <1>4, <1>5, <1>6 DEF DataAt, LeftAt, UndoneAt, KeptAt, CaptureAt, Rekeying
  <2> QED
    BY <2>1, <2>2 DEF WorkAt
<1>8. LandedLast => LandedLast'
  BY <1>1, <1>2, <1>3, <1>4 DEF LandedLast, JournalAt
<1>9. StoreInv'
  BY <1>1, <1>2, <1>3, <1>8, StoreLeft DEF Runs
<1>10. QED
  BY <1>1, <1>2, <1>3, <1>5, <1>7, <1>9, KeptStill DEF StandInv

\* The folder a journal is marked in.
LEMMA MarkedHere ==
    ASSUME IInv, RouteInv, FoundInv, OnTheWay, NEW d \in Places, Found = d,
           NEW j \in Journal, dir' = Journaled(j)
    PROVE  /\ dir'[d] # None /\ JournalAt(d)' = j /\ dir'[d].rows = dir[d].rows
           /\ dir'[d].count = dir[d].count /\ dir'[d].refusing = dir[d].refusing
<1>1. Here = d /\ dir[Here] # None /\ holder \in Procs
  BY WayShape
<1>2. QED
  BY <1>1, JournaledEffect DEF JournalAt

\* The listing: with nothing under the new ids, each capture is the last.
LEMMA StandsPlan ==
    ASSUME IInv, RouteInv, FoundInv, IInv', FoundInv', StandInv, StoreInv, CaptureInv, Plan
    PROVE  StandInv' /\ StoreInv' /\ Promised
<1>1. /\ UNCHANGED <<pointer, legacy, partials, git, procs, latest, moves, touches>>
      /\ step = "plan" /\ step' = "pick" /\ back' = back /\ todo' = Worktrees
      /\ mem' = [mem EXCEPT !.moved =
                   [w \in Worktrees |-> [state |-> "planned",
                                         capture |-> capture[w][mem.from]]]]
      /\ dir' = Journaled(mem')
      /\ \A w \in Worktrees : capture[w][mem.to] = NoCapture
  BY DEF Plan, Goto, Kept
<1>2. PICK d \in Places : Found = d
  BY FoundFolder
<1>3. OnTheWay /\ Moving
  BY <1>1 DEF OnTheWay, Moving, Leaving
<1>4. /\ mem \in Journal /\ mem.from = d /\ mem.to \in Places /\ mem.to # d
      /\ JournalAt(d) # None /\ Same(JournalAt(d), mem) /\ ~back
      /\ dir[d] # None
  BY <1>2, <1>3, WayShape
<1>5. mem' \in Journal
  BY <1>1, <1>4 DEF LockTypeOK, HolderShape, Leaving
<1>6. /\ mem'.from = d /\ mem'.to = mem.to /\ mem'.partial = mem.partial
      /\ \A w \in Worktrees : /\ mem'.moved[w].state = "planned"
                              /\ mem'.moved[w].capture = capture[w][d]
  BY <1>1, <1>4 DEF Journal
<1>7. /\ dir'[d] # None /\ JournalAt(d)' = mem' /\ dir'[d].rows = dir[d].rows
      /\ dir'[d].count = dir[d].count /\ dir'[d].refusing = dir[d].refusing
  BY <1>1, <1>2, <1>3, <1>5, MarkedHere
<1>8. Found' = d /\ StoreInv'
  BY <1>1, <1>2, <1>3, <1>7, WayStays
<1>9. LeftAt(d)
  BY <1>2 DEF StandInv, DataAt
<1>10. LeftAt(d)'
  <2>1. JournalAt(d).from = d /\ JournalAt(d).to = mem.to
        /\ JournalAt(d).partial = mem.partial
    BY <1>4 DEF Same
  <2>2. partials \subseteq {mem.partial} \ {NoPartial}
    BY <1>4, <1>9, <2>1 DEF LeftAt
  <2>3. ASSUME NEW w \in Worktrees
        PROVE  /\ link[w] = d /\ dir[d].rows[w] \in {d, mem.to}
               /\ touches = 0 => capture[w][d] = latest[w]
    BY <1>1, <1>4, <1>9, <2>1 DEF LeftAt
  <2>4. partials' \subseteq {mem'.partial} \ {NoPartial}
    BY <1>1, <1>6, <2>2
  <2>5. ASSUME NEW w \in Worktrees
        PROVE  /\ link'[w] = d /\ dir'[d].rows[w] \in {d, mem'.to}
               /\ touches' = 0 => capture'[w][d] = latest'[w]
               /\ mem'.moved[w].state \notin {"none", "returned"}
    BY <1>1, <1>6, <1>7, <2>3
  <2> QED
    BY <1>7, <2>4, <2>5 DEF LeftAt
<1>11. DataAt(d)'
  BY <1>4, <1>5, <1>6, <1>7, <1>10 DEF DataAt, QuietAt, ReachedAt
<1>12. WorkAt(d)'
  BY <1>1, <1>4, <1>6, <1>7 DEF WorkAt, ForwardAt, LandedAt, UndoneAt, FinishedAt, Moving,
     Ending, Rekeying, Leaving
<1>13. QED
  BY <1>2, <1>7, <1>8, <1>11, <1>12, KeptStill DEF StandInv

\* A move that fails is undone from the journal in memory, which lists no less
\* than the folder's.
LEMMA StandsAborts ==
    ASSUME IInv, RouteInv, FoundInv, IInv', FoundInv', StandInv, StoreInv,
           Moving, step \notin LandedSteps,
           NEW j \in Journal, Abort(j), Same(j, mem),
           \A w \in Worktrees :
               /\ j.moved[w].capture = mem.moved[w].capture
               /\ j.moved[w].state \in {mem.moved[w].state, "rekeyed"},
           UNCHANGED <<git, procs, latest, moves, touches>>, partials' \subseteq partials,
           \A q \in Places : dir[q] # None => dir'[q] = dir[q]
    PROVE  StandInv' /\ StoreInv' /\ Promised
<1>1. PICK d \in Places : Found = d
  BY FoundFolder
<1>2. /\ mem.from = d /\ mem.to # d /\ dir[d] # None /\ ~LandedLast
      /\ JournalAt(d) # None /\ Same(JournalAt(d), mem) /\ Named = d
  BY <1>1, WayShape DEF OnTheWay
<1>3. /\ dir'[d] = dir[d] /\ JournalAt(d)' = JournalAt(d)
      /\ UNCHANGED <<pointer, legacy>> /\ mem' = j /\ back' /\ step' = "pick"
      /\ todo' = {w \in Worktrees : j.moved[w].state # "none"}
  BY <1>2 DEF Abort, JournalAt
<1>4. Found' = d /\ StoreInv'
  <2>1. Found' = d
    BY <1>1, <1>2, <1>3, FoundStays DEF Named
  <2> QED
    BY <1>1, <1>2, <2>1, StoreLeft DEF Runs
<1>5. mem = JournalAt(d) /\ LeftAt(d)
  BY <1>1 DEF StandInv, DataAt, WorkAt, ForwardAt
<1>6. DataAt(d)'
  <2>1. LeftAt(d)'
    BY <1>2, <1>3, <1>5 DEF LeftAt, KeptAt, CaptureAt
  <2> QED
    BY <1>2, <1>3, <1>5, <2>1 DEF DataAt, QuietAt, ReachedAt
<1>7. WorkAt(d)'
  <2>1. UndoneAt(d)'
    BY <1>2, <1>3, <1>5 DEF UndoneAt, LeftAt, KeptAt, CaptureAt, Rekeying
  <2> QED
    BY <1>3, <2>1 DEF WorkAt, ForwardAt, LandedAt, FinishedAt, Moving, Rekeying, Leaving
<1>8. QED
  BY <1>1, <1>3, <1>4, <1>6, <1>7, KeptStill DEF StandInv

LEMMA StandsPlanRefused ==
    ASSUME IInv, RouteInv, FoundInv, IInv', FoundInv', StandInv, StoreInv, PlanRefused
    PROVE  StandInv' /\ StoreInv' /\ Promised
<1>1. mem \in Journal /\ Same(mem, mem) /\ Moving /\ step \notin LandedSteps /\ Abort(mem)
  BY DEF PlanRefused, HolderShape, LockTypeOK, Moving, Same
<1>2. UNCHANGED <<data, git, procs, latest, moves, touches>>
  BY DEF PlanRefused
<1>3. QED
  BY <1>1, <1>2, StandsAborts

\* On the way the folder's journal is of a move from it.
LEMMA WayData ==
    ASSUME NEW d \in Places, JournalAt(d)' # None, JournalAt(d)'.from = d,
           JournalAt(d)'.to # d, LeftAt(d)'
    PROVE  DataAt(d)'
  BY DEF DataAt, QuietAt, ReachedAt

\* An undo that passes over a worktree leaves it where it never went from.
LEMMA StandsPicks ==
    ASSUME ~Overtaken, IInv, RouteInv, FoundInv, IInv', FoundInv', StandInv, StoreInv,
           NEW w \in Worktrees, PickRekey(w) \/ PickNothing(w)
    PROVE  StandInv' /\ StoreInv' /\ Promised
<1>1. /\ UNCHANGED <<pointer, legacy, data, git, procs, latest, moves, touches,
                     mem, back, good>>
      /\ step = "pick" /\ step' \in {"pick", "carry"} /\ cur' \in {cur, w}
      /\ todo' = todo \/ (PickNothing(w) /\ back /\ todo' = todo \ {w})
  BY DEF PickRekey, PickNothing, Goto
<1>2. PICK d \in Places : Found = d
  BY FoundFolder
<1>3. OnTheWay
  BY <1>1 DEF OnTheWay, Moving, Ending, Rekeying, Leaving
<1>4. /\ JournalAt(d) # None /\ Same(JournalAt(d), mem) /\ mem.from = d /\ mem.to # d
      /\ dir[d] # None /\ dir' = dir /\ mem.to \in Places
  BY <1>1, <1>2, <1>3, WayShape
<1>5. Found' = d /\ StoreInv'
  BY <1>1, <1>2, <1>3, <1>4, WayStays
<1>6. JournalAt(d)' = JournalAt(d)
  BY <1>4 DEF JournalAt
<1>7. DataAt(d) /\ DataAt(d)' /\ LeftAt(d) /\ WorkAt(d)
  BY <1>1, <1>2, <1>4, <1>6, DataLeft DEF StandInv, DataAt
<1>8. PickNothing(w) /\ back => KeptAt(w, d, d)
  <2>1. CASE mem.moved[w].state = "returned"
    BY <1>1, <1>7, <2>1 DEF WorkAt, UndoneAt, Ending, Rekeying
  <2>2. CASE back /\ ~Kept(w, mem.to)
    <3>1. Store = d
      BY <1>1, <1>2, <2>2, UndoesHere DEF Ending, Rekeying
    <3>2. dir[d].rows[w] = d /\ capture[w][mem.to] = NoCapture
      BY <1>4, <1>7, <2>2, <3>1 DEF Kept, LeftAt, Same
    <3>3. touches = 0 => capture[w][d] = latest[w]
      BY <1>4, <1>7, <3>2 DEF LeftAt, Same
    <3> QED
      BY <3>2, <3>3 DEF KeptAt, CaptureAt
  <2> QED
    BY <2>1, <2>2 DEF PickNothing
<1>9. WorkAt(d)'
  <2>1. ForwardAt(d)'
    BY <1>1, <1>4, <1>6, <1>7 DEF WorkAt, ForwardAt, KeptAt, CaptureAt, Moving, Rekeying,
       Leaving
  <2>2. UndoneAt(d)'
    BY <1>1, <1>4, <1>6, <1>7, <1>8 DEF WorkAt, UndoneAt, KeptAt, CaptureAt, Ending,
       Rekeying
  <2> QED
    BY <1>1, <2>1, <2>2 DEF WorkAt, LandedAt, FinishedAt
<1>10. QED
  BY <1>2, <1>4, <1>5, <1>7, <1>9, KeptStill DEF StandInv

\* A worktree's rows carried, while the store refuses.
LEMMA StandsRekeyRows ==
    ASSUME ~Overtaken, IInv, RouteInv, FoundInv, IInv', FoundInv', StandInv, StoreInv,
           RekeyRows
    PROVE  StandInv' /\ StoreInv' /\ Promised
<1>1. /\ UNCHANGED <<pointer, legacy, partials, git, procs, latest, moves, touches, rekey>>
      /\ step = "rows" /\ step' = "mark" /\ cur \in Worktrees
      /\ dir' = [dir EXCEPT ![Store].rows[cur] = IF @ = Src THEN Dst ELSE @]
  BY DEF RekeyRows, Goto, HolderShape, LockTypeOK
<1>2. PICK d \in Places : Found = d
  BY FoundFolder
<1>3. OnTheWay
  BY <1>1 DEF OnTheWay, Moving, Ending, Rekeying, Leaving
<1>4. /\ JournalAt(d) # None /\ Same(JournalAt(d), mem) /\ mem.from = d /\ mem.to # d
      /\ dir[d] # None /\ dir[d].refusing /\ mem.to \in Places
  BY <1>1, <1>2, <1>3, WayShape
<1>5. Store = d
  <2>1. CASE back
    BY <1>1, <1>2, <2>1, UndoesHere DEF Ending, Rekeying
  <2>2. CASE ~back
    BY <1>1, <1>2, <1>3, <2>2, WayShape DEF Moving, Rekeying, Leaving
  <2> QED
    BY <2>1, <2>2
<1>6. /\ dir'[d] # None /\ dir'[d].count = dir[d].count /\ dir'[d].refusing
      /\ JournalAt(d)' = JournalAt(d)
  BY <1>4, RowsEffect DEF JournalAt
<1>7. Found' = d /\ StoreInv'
  BY <1>1, <1>2, <1>3, <1>6, WayStays
<1>8. LeftAt(d) /\ WorkAt(d)
  BY <1>2 DEF StandInv, DataAt
<1>9. /\ \A w \in Worktrees \ {cur} : dir'[d].rows[w] = dir[d].rows[w]
      /\ dir'[d].rows[cur] = IF back THEN d ELSE mem.to
      /\ dir'[d].rows \in [Worktrees -> Places]
  <2>1. dir[d] \in Folder /\ dir[d].rows \in [Worktrees -> Places]
    BY <1>2, FoundFolder DEF Folder
  <2>2. dir'[d] = [dir[d] EXCEPT !.rows[cur] =
                     IF dir[d].rows[cur] = Src THEN Dst ELSE dir[d].rows[cur]]
    BY <1>1, <1>5 DEF DataTypeOK
  <2>3. dir'[d].rows = [dir[d].rows EXCEPT ![cur] =
                     IF dir[d].rows[cur] = Src THEN Dst ELSE dir[d].rows[cur]]
    BY <2>1, <2>2 DEF Folder
  <2>4. dir[d].rows[cur] \in {d, mem.to} /\ Src # Dst /\ {Src, Dst} = {d, mem.to}
        /\ Dst = IF back THEN d ELSE mem.to
    BY <1>1, <1>4, <1>8 DEF LeftAt, Same, Src, Dst
  <2> QED
    BY <1>1, <1>4, <2>1, <2>3, <2>4
<1>10. ~back => \A w \in Worktrees : JournalAt(d).moved[w].state \in {"planned", "rekeyed"}
  BY <1>1, <1>8 DEF WorkAt, ForwardAt, Moving, Rekeying, Leaving
<1>11. ASSUME NEW w \in Worktrees PROVE KeptAt(w, d, d) /\ back => KeptAt(w, d, d)'
  BY <1>1, <1>9 DEF KeptAt, CaptureAt
<1>12. ASSUME NEW w \in Worktrees PROVE KeptAt(w, d, mem.to) /\ ~back => KeptAt(w, d, mem.to)'
  BY <1>1, <1>9 DEF KeptAt, CaptureAt
<1>13. DataAt(d)'
  <2>1. ASSUME NEW w \in Worktrees
        PROVE  /\ dir'[d].rows[w] \in {d, JournalAt(d).to}
               /\ JournalAt(d).moved[w].state \in {"none", "returned"} => KeptAt(w, d, d)'
    BY <1>4, <1>8, <1>9, <1>10, <1>11 DEF LeftAt, Same
  <2>2. LeftAt(d)'
    BY <1>1, <1>4, <1>6, <1>8, <2>1 DEF LeftAt, Same
  <2> QED
    BY <1>4, <1>6, <2>2, WayData DEF Same
<1>14. WorkAt(d)'
  <2>1. ForwardAt(d)'
    <3>1. CASE back
      BY <1>1, <3>1 DEF ForwardAt, Moving, Rekeying, Leaving
    <3>2. CASE ~back
      <4>1. \A w \in Worktrees \ todo : KeptAt(w, d, mem.to)'
        BY <1>1, <1>8, <1>12, <3>2 DEF WorkAt, ForwardAt, Moving, Rekeying, Leaving
      <4>2. mem = JournalAt(d)
        BY <1>1, <1>8, <3>2 DEF WorkAt, ForwardAt, Moving, Rekeying, Leaving
      <4>3. CaptureAt(cur, mem.to)'
        BY <1>1, <1>8, <3>2 DEF WorkAt, ForwardAt, CaptureAt, Moving, Rekeying, Leaving
      <4> QED
        BY <1>1, <1>6, <1>9, <1>10, <3>2, <4>1, <4>2, <4>3 DEF ForwardAt, Moving, Rekeying, Leaving
    <3> QED
      BY <3>1, <3>2
  <2>2. UndoneAt(d)'
    <3>1. CASE ~back
      BY <1>1, <3>1 DEF UndoneAt
    <3>2. CASE back
      <4>1. CaptureAt(cur, d)'
        BY <1>1, <1>8, <3>2 DEF WorkAt, UndoneAt, CaptureAt, Ending, Rekeying
      <4> QED
        BY <1>1, <1>6, <1>8, <1>9, <1>11, <3>2, <4>1 DEF WorkAt, UndoneAt, Ending, Rekeying
    <3> QED
      BY <3>1, <3>2
  <2> QED
    BY <1>1, <2>1, <2>2 DEF WorkAt, LandedAt, FinishedAt
<1>15. Promise!Carry
  BY <1>2, <1>4, <1>6, <1>7, <1>9 DEF Promise!Carry
<1>16. QED
  BY <1>2, <1>7, <1>13, <1>14, <1>15 DEF StandInv, Promised, Promise!Next

\* A re-key's mark, in memory.
LEMMA MarkedParts ==
    ASSUME IInv, step \in RekeySteps
    PROVE  /\ mem \in Journal /\ cur \in Worktrees /\ Marked \in Journal /\ Same(Marked, mem)
           /\ \A w \in Worktrees :
                /\ Marked.moved[w].capture = mem.moved[w].capture
                /\ w # cur => Marked.moved[w].state = mem.moved[w].state
           /\ Marked.moved[cur].state = IF back THEN "returned" ELSE "rekeyed"
<1>1. mem \in Journal /\ cur \in Worktrees
  BY DEF HolderShape, LockTypeOK
<1>2. Marked \in Journal
  BY <1>1, JournalMarked DEF Marked
<1>3. mem.moved \in [Worktrees -> Entry]
  BY <1>1 DEF Journal
<1>4. Marked.moved = [mem.moved EXCEPT ![cur].state = IF back THEN "returned" ELSE "rekeyed"]
  BY <1>1 DEF Marked, Journal
<1>5. Same(Marked, mem)
  BY <1>1 DEF Marked, Journal, Same
<1>6. QED
  BY <1>1, <1>2, <1>3, <1>4, <1>5 DEF Entry

\* A re-key that fails fails the move, or is left to the next undo.
LEMMA StandsFailed ==
    ASSUME IInv, RouteInv, FoundInv, IInv', FoundInv', StandInv, StoreInv,
           step \in RekeySteps, Failed,
           UNCHANGED <<data, git, procs, latest, moves, touches>>
    PROVE  StandInv' /\ StoreInv' /\ Promised
<1>1. PICK d \in Places : Found = d
  BY FoundFolder
<1>2. OnTheWay
  BY DEF OnTheWay, Moving, Ending, Rekeying, Leaving
<1>3. CASE ~back
  <2>1. PICK j \in {mem, Marked} : Abort(j)
    BY <1>3 DEF Failed
  <2>2. /\ j \in Journal /\ Same(j, mem)
        /\ \A w \in Worktrees :
              /\ j.moved[w].capture = mem.moved[w].capture
              /\ j.moved[w].state \in {mem.moved[w].state, "rekeyed"}
    BY <1>3, <2>1, MarkedParts DEF Same
  <2>3. Moving /\ step \notin LandedSteps
    BY <1>3 DEF Moving, Rekeying
  <2> QED
    BY <2>1, <2>2, <2>3, StandsAborts
<1>4. CASE back
  <2>1. /\ UNCHANGED <<files, back>> /\ step' = "pick" /\ ~good'
        /\ mem' = IF step = "mark" THEN Marked ELSE mem
    BY <1>4 DEF Failed, Goto
  <2>2. dir[d] # None /\ JournalAt(d)' = JournalAt(d)
    BY <1>1, <1>2, WayShape DEF JournalAt
  <2>3. Found' = d /\ StoreInv'
    BY <1>1, <1>2, <2>1, <2>2, WayStays
  <2>4. DataAt(d)'
    BY <1>1, <2>2, DataLeft DEF StandInv
  <2>5. UndoneAt(d)
    BY <1>1 DEF StandInv, WorkAt
  <2>6. UndoneAt(d)'
    <3>1. \A w \in Worktrees :
             /\ mem.moved[w].capture = JournalAt(d).moved[w].capture
             /\ mem.moved[w].state \in {"none", "returned"} => KeptAt(w, d, d)
      BY <1>4, <2>5 DEF UndoneAt, Ending, Rekeying
    <3>2. step = "mark" => KeptAt(cur, d, d)
      BY <1>4, <2>5 DEF UndoneAt, Ending, Rekeying, KeptAt
    <3>3. \A w \in Worktrees : KeptAt(w, d, d)' = KeptAt(w, d, d)
      BY DEF KeptAt, CaptureAt
    <3>4. \A w \in Worktrees :
             /\ mem'.moved[w].capture = JournalAt(d).moved[w].capture
             /\ mem'.moved[w].state \in {"none", "returned"} => KeptAt(w, d, d)
      BY <2>1, <3>1, <3>2, MarkedParts
    <3> QED
      BY <2>1, <2>2, <3>3, <3>4 DEF UndoneAt, Rekeying
  <2>7. WorkAt(d)'
    BY <1>4, <2>1, <2>6 DEF WorkAt, ForwardAt, LandedAt, FinishedAt, Moving, Rekeying, Leaving
  <2> QED
    BY <1>1, <2>3, <2>4, <2>7, KeptStill DEF StandInv
<1>5. QED
  BY <1>3, <1>4

\* A step of a re-key of captures: one ref of one worktree, at most.
LEMMA StandsCarries ==
    ASSUME IInv, RouteInv, FoundInv, IInv', FoundInv', StandInv, StoreInv,
           step \in {"carry", "drop"}, step' \in {"drop", "rows"},
           UNCHANGED <<files, data, link, procs, latest, moves, touches, rekey>>,
           \A w \in Worktrees \ {cur} : capture'[w] = capture[w],
           touches = 0 =>
             /\ capture'[cur][Dst] = latest[cur]
             /\ \/ capture'[cur][mem.from] = latest[cur]
                \/ /\ capture'[cur][mem.from] = NoCapture
                   /\ latest[cur] = mem.moved[cur].capture
    PROVE  StandInv' /\ StoreInv' /\ Promised
<1>1. PICK d \in Places : Found = d
  BY FoundFolder
<1>2. OnTheWay /\ cur \in Worktrees
  BY DEF OnTheWay, Moving, Ending, Rekeying, Leaving, HolderShape, LockTypeOK
<1>3. /\ JournalAt(d) # None /\ Same(JournalAt(d), mem) /\ mem.from = d /\ mem.to # d
      /\ dir[d] # None /\ dir' = dir /\ mem.to \in Places
      /\ JournalAt(d)' = JournalAt(d)
  BY <1>1, <1>2, WayShape DEF JournalAt
<1>4. Found' = d /\ StoreInv'
  BY <1>1, <1>2, <1>3, WayStays
<1>5. LeftAt(d) /\ WorkAt(d)
  BY <1>1 DEF StandInv, DataAt
<1>6. JournalAt(d).moved[cur].capture = mem.moved[cur].capture
  BY <1>2, <1>5 DEF WorkAt, ForwardAt, UndoneAt, Moving, Ending, Rekeying, Leaving
<1>7. CaptureAt(cur, Dst)'
  BY DEF CaptureAt, Dst
<1>8. /\ Dst = IF back THEN d ELSE mem.to
      /\ \A w \in Worktrees :
            IF w = cur
              THEN touches' = 0 => capture'[w][Dst] = latest'[w]
              ELSE /\ KeptAt(w, d, d)' = KeptAt(w, d, d)
                   /\ KeptAt(w, d, mem.to)' = KeptAt(w, d, mem.to)
  BY <1>3, <1>7 DEF Dst, KeptAt, CaptureAt
<1>9. ~back => \A w \in Worktrees : JournalAt(d).moved[w].state \in {"planned", "rekeyed"}
  BY <1>5 DEF WorkAt, ForwardAt, Moving, Rekeying, Leaving
<1>10. DataAt(d)'
  <2>1. ASSUME NEW w \in Worktrees
        PROVE  JournalAt(d).moved[w].state \in {"none", "returned"} => KeptAt(w, d, d)'
    <3>1. CASE w = cur
      BY <1>3, <1>5, <1>8, <1>9, <3>1 DEF LeftAt, KeptAt, CaptureAt, Same
    <3>2. CASE w # cur
      BY <1>3, <1>5, <1>8, <3>2 DEF LeftAt, Same
    <3> QED
      BY <3>1, <3>2
  <2>2. ASSUME NEW w \in Worktrees
        PROVE  touches = 0 =>
                    \/ capture'[w][d] = latest[w]
                    \/ /\ capture'[w][d] = NoCapture
                       /\ capture'[w][mem.to] = latest[w]
                       /\ latest[w] = JournalAt(d).moved[w].capture
    <3>1. CASE w = cur
      BY <1>3, <1>6, <1>8, <3>1
    <3>2. CASE w # cur
      BY <1>3, <1>5, <3>2 DEF LeftAt, Same
    <3> QED
      BY <3>1, <3>2
  <2>3. LeftAt(d)'
    BY <1>3, <1>5, <2>1, <2>2 DEF LeftAt, Same
  <2> QED
    BY <1>3, <2>3, WayData DEF Same
<1>11. WorkAt(d)'
  <2>1. ForwardAt(d)'
    <3>1. ~back => mem = JournalAt(d) /\ \A w \in Worktrees \ todo : KeptAt(w, d, mem.to)
      BY <1>5 DEF WorkAt, ForwardAt, Moving, Rekeying, Leaving
    <3>2. ~back => \A w \in Worktrees \ todo : KeptAt(w, d, mem.to)'
      BY <1>3, <1>8, <3>1 DEF KeptAt, CaptureAt
    <3> QED
      BY <1>2, <1>3, <1>8, <1>9, <3>1, <3>2 DEF ForwardAt, CaptureAt, Moving, Rekeying,
         Leaving
  <2>2. UndoneAt(d)'
    <3>1. back => \A w \in Worktrees :
              /\ mem.moved[w].capture = JournalAt(d).moved[w].capture
              /\ mem.moved[w].state \in {"none", "returned"} => KeptAt(w, d, d)
              /\ good /\ w \notin todo => KeptAt(w, d, d)
      BY <1>5 DEF WorkAt, UndoneAt, Ending, Rekeying
    <3>2. back => \A w \in Worktrees : KeptAt(w, d, d) => KeptAt(w, d, d)'
      BY <1>3, <1>8 DEF KeptAt, CaptureAt
    <3> QED
      BY <1>2, <1>3, <1>8, <3>1, <3>2 DEF UndoneAt, CaptureAt, Ending, Rekeying
  <2> QED
    BY <2>1, <2>2 DEF WorkAt, LandedAt, FinishedAt
<1>12. QED
  BY <1>1, <1>3, <1>4, <1>10, <1>11, KeptStill DEF StandInv

\* What is known of the capture a re-key is at.
LEMMA RekeyedCapture ==
    ASSUME IInv, RouteInv, FoundInv, StandInv, CaptureInv, step \in RekeySteps
    PROVE  /\ cur \in Worktrees /\ mem.from \in Places /\ mem.to \in Places
           /\ mem.from # mem.to /\ capture[cur][mem.from] \in Nat
           /\ capture[cur][mem.to] \in Nat /\ latest[cur] \in Nat
           /\ capture[cur][mem.from] <= latest[cur] /\ capture[cur][mem.to] <= latest[cur]
           /\ step \in {"drop", "rows", "mark"} => CaptureAt(cur, Dst)
           /\ touches = 0 =>
                \/ capture[cur][mem.from] = latest[cur]
                \/ /\ capture[cur][mem.from] = NoCapture
                   /\ capture[cur][mem.to] = latest[cur]
                   /\ latest[cur] = mem.moved[cur].capture
<1>1. PICK d \in Places : Found = d
  BY FoundFolder
<1>2. OnTheWay /\ cur \in Worktrees
  BY DEF OnTheWay, Moving, Ending, Rekeying, Leaving, HolderShape, LockTypeOK
<1>3. /\ JournalAt(d) # None /\ Same(JournalAt(d), mem) /\ mem.from = d /\ mem.to # d
      /\ mem.to \in Places
  BY <1>1, <1>2, WayShape
<1>4. LeftAt(d) /\ WorkAt(d)
  BY <1>1 DEF StandInv, DataAt
<1>5. JournalAt(d).moved[cur].capture = mem.moved[cur].capture
  BY <1>2, <1>4 DEF WorkAt, ForwardAt, UndoneAt, Moving, Ending, Rekeying, Leaving
<1>6. step \in {"drop", "rows", "mark"} => CaptureAt(cur, Dst)
  BY <1>3, <1>4 DEF CaptureAt, Dst, WorkAt, ForwardAt, UndoneAt, Moving, Ending, Rekeying,
     Leaving
<1>7. touches = 0 =>
        \/ capture[cur][d] = latest[cur]
        \/ /\ capture[cur][d] = NoCapture
           /\ capture[cur][mem.to] = latest[cur]
           /\ latest[cur] = mem.moved[cur].capture
  BY <1>2, <1>3, <1>4, <1>5 DEF LeftAt, Same
<1>8. QED
  BY <1>2, <1>3, <1>6, <1>7 DEF CaptureInv, BehindInv, GitTypeOK, CountsTypeOK

LEMMA StandsCarryCapture ==
    ASSUME IInv, RouteInv, FoundInv, IInv', FoundInv', StandInv, StoreInv, CaptureInv,
           CarryCapture
    PROVE  StandInv' /\ StoreInv' /\ Promised
<1>1. /\ UNCHANGED <<files, data, link, procs, latest, moves, touches, rekey>>
      /\ step = "carry" /\ step' \in {"drop", "rows"}
      /\ capture[cur][Src] = mem.moved[cur].capture
      /\ IF capture[cur][Src] = NoCapture
           THEN capture' = capture
           ELSE /\ capture' = [capture EXCEPT ![cur][Dst] = capture[cur][Src]]
                /\ capture[cur][Dst] \in {NoCapture, capture[cur][Src]}
  BY DEF CarryCapture, Carried, Followed, Goto
<1>2. /\ cur \in Worktrees /\ mem.from \in Places /\ mem.to \in Places /\ mem.from # mem.to
      /\ capture[cur][mem.from] \in Nat /\ capture[cur][mem.to] \in Nat
      /\ latest[cur] \in Nat
      /\ capture[cur][mem.from] <= latest[cur] /\ capture[cur][mem.to] <= latest[cur]
      /\ touches = 0 =>
            \/ capture[cur][mem.from] = latest[cur]
            \/ /\ capture[cur][mem.from] = NoCapture
               /\ capture[cur][mem.to] = latest[cur]
               /\ latest[cur] = mem.moved[cur].capture
  BY <1>1, RekeyedCapture
<1>3. \A w \in Worktrees \ {cur} : capture'[w] = capture[w]
  BY <1>1 DEF GitTypeOK
<1>4. CASE capture[cur][Src] = NoCapture
  <2>1. CASE back
    <3>1. Src = mem.to /\ Dst = mem.from
      BY <2>1 DEF Src, Dst
    <3>2. touches = 0 => capture[cur][mem.from] = latest[cur]
      BY <1>2, <1>4, <3>1 DEF NoCapture
    <3> QED
      BY <1>1, <1>3, <1>4, <3>1, <3>2, StandsCarries
  <2>2. CASE ~back
    <3>1. Src = mem.from /\ Dst = mem.to
      BY <2>2 DEF Src, Dst
    <3>2. touches = 0 => /\ capture[cur][mem.to] = latest[cur]
                         /\ latest[cur] = mem.moved[cur].capture
      BY <1>1, <1>2, <1>4, <3>1 DEF NoCapture
    <3> QED
      BY <1>1, <1>3, <1>4, <3>1, <3>2, StandsCarries
  <2> QED
    BY <2>1, <2>2
<1>5. CASE capture[cur][Src] # NoCapture
  <2>1. capture'[cur][Dst] = capture[cur][Src] /\ capture'[cur][Src] = capture[cur][Src]
    BY <1>1, <1>2, <1>5 DEF GitTypeOK, Src, Dst
  <2>2. touches = 0 => capture[cur][Src] = latest[cur]
    BY <1>1, <1>2, <1>5 DEF Src, Dst, NoCapture
  <2>3. capture'[cur][mem.from] = capture[cur][Src]
    BY <2>1 DEF Src, Dst
  <2> QED
    BY <1>1, <1>3, <2>1, <2>2, <2>3, StandsCarries
<1>6. QED
  BY <1>4, <1>5

LEMMA StandsLeaveCapture ==
    ASSUME IInv, RouteInv, FoundInv, IInv', FoundInv', StandInv, StoreInv, CaptureInv,
           LeaveCapture
    PROVE  StandInv' /\ StoreInv' /\ Promised
<1>1. /\ UNCHANGED <<data, git, procs, latest, moves, touches>>
      /\ step = "carry" /\ ~Carried
  BY DEF LeaveCapture
<1>2. CASE back
  <2>1. UNCHANGED <<files, rekey>> /\ step' = "rows"
    BY <1>2 DEF LeaveCapture, Goto
  <2>2. touches = 0 => capture[cur][mem.from] = latest[cur]
    BY <1>1, <1>2, RekeyedCapture DEF Carried, Followed, Src, Dst
  <2> QED
    BY <1>1, <1>2, <2>1, <2>2, StandsCarries DEF Dst
<1>3. CASE ~back
  <2>1. Abort(mem) /\ mem \in Journal /\ Same(mem, mem)
    BY <1>1, <1>3 DEF LeaveCapture, HolderShape, LockTypeOK, Same
  <2>2. Moving /\ step \notin LandedSteps
    BY <1>1, <1>3 DEF Moving, Rekeying
  <2> QED
    BY <1>1, <2>1, <2>2, StandsAborts
<1>4. QED
  BY <1>2, <1>3

LEMMA StandsDropCapture ==
    ASSUME IInv, RouteInv, FoundInv, IInv', FoundInv', StandInv, StoreInv, CaptureInv,
           DropCapture
    PROVE  StandInv' /\ StoreInv' /\ Promised
<1>1. UNCHANGED <<data, link, procs, latest, moves, touches>> /\ step = "drop"
  BY DEF DropCapture
<1>2. CASE capture[cur][Src] # mem.moved[cur].capture
  BY <1>1, <1>2, StandsFailed DEF DropCapture
<1>3. CASE capture[cur][Src] = mem.moved[cur].capture
  <2>1. /\ UNCHANGED <<files, rekey>> /\ step' = "rows"
        /\ capture' = [capture EXCEPT ![cur][Src] = NoCapture]
    BY <1>3 DEF DropCapture, Goto
  <2>2. /\ cur \in Worktrees /\ mem.from \in Places /\ mem.to \in Places
        /\ mem.from # mem.to
        /\ touches = 0 => capture[cur][Dst] = latest[cur]
        /\ touches = 0 =>
              \/ capture[cur][mem.from] = latest[cur]
              \/ latest[cur] = mem.moved[cur].capture
    BY <1>1, RekeyedCapture DEF CaptureAt
  <2>3. \A w \in Worktrees \ {cur} : capture'[w] = capture[w]
    BY <2>1 DEF GitTypeOK
  <2>4. capture'[cur][Src] = NoCapture /\ capture'[cur][Dst] = capture[cur][Dst]
    BY <2>1, <2>2 DEF GitTypeOK, Src, Dst
  <2>5. touches = 0 =>
          \/ capture'[cur][mem.from] = latest[cur]
          \/ /\ capture'[cur][mem.from] = NoCapture
             /\ latest[cur] = mem.moved[cur].capture
    BY <1>3, <2>2, <2>4 DEF Src, Dst
  <2> QED
    BY <1>1, <2>1, <2>2, <2>3, <2>4, <2>5, StandsCarries
<1>4. QED
  BY <1>2, <1>3

LEMMA StandsRekeyFault ==
    ASSUME IInv, RouteInv, FoundInv, IInv', FoundInv', StandInv, StoreInv, RekeyFault
    PROVE  StandInv' /\ StoreInv' /\ Promised
  BY StandsFailed DEF RekeyFault

\* A worktree marked is where its mark says.
LEMMA StandsMarkEntry ==
    ASSUME IInv, RouteInv, FoundInv, IInv', FoundInv', StandInv, StoreInv, MarkEntry
    PROVE  StandInv' /\ StoreInv' /\ Promised
<1>1. /\ UNCHANGED <<files, partials, git, procs, latest, moves, touches, back, good>>
      /\ step = "mark" /\ step' = "pick" /\ mem' = Marked /\ dir' = Journaled(mem')
      /\ todo' = todo \ {cur}
  BY DEF MarkEntry, Goto
<1>2. PICK d \in Places : Found = d
  BY FoundFolder
<1>3. OnTheWay
  BY <1>1 DEF OnTheWay, Moving, Ending, Rekeying, Leaving
<1>4. /\ JournalAt(d) # None /\ Same(JournalAt(d), mem) /\ mem.from = d /\ mem.to # d
      /\ mem.to \in Places
  BY <1>2, <1>3, WayShape
<1>5. /\ mem' \in Journal /\ Same(mem', mem) /\ cur \in Worktrees
      /\ \A w \in Worktrees :
           /\ mem'.moved[w].capture = mem.moved[w].capture
           /\ w # cur => mem'.moved[w].state = mem.moved[w].state
      /\ mem'.moved[cur].state = IF back THEN "returned" ELSE "rekeyed"
  BY <1>1, MarkedParts
<1>6. /\ dir'[d] # None /\ JournalAt(d)' = mem' /\ dir'[d].rows = dir[d].rows
      /\ dir'[d].count = dir[d].count /\ dir'[d].refusing = dir[d].refusing
  BY <1>1, <1>2, <1>3, <1>5, MarkedHere
<1>7. Found' = d /\ StoreInv'
  BY <1>1, <1>2, <1>3, <1>6, WayStays
<1>8. LeftAt(d) /\ ForwardAt(d) /\ UndoneAt(d)
  BY <1>2 DEF StandInv, DataAt, WorkAt
<1>9. \A w \in Worktrees, p \in Places : KeptAt(w, d, p)' = KeptAt(w, d, p)
  BY <1>1, <1>6 DEF KeptAt, CaptureAt
<1>10. ~back => /\ mem = JournalAt(d)
                /\ KeptAt(cur, d, mem.to)
                /\ \A w \in Worktrees \ todo : KeptAt(w, d, mem.to)
                /\ \A w \in Worktrees : mem.moved[w].state \in {"planned", "rekeyed"}
  BY <1>1, <1>8 DEF ForwardAt, KeptAt, Moving, Rekeying, Leaving
<1>11. back => /\ KeptAt(cur, d, d)
               /\ \A w \in Worktrees :
                     /\ mem.moved[w].capture = JournalAt(d).moved[w].capture
                     /\ mem.moved[w].state \in {"none", "returned"} => KeptAt(w, d, d)
                     /\ good /\ w \notin todo => KeptAt(w, d, d)
  BY <1>1, <1>8 DEF UndoneAt, KeptAt, Ending, Rekeying
<1>12. \A w \in Worktrees : mem'.moved[w].state \in {"none", "returned"} => KeptAt(w, d, d)
  BY <1>5, <1>10, <1>11
<1>13. \A w \in Worktrees : mem'.moved[w].capture = JournalAt(d).moved[w].capture
  BY <1>5, <1>10, <1>11
<1>14. DataAt(d)'
  <2>1. LeftAt(d)'
    BY <1>1, <1>4, <1>5, <1>6, <1>8, <1>9, <1>12, <1>13 DEF LeftAt, Same
  <2> QED
    BY <1>4, <1>5, <1>6, <2>1, WayData DEF Same
<1>15. WorkAt(d)'
  <2>1. ForwardAt(d)'
    BY <1>1, <1>4, <1>5, <1>6, <1>9, <1>10 DEF ForwardAt, Moving, Rekeying, Leaving, Same
  <2>2. UndoneAt(d)'
    BY <1>1, <1>5, <1>6, <1>9, <1>11, <1>12 DEF UndoneAt, Rekeying
  <2> QED
    BY <1>1, <2>1, <2>2 DEF WorkAt, LandedAt, FinishedAt
<1>16. QED
  BY <1>2, <1>6, <1>7, <1>14, <1>15, KeptStill DEF StandInv

\* The app lets go of the folder once every worktree is under its new id.
LEMMA StandsReleasing ==
    ASSUME IInv, RouteInv, FoundInv, IInv', FoundInv', StandInv, StoreInv, Releasing
    PROVE  StandInv' /\ StoreInv' /\ Promised
<1>1. /\ UNCHANGED <<pointer, legacy, data, git, at, fd, latest, moves, touches, rekey>>
      /\ step = "pick" /\ step' = "rename" /\ todo = {} /\ ~back
      /\ status' = [status EXCEPT ![holder] = "leaving"]
  BY DEF Releasing, Goto
<1>2. PICK d \in Places : Found = d
  BY FoundFolder
<1>3. OnTheWay /\ holder \in Procs /\ status[holder] \in {"opened", "up", "leaving"}
  BY <1>1 DEF OnTheWay, Moving, Rekeying, HolderShape, LockTypeOK
<1>4. dir[d] # None /\ JournalAt(d)' = JournalAt(d)
  BY <1>1, <1>2, <1>3, WayShape DEF JournalAt
<1>5. Found' = d /\ StoreInv'
  BY <1>1, <1>2, <1>3, <1>4, WayStays DEF ProcsTypeOK
<1>6. DataAt(d)' /\ ForwardAt(d)
  BY <1>1, <1>2, <1>4, DataLeft DEF StandInv, WorkAt
<1>7. WorkAt(d)'
  <2>1. ForwardAt(d)'
    BY <1>1, <1>4, <1>6 DEF ForwardAt, KeptAt, CaptureAt, Moving, Rekeying, Leaving
  <2> QED
    BY <1>1, <2>1 DEF WorkAt, LandedAt, UndoneAt, FinishedAt
<1>8. QED
  BY <1>1, <1>2, <1>5, <1>6, <1>7, KeptStill DEF StandInv

\* The journal names its copy, of which there is none yet.
LEMMA StandsCrossVolumes ==
    ASSUME IInv, RouteInv, FoundInv, IInv', FoundInv', StandInv, StoreInv, CrossVolumes
    PROVE  StandInv' /\ StoreInv' /\ Promised
<1>1. /\ UNCHANGED <<pointer, legacy, partials, git, procs, latest, moves, touches, back>>
      /\ step = "rename" /\ step' = "copy" /\ mem' = [mem EXCEPT !.partial = moves]
      /\ dir' = Journaled(mem') /\ moves \in Nat
  BY DEF CrossVolumes, Goto, CountsTypeOK
<1>2. PICK d \in Places : Found = d
  BY FoundFolder
<1>3. OnTheWay /\ Moving
  BY <1>1 DEF OnTheWay, Moving, Leaving
<1>4. /\ JournalAt(d) # None /\ Same(JournalAt(d), mem) /\ mem.from = d /\ mem.to # d
      /\ mem \in Journal /\ ~back
  BY <1>2, <1>3, WayShape
<1>5. /\ mem' \in Journal /\ mem'.from = mem.from /\ mem'.to = mem.to
      /\ mem'.moved = mem.moved
  BY <1>1, <1>4, JournalParts DEF Journal
<1>6. /\ dir'[d] # None /\ JournalAt(d)' = mem' /\ dir'[d].rows = dir[d].rows
      /\ dir'[d].count = dir[d].count /\ dir'[d].refusing = dir[d].refusing
  BY <1>1, <1>2, <1>3, <1>5, MarkedHere
<1>7. Found' = d /\ StoreInv'
  BY <1>1, <1>2, <1>3, <1>6, WayStays
<1>8. LeftAt(d) /\ ForwardAt(d)
  BY <1>2 DEF StandInv, DataAt, WorkAt
<1>9. partials = {}
  <2>1. mem.partial = NoPartial
    BY <1>1, <1>3 DEF FoundInv, HolderInv, MoveInv
  <2> QED
    BY <1>4, <1>8, <2>1 DEF LeftAt, Same
<1>10. mem = JournalAt(d)
  BY <1>1, <1>3, <1>8 DEF ForwardAt
<1>11. DataAt(d)'
  <2>1. LeftAt(d)'
    BY <1>1, <1>4, <1>5, <1>6, <1>8, <1>9, <1>10 DEF LeftAt, KeptAt, CaptureAt
  <2> QED
    BY <1>4, <1>5, <1>6, <2>1, WayData
<1>12. WorkAt(d)'
  <2>1. ForwardAt(d)'
    BY <1>1, <1>3, <1>5, <1>6, <1>8 DEF ForwardAt, KeptAt, CaptureAt, Moving, Rekeying,
       Leaving
  <2> QED
    BY <1>1, <1>4, <2>1 DEF WorkAt, LandedAt, UndoneAt, FinishedAt
<1>13. QED
  BY <1>2, <1>6, <1>7, <1>11, <1>12, KeptStill DEF StandInv

LEMMA StandsStartCopy ==
    ASSUME IInv, RouteInv, FoundInv, IInv', FoundInv', StandInv, StoreInv, StartCopy
    PROVE  StandInv' /\ StoreInv' /\ Promised
<1>1. /\ UNCHANGED <<pointer, legacy, dir, git, procs, latest, moves, touches, rekey>>
      /\ step = "copy" /\ step' = "land" /\ partials' = partials \cup {mem.partial}
  BY DEF StartCopy, Goto
<1>2. PICK d \in Places : Found = d
  BY FoundFolder
<1>3. OnTheWay /\ Moving
  BY <1>1 DEF OnTheWay, Moving, Leaving
<1>4. /\ JournalAt(d) # None /\ Same(JournalAt(d), mem) /\ mem.from = d /\ mem.to # d
      /\ dir[d] # None /\ ~back /\ mem.partial # NoPartial
  BY <1>1, <1>2, <1>3, WayShape DEF FoundInv, HolderInv, MoveInv
<1>5. Found' = d /\ StoreInv'
  BY <1>1, <1>2, <1>3, <1>4, WayStays
<1>6. LeftAt(d) /\ ForwardAt(d) /\ JournalAt(d)' = JournalAt(d)
  BY <1>1, <1>2 DEF StandInv, DataAt, WorkAt, JournalAt
<1>7. DataAt(d)'
  <2>1. LeftAt(d)'
    BY <1>1, <1>4, <1>6 DEF LeftAt, KeptAt, CaptureAt, Same
  <2> QED
    BY <1>4, <1>6, <2>1, WayData DEF Same
<1>8. WorkAt(d)'
  <2>1. ForwardAt(d)'
    BY <1>1, <1>3, <1>6 DEF ForwardAt, KeptAt, CaptureAt, Moving, Rekeying, Leaving
  <2> QED
    BY <1>1, <1>4, <2>1 DEF WorkAt, LandedAt, UndoneAt, FinishedAt
<1>9. QED
  BY <1>1, <1>2, <1>5, <1>7, <1>8, KeptStill DEF StandInv

\* The folder is found where it landed: a process left behind by it has one
\* more move past it.
LEMMA LandsStore ==
    ASSUME IInv, StoreInv, Found' # Found, moves > 0, UNCHANGED moves, ~LandedLast,
           LandedLast', \A p \in Procs : Runs(p)' => Runs(p) /\ at'[p] = at[p]
    PROVE  StoreInv'
<1>1. moves \in Nat /\ moves' <= MaxMoves /\ Past(1)'
  BY DEF CountsTypeOK, StoreInv, Past
<1>2. Past(1) => Past(2)'
  BY <1>1 DEF Past
<1>3. QED
  BY <1>1, <1>2 DEF StoreInv

\* The folder renamed is found where it went.
LEMMA StandsRenames ==
    ASSUME IInv, RouteInv, FoundInv, IInv', FoundInv', StandInv, StoreInv,
           step = "rename", Renamed,
           UNCHANGED <<partials, git, status, at, latest, moves, touches>>,
           (step' = "pointer" /\ UNCHANGED <<goal, mem, back>>) \/ (step' = "idle" /\ goal' = None)
    PROVE  StandInv' /\ StoreInv' /\ Promised
<1>1. OnTheWay /\ Moving
  BY DEF OnTheWay, Moving, Leaving
<1>2. PICK d \in Places : Found = d
  BY FoundFolder
<1>3. /\ JournalAt(d) # None /\ Same(JournalAt(d), mem) /\ mem.from = d /\ mem.to # d
      /\ mem.to \in Places /\ dir[d] # None /\ dir[d].refusing /\ ~LandedLast /\ ~back
      /\ moves > 0 /\ Named = d
  BY <1>1, <1>2, WayShape, MovesOn
<1>4. PICK t \in Places : t = mem.to
  BY <1>3
<1>5. mem.partial = NoPartial
  BY <1>1 DEF FoundInv, HolderInv, MoveInv
<1>6. /\ \A q \in Places \ {t} : dir'[q] = None
      /\ dir'[t] = dir[d]
  <2>1. \A q \in Places \ {d} : dir[q] = None
    <3>1. InPlace /\ JournalAt(Named) # None /\ Same(JournalAt(Named), mem)
      BY <1>1, MovesOn
    <3> QED
      BY <1>3, <1>5, <3>1 DEF InPlace, Twin, Same
  <2> QED
    BY <1>3, <1>4, <2>1 DEF Renamed, DataTypeOK
<1>7. Found' = t
  BY <1>6, FoundAlone DEF FoundInv
<1>8. /\ JournalAt(t)' = JournalAt(d) /\ JournalAt(d).to = t /\ JournalAt(d).from # t
      /\ JournalAt(d) # None
  BY <1>3, <1>4, <1>6 DEF JournalAt, Same
<1>9. partials = {} /\ \A w \in Worktrees : KeptAt(w, d, mem.to)
  BY <1>1, <1>2, <1>3, <1>5 DEF StandInv, DataAt, WorkAt, LeftAt, ForwardAt, Same, Leaving
<1>10. \A w \in Worktrees : /\ dir'[t].rows[w] = t
                            /\ touches' = 0 => capture'[w][t] = latest'[w]
  BY <1>4, <1>6, <1>9 DEF KeptAt, CaptureAt
<1>11. DataAt(t)'
  BY <1>8, <1>9, <1>10 DEF DataAt, QuietAt, LeftAt, ReachedAt, KeptAt, CaptureAt
<1>12. WorkAt(t)'
  <2>1. CASE step' = "idle"
    BY <2>1, WorkRests
  <2>2. CASE step' = "pointer" /\ UNCHANGED <<goal, mem, back>>
    BY <1>3, <1>4, <1>9, <1>10, <2>2 DEF WorkAt, ForwardAt, LandedAt, UndoneAt, FinishedAt,
       KeptAt, CaptureAt
  <2> QED
    BY <2>1, <2>2
<1>13. StoreInv'
  <2>1. JournalAt(Found)' = JournalAt(t)'
    BY <1>7 DEF JournalAt
  <2>2. LandedLast'
    BY <1>4, <1>7, <1>8, <2>1 DEF LandedLast
  <2> QED
    BY <1>2, <1>3, <1>4, <1>7, <2>2, LandsStore DEF Runs
<1>14. Promise!Relocate
  BY <1>2, <1>3, <1>6, <1>7 DEF Promise!Relocate
<1>15. QED
  BY <1>7, <1>11, <1>12, <1>13, <1>14 DEF StandInv, Promised, Promise!Next

LEMMA StandsRename ==
    ASSUME IInv, RouteInv, FoundInv, IInv', FoundInv', StandInv, StoreInv,
           RenameFolder \/ RenameFault
    PROVE  StandInv' /\ StoreInv' /\ Promised
<1>1. step = "rename" /\ UNCHANGED <<partials, git, at, latest, moves, touches>>
  BY DEF RenameFolder, RenameFault
<1>2. Moving /\ step \notin LandedSteps /\ mem \in Journal /\ Same(mem, mem)
  BY <1>1 DEF Moving, Leaving, HolderShape, LockTypeOK, Same
<1>3. CASE RenameFolder
  BY <1>1, <1>3, StandsRenames DEF RenameFolder, Goto
<1>4. CASE Abort(mem) /\ UNCHANGED <<dir, fd, status>>
  BY <1>1, <1>2, <1>4, StandsAborts
<1>5. CASE Renamed /\ Release /\ UNCHANGED files
  <2>1. status' = status
    BY <1>1, <1>2, <1>5, MovesOn DEF Release, ProcsTypeOK, FoundInv, HolderInv, GoalInv,
       Leaving
  <2> QED
    BY <1>1, <1>5, <2>1, StandsRenames DEF Release, Clear
<1>6. QED
  BY <1>3, <1>4, <1>5 DEF RenameFault

\* The copy landed is there beside the folder, which is still the one found.
LEMMA StandsLandCopy ==
    ASSUME IInv, RouteInv, FoundInv, IInv', FoundInv', StandInv, StoreInv, LandCopy
    PROVE  StandInv' /\ StoreInv' /\ Promised
<1>1. /\ UNCHANGED <<pointer, legacy, git, procs, latest, moves, touches, rekey>>
      /\ step = "land" /\ step' = "pointer" /\ Landed
  BY DEF LandCopy, Goto
<1>2. PICK d \in Places : Found = d
  BY FoundFolder
<1>3. OnTheWay /\ Moving
  BY <1>1 DEF OnTheWay, Moving, Leaving
<1>4. /\ JournalAt(d) # None /\ Same(JournalAt(d), mem) /\ mem.from = d /\ mem.to # d
      /\ dir[d] # None /\ ~back /\ mem.to \in Places
  BY <1>1, <1>2, <1>3, WayShape
<1>5. dir'[d] = dir[d] /\ dir'[mem.to] = dir[d] /\ partials' = partials \ {mem.partial}
  BY <1>1, <1>4 DEF Landed, DataTypeOK
<1>6. Found' = d /\ StoreInv'
  BY <1>1, <1>2, <1>3, <1>4, <1>5, WayStays
<1>7. LeftAt(d) /\ ForwardAt(d) /\ JournalAt(d)' = JournalAt(d)
  BY <1>2, <1>5 DEF StandInv, DataAt, WorkAt, JournalAt
<1>8. partials' = {}
  BY <1>4, <1>5, <1>7 DEF LeftAt, Same
<1>9. DataAt(d)'
  <2>1. LeftAt(d)'
    BY <1>1, <1>4, <1>5, <1>7, <1>8 DEF LeftAt, KeptAt, CaptureAt, Same
  <2> QED
    BY <1>4, <1>7, <2>1, WayData DEF Same
<1>10. WorkAt(d)'
  <2>1. \A w \in Worktrees : KeptAt(w, d, mem.to)
    BY <1>1, <1>3, <1>7 DEF ForwardAt, Leaving
  <2>2. \A w \in Worktrees : /\ dir'[mem'.to].rows[w] = mem'.to
                             /\ dir'[d].rows[w] = mem'.to
                             /\ touches' = 0 => capture'[w][mem'.to] = latest'[w]
    BY <1>1, <1>5, <2>1 DEF KeptAt, CaptureAt
  <2>3. LandedAt(d)'
    BY <1>8, <2>2 DEF LandedAt, KeptAt, CaptureAt
  <2> QED
    BY <1>1, <1>4, <2>3 DEF WorkAt, ForwardAt, UndoneAt, FinishedAt
<1>11. QED
  BY <1>2, <1>5, <1>6, <1>9, <1>10, KeptStill DEF StandInv

LEMMA StandsCopyFault ==
    ASSUME IInv, RouteInv, FoundInv, IInv', FoundInv', StandInv, StoreInv, CopyFault
    PROVE  StandInv' /\ StoreInv' /\ Promised
<1>1. /\ step \in {"copy", "land"} /\ Abort(mem) /\ mem \in Journal /\ Same(mem, mem)
      /\ UNCHANGED <<git, procs, latest, moves, touches>>
  BY DEF CopyFault, HolderShape, LockTypeOK, Same
<1>2. Moving /\ step \notin LandedSteps
  BY <1>1 DEF Moving, Leaving
<1>3. /\ partials' \subseteq partials
      /\ \A q \in Places : dir[q] # None => dir'[q] = dir[q]
  <2>1. CASE Landed
    BY <2>1 DEF Landed, DataTypeOK
  <2>2. CASE UNCHANGED data
    BY <2>2
  <2> QED
    BY <2>1, <2>2 DEF CopyFault
<1>4. QED
  BY <1>1, <1>2, <1>3, StandsAborts

\* A pointer committed: the folder is found where it was, or where it landed.
LEMMA StandsCommits ==
    ASSUME IInv, RouteInv, FoundInv, IInv', FoundInv', StandInv, StoreInv,
           step \in LandedSteps, step' \in LandedSteps,
           UNCHANGED <<data, git, procs, latest, moves, touches, goal, mem, back>>,
           Named' = mem.to \/ (Named' = Named /\ UNCHANGED staged)
    PROVE  StandInv' /\ StoreInv' /\ Promised
<1>1. PICK d \in Places : Found = d
  BY FoundFolder
<1>2. /\ mem.from # mem.to /\ Whole(mem.to) /\ JournalAt(mem.to) # None
      /\ Same(JournalAt(mem.to), mem) /\ Named \in {mem.from, mem.to} /\ ~back
      /\ goal # None /\ moves > 0 /\ mem.to \in Places
  BY LandsWhole
<1>3. PICK t \in Places : t = mem.to
  BY <1>2
<1>4. \A q \in Places : JournalAt(q)' = JournalAt(q)
  BY DEF JournalAt
<1>5. Found' = t \/ Found' = d
  <2>1. CASE Named' = t
    <3>1. (dir[Named] # None => Found = Named)'
      BY FoundThere, PTL
    <3>2. dir'[Named'] # None
      BY <1>2, <1>3, <2>1 DEF Whole
    <3> QED
      BY <2>1, <3>1, <3>2
  <2>2. CASE Named' = Named /\ UNCHANGED staged
    BY <1>1, <2>2 DEF Found, Stranded
  <2> QED
    BY <1>3, <2>1, <2>2
<1>6. /\ partials = {}
      /\ \A w \in Worktrees : dir[mem.to].rows[w] = mem.to /\ KeptAt(w, d, mem.to)
  BY <1>1 DEF StandInv, WorkAt, LandedAt
<1>7. \A w \in Worktrees : /\ dir[t].rows[w] = t /\ dir[d].rows[w] = t
                           /\ touches = 0 => capture[w][t] = latest[w]
  BY <1>3, <1>6 DEF KeptAt, CaptureAt
<1>8. WorkAt(d)' /\ WorkAt(t)'
  <2>1. LandedAt(d)' /\ LandedAt(t)'
    BY <1>3, <1>6, <1>7 DEF LandedAt, KeptAt, CaptureAt
  <2> QED
    BY <1>2, <2>1 DEF WorkAt, ForwardAt, UndoneAt, FinishedAt
<1>9. CASE Found' = d
  <2>1. JournalAt(Found)' = JournalAt(Found)
    BY <1>1, <1>9 DEF JournalAt
  <2>2. DataAt(d)'
    BY <1>1, <1>4, DataLeft DEF StandInv
  <2>3. LandedLast => LandedLast'
    BY <1>1, <1>9, <2>1 DEF LandedLast
  <2>4. StoreInv'
    BY <1>1, <1>9, <2>3, StoreLeft DEF Runs
  <2> QED
    BY <1>1, <1>8, <1>9, <2>2, <2>4, KeptStill DEF StandInv
<1>10. CASE Found' = t /\ d # t
  <2>1. d = Named /\ dir[d] # None
    <3>1. dir[Named] # None
      <4>1. ASSUME dir[Named] = None PROVE FALSE
        <5>1. RenamedTo(d)
          BY <1>1, <4>1, FoundAway DEF FoundInv
        <5> QED
          BY <1>2, <1>3, <1>10, <5>1 DEF RenamedTo, Whole
      <4> QED
        BY <4>1
    <3> QED
      BY <1>1, <3>1, FoundThere
  <2>2. Twin(t) /\ Whole(d)
    BY <1>2, <1>3, <1>10, <2>1 DEF FoundInv, FolderInv, InPlace, Away, Whole
  <2>3. dir[d].refusing /\ dir[t].refusing
    BY <1>2, <1>3, <2>1, <2>2 DEF Twin, Same, Lists, FoundInv, JournalInv,
       ListedRefuse
  <2>4. dir[d].count = dir[t].count
    BY <1>2, <1>3, <2>2 DEF Whole
  <2>5. dir[d].rows = dir[t].rows
    <3>1. dir[d] \in Folder /\ dir[t] \in Folder
      BY <1>2, <1>3, <2>1 DEF DataTypeOK, Whole
    <3> QED
      BY <1>7, <3>1 DEF Folder
  <2>6. /\ JournalAt(t)' # None /\ JournalAt(t)'.to = t /\ JournalAt(t)'.from # t
    BY <1>2, <1>3, <1>4 DEF Same
  <2>7. DataAt(t)'
    BY <1>6, <1>7, <2>6 DEF DataAt, QuietAt, LeftAt, ReachedAt, KeptAt, CaptureAt
  <2>8. LandedLast'
    <3>1. JournalAt(Found)' = JournalAt(t)'
      BY <1>10 DEF JournalAt
    <3> QED
      BY <1>3, <1>10, <2>6, <3>1 DEF LandedLast
  <2>9. ~LandedLast
    BY <1>1, <1>2, <1>3, <1>10 DEF LandedLast
  <2>10. StoreInv'
    BY <1>1, <1>2, <1>10, <2>8, <2>9, LandsStore DEF Runs
  <2>11. Promise!Relocate
    BY <1>1, <1>10, <2>3, <2>4, <2>5 DEF Promise!Relocate
  <2> QED
    BY <1>8, <1>10, <2>7, <2>10, <2>11 DEF StandInv, Promised, Promise!Next
<1>11. QED
  BY <1>5, <1>9, <1>10

LEMMA StandsPointer ==
    ASSUME IInv, RouteInv, FoundInv, IInv', FoundInv', StandInv, StoreInv,
           CommitPointer \/ ClearLegacy
    PROVE  StandInv' /\ StoreInv' /\ Promised
<1>1. /\ step \in LandedSteps /\ step' \in LandedSteps
      /\ UNCHANGED <<data, git, procs, latest, moves, touches, goal, mem, back>>
  BY DEF CommitPointer, ClearLegacy, Goto
<1>2. /\ goal = mem.to /\ goal # None /\ mem.to \in Places /\ moves > 0
  BY <1>1, LandsWhole
<1>3. CASE CommitPointer
  <2>1. /\ step = "pointer" /\ legacy' = legacy /\ pointer' = PointerTo(mem.to)
        /\ mem.to = Default => staged' = staged
    BY <1>3 DEF CommitPointer, PointerTo
  <2>2. legacy # None => pointer = None \/ mem.to # Default
    BY <1>2 DEF FoundInv, PointersInv
  <2>3. Named' = mem.to \/ (Named' = Named /\ UNCHANGED staged)
    BY <1>2, <2>1, <2>2 DEF Named, PointerTo
  <2> QED
    BY <1>1, <2>3, StandsCommits
<1>4. CASE ClearLegacy
  <2>1. step = "legacy" /\ legacy' = None /\ pointer' = pointer /\ pointer = PointerTo(mem.to)
    BY <1>4 DEF ClearLegacy, FoundInv, HolderInv, LandedInv
  <2>2. Named' = mem.to
    BY <1>2, <2>1 DEF Named, PointerTo
  <2> QED
    BY <1>1, <2>2, StandsCommits
<1>5. QED
  BY <1>3, <1>4

\* With its pointers committed git's links lead to where the folder landed.
LEMMA StandsRelinkAndEnd ==
    ASSUME IInv, RouteInv, FoundInv, IInv', FoundInv', StandInv, StoreInv, RelinkAndEnd
    PROVE  StandInv' /\ StoreInv' /\ Promised
<1>1. /\ UNCHANGED <<pointer, legacy, data, capture, at, fd, latest, moves, touches>>
      /\ step = "links" /\ Release /\ step' = "idle" /\ goal' = None
  BY DEF RelinkAndEnd, Release, Clear
<1>2. /\ mem.from # mem.to /\ Whole(mem.to) /\ JournalAt(mem.to) # None
      /\ Same(JournalAt(mem.to), mem) /\ mem.to \in Places
  BY <1>1, LandsWhole
<1>3. PICK t \in Places : t = mem.to
  BY <1>2
<1>4. Named = t
  BY <1>1, <1>3 DEF FoundInv, HolderInv, LandedInv, Named, PointerTo
<1>5. Found = t
  BY <1>2, <1>3, <1>4, FoundThere DEF Whole
<1>6. Found' = t
  BY <1>1, <1>5, FoundSame DEF FoundInv
<1>7. JournalAt(t)' = JournalAt(t) /\ JournalAt(Found)' = JournalAt(t)
      /\ JournalAt(t) # None /\ JournalAt(t).to = t /\ JournalAt(t).from # t
  BY <1>1, <1>2, <1>3, <1>6 DEF JournalAt, Same
<1>8. DataAt(t)'
  BY <1>1, <1>5, <1>7 DEF StandInv, DataAt, QuietAt, LeftAt, ReachedAt, KeptAt, CaptureAt
<1>9. WorkAt(t)' /\ LandedLast'
  BY <1>1, <1>6, <1>7, WorkRests DEF LandedLast
<1>10. StoreInv'
  <2>1. \A p \in Procs : Runs(p)' <=> Runs(p)
    BY <1>1, EndsShape DEF Ends
  <2> QED
    BY <1>1, <1>5, <1>6, <1>9, <2>1, StoreLeft
<1>11. QED
  BY <1>1, <1>5, <1>6, <1>8, <1>9, <1>10, KeptStill DEF StandInv

\* An undo past its re-keys, or a finish: the folder stays as it is.
LEMMA StandsEnding ==
    ASSUME IInv, FoundInv, IInv', FoundInv', StandInv, StoreInv, Ending,
           NEW d \in Places, Found = d, dir'[d] = dir[d],
           step' \in {"unmake", "unmakeHusk", "repair", "letGo"},
           UNCHANGED <<pointer, legacy, capture, at, status, latest, moves, touches,
                       goal, mem, back, todo>>,
           partials' \subseteq partials, back => todo = {}, good' => good,
           \A p \in Procs : fd'[p] = fd[p] \/ fd[p] # d,
           \A w \in Worktrees : link'[w] = link[w] \/ link'[w] = d,
           back /\ step' # "unmake" /\ good' => partials' = {},
           FinishedAt(d)'
    PROVE  StandInv' /\ StoreInv' /\ Promised
<1>1. /\ Journals /\ Here = Named /\ InPlace /\ JournalAt(Here) # None
  BY EndsHere DEF Journals
<1>2. Named = d /\ dir[d] # None /\ JournalAt(d) # None
  BY <1>1, FoundThere DEF InPlace, Whole
<1>3. Found' = d
  BY <1>2, FoundStays DEF Named
<1>4. JournalAt(d)' = JournalAt(d) /\ JournalAt(Found)' = JournalAt(Found)
  BY <1>3 DEF JournalAt
<1>5. \A w \in Worktrees, p \in Places : KeptAt(w, d, p)' = KeptAt(w, d, p)
  BY DEF KeptAt, CaptureAt
<1>6. DataAt(d)'
  <2>1. QuietAt(d)' /\ ReachedAt(d)'
    BY <1>2, <1>4 DEF StandInv, DataAt, QuietAt, ReachedAt, KeptAt, CaptureAt
  <2>2. LeftAt(d)'
    BY <1>2, <1>4 DEF StandInv, DataAt, LeftAt, KeptAt, CaptureAt
  <2> QED
    BY <2>1, <2>2 DEF DataAt
<1>7. UndoneAt(d)'
  <2>1. back => \A w \in Worktrees :
              /\ mem.moved[w].capture = JournalAt(d).moved[w].capture
              /\ mem.moved[w].state \in {"none", "returned"} => KeptAt(w, d, d)
              /\ good /\ w \notin todo => KeptAt(w, d, d)
    BY DEF StandInv, WorkAt, UndoneAt
  <2> QED
    BY <1>4, <1>5, <2>1 DEF UndoneAt, Rekeying
<1>8. WorkAt(d)'
  BY <1>7 DEF WorkAt, ForwardAt, LandedAt, Moving, Leaving, Rekeying
<1>9. LandedLast => LandedLast'
  <2>1. step \notin LandedSteps
    BY EndsHere DEF Leaving
  <2> QED
    BY <1>3, <1>4, <2>1 DEF LandedLast
<1>10. StoreInv'
  BY <1>3, <1>9, StoreLeft DEF Runs
<1>11. QED
  BY <1>3, <1>6, <1>8, <1>10, KeptStill DEF StandInv

\* What an undo or a finish removes is not the folder found.
LEMMA EndsAt ==
    ASSUME IInv, FoundInv, StandInv, Ending
    PROVE  /\ Found \in Places /\ Here = Found /\ Copy \in Places
           /\ back /\ ~Rekeying => todo = {}
           /\ OwnCopy => Copy # Found
           /\ back => partials \subseteq {mem.partial}
<1>1. /\ Journals /\ Here = Named /\ InPlace /\ Copy \in Places /\ (back <=> mem.to # Named)
  BY EndsHere
<1>2. PICK d \in Places : Found = d
  BY FoundFolder
<1>3. Named = d
  BY <1>1, <1>2, FoundThere DEF InPlace, Whole
<1>4. OwnCopy => Copy # d
  BY <1>1, <1>3 DEF OwnCopy
<1>5. back /\ ~Rekeying => todo = {}
  BY DEF StandInv, WorkAt, UndoneAt
<1>6. /\ JournalAt(d) # None /\ Same(JournalAt(d), mem)
      /\ JournalAt(d) # None => d \in {JournalAt(d).from, JournalAt(d).to}
  BY <1>1, <1>2, <1>3, FoundFolder DEF Journals
<1>7. back => partials \subseteq {mem.partial}
  BY <1>1, <1>2, <1>3, <1>6 DEF StandInv, DataAt, LeftAt, Same
<1>8. QED
  BY <1>1, <1>2, <1>3, <1>4, <1>5, <1>7

LEMMA StandsEndsOn ==
    ASSUME IInv, FoundInv, IInv', FoundInv', StandInv, StoreInv,
           UndoneRekeys \/ UnmakeFault \/ Repair
    PROVE  StandInv' /\ StoreInv' /\ Promised
<1>1. /\ Ending /\ step' \in {"unmake", "repair", "letGo"}
      /\ UNCHANGED <<pointer, legacy, data, capture, at, fd, status, latest, moves, touches,
                     goal, mem, back, todo>>
      /\ good' => good
  BY DEF UndoneRekeys, UnmakeFault, Repair, Goto, AfterCopy, Ending, Rekeying
<1>2. PICK d \in Places : Found = d /\ Here = d
  BY <1>1, EndsAt
<1>3. back => todo = {}
  <2>1. CASE UndoneRekeys
    BY <2>1 DEF UndoneRekeys
  <2>2. CASE UnmakeFault \/ Repair
    BY <1>1, <2>2, EndsAt DEF UnmakeFault, Repair, Rekeying
  <2> QED
    BY <2>1, <2>2
<1>4. \A w \in Worktrees : link'[w] = link[w] \/ link'[w] = d
  BY <1>2 DEF UndoneRekeys, UnmakeFault, Repair
<1>5. back /\ step' # "unmake" /\ good' => partials' = {}
  <2>1. CASE UndoneRekeys \/ UnmakeFault
    BY <2>1 DEF UndoneRekeys, UnmakeFault, Goto
  <2>2. CASE Repair
    BY <1>1, <2>2 DEF Repair, StandInv, WorkAt, UndoneAt
  <2> QED
    BY <2>1, <2>2
<1>6. FinishedAt(d)'
  <2>1. CASE UndoneRekeys \/ UnmakeFault
    BY <2>1 DEF UndoneRekeys, UnmakeFault, Goto, FinishedAt
  <2>2. CASE Repair
    BY <1>2, <2>2 DEF Repair, FinishedAt
  <2> QED
    BY <2>1, <2>2
<1>7. QED
  BY <1>1, <1>2, <1>3, <1>4, <1>5, <1>6, StandsEnding

LEMMA StandsUnmake ==
    ASSUME IInv, FoundInv, IInv', FoundInv', StandInv, StoreInv, Unmake \/ UnmakeHusk
    PROVE  StandInv' /\ StoreInv' /\ Promised
<1>1. /\ Ending /\ step \in {"unmake", "unmakeHusk"}
      /\ step' \in {"unmakeHusk", AfterCopy}
      /\ UNCHANGED <<pointer, legacy, git, at, status, latest, moves, touches, goal, mem,
                     back, todo, good>>
  BY DEF Unmake, UnmakeHusk, Goto, Ending
<1>2. PICK d \in Places : Found = d /\ Here = d
  BY <1>1, EndsAt
<1>3. /\ dir'[d] = dir[d] /\ partials' \subseteq partials
      /\ \A p \in Procs : fd'[p] = fd[p] \/ fd[p] # d
      /\ back /\ good => partials' = {}
  <2>1. CASE Unmake
    <3>1. dir'[d] = dir[d]
      BY <1>1, <1>2, <2>1, EndsAt, UnmakeEffect
    <3>2. \A p \in Procs : fd'[p] = fd[p] \/ fd[p] # d
      BY <1>1, <1>2, <2>1, EndsAt DEF Unmake, Closed
    <3> QED
      BY <1>1, <2>1, <3>1, <3>2, EndsAt DEF Unmake
  <2>2. CASE UnmakeHusk
    <3>1. Copy # d /\ Copy \in Places
      BY <1>1, <1>2, <2>2, EndsAt DEF UnmakeHusk, HolderShape
    <3>2. back /\ good => partials = {}
      BY <1>1, <2>2 DEF UnmakeHusk, StandInv, WorkAt, UndoneAt
    <3> QED
      BY <2>2, <3>1, <3>2 DEF UnmakeHusk, Closed, DataTypeOK
  <2> QED
    BY <2>1, <2>2
<1>4. back => todo = {}
  BY <1>1, EndsAt DEF Rekeying
<1>5. FinishedAt(d)' /\ step' \in {"unmakeHusk", "repair", "letGo"}
  BY <1>1 DEF FinishedAt, AfterCopy
<1>6. QED
  BY <1>1, <1>2, <1>3, <1>4, <1>5, StandsEnding

\* The journal goes from a folder that owes nothing.
LEMMA StandsLetGo ==
    ASSUME IInv, FoundInv, IInv', FoundInv', StandInv, StoreInv, LetGo
    PROVE  StandInv' /\ StoreInv' /\ Promised
<1>1. /\ UNCHANGED <<pointer, legacy, partials, git, procs, latest, moves, touches, goal>>
      /\ step = "letGo" /\ good /\ step' = "revive" /\ dir' = Journaled(None) /\ Ending
      /\ ~Rekeying
  BY DEF LetGo, Goto, Ending, Rekeying
<1>2. /\ Journals /\ Here = Named /\ InPlace /\ holder \in Procs
      /\ (back <=> mem.to # Named)
  BY <1>1, EndsHere
<1>3. PICK d \in Places : Found = d
  BY FoundFolder
<1>4. Named = d /\ dir[d] # None /\ JournalAt(d) # None /\ Same(JournalAt(d), mem)
  BY <1>2, <1>3, FoundThere DEF InPlace, Whole, Journals
<1>5. /\ dir'[d] # None /\ JournalAt(d)' = None /\ dir'[d].rows = dir[d].rows
      /\ dir'[d].count = dir[d].count /\ dir'[d].refusing = dir[d].refusing
  BY <1>1, <1>2, <1>4, JournaledEffect DEF JournalAt
<1>6. Found' = d
  BY <1>1, <1>4, <1>5, FoundStays DEF Named
<1>7. partials = {} /\ \A w \in Worktrees : link[w] = d /\ KeptAt(w, d, d)
  <2>1. CASE back
    <3>1. JournalAt(d).from = d
      BY <1>2, <1>3, <1>4, <2>1, FoundFolder DEF Same
    <3>2. \A w \in Worktrees : link[w] = d
      BY <1>3, <1>4, <3>1 DEF StandInv, DataAt, LeftAt
    <3>3. UndoneAt(d)
      BY <1>3 DEF StandInv, WorkAt
    <3> QED
      BY <1>1, <2>1, <3>2, <3>3 DEF UndoneAt
  <2>2. CASE ~back
    <3>1. JournalAt(d).to = d
      BY <1>2, <1>4, <2>2 DEF Same
    <3> QED
      BY <1>1, <1>3, <1>4, <2>2, <3>1 DEF StandInv, DataAt, WorkAt, ReachedAt, FinishedAt
  <2> QED
    BY <2>1, <2>2
<1>8. DataAt(d)'
  BY <1>1, <1>5, <1>7 DEF DataAt, QuietAt, LeftAt, ReachedAt, KeptAt, CaptureAt
<1>9. WorkAt(d)'
  BY <1>1, WorkRests
<1>10. LandedLast => LandedLast'
  BY <1>1, <1>5, <1>6 DEF LandedLast, JournalAt
<1>11. StoreInv'
  BY <1>1, <1>3, <1>6, <1>10, StoreLeft DEF Runs
<1>12. QED
  BY <1>3, <1>5, <1>6, <1>8, <1>9, <1>11, KeptStill DEF StandInv

LEMMA StandsInit == Init => StandInv /\ StoreInv /\ Promise!Init
<1> SUFFICES ASSUME Init PROVE StandInv /\ StoreInv /\ Promise!Init
  OBVIOUS
<1>1. IInv /\ FoundInv
  BY InitHolds, FoundInit
<1>2. PICK d \in Places : Named = d
  BY <1>1, NamedPlace
<1>3. /\ dir[d] = [kind |-> "data", refusing |-> FALSE, count |-> 0,
                   rows |-> [w \in Worktrees |-> d], journal |-> None]
      /\ dir[d] # None
  <2>1. dir[d] = [kind |-> "data", refusing |-> FALSE, count |-> 0,
                  rows |-> [w \in Worktrees |-> d], journal |-> None]
    BY <1>2 DEF Init
  <2>2. dir[d] \in Folder
    BY <2>1 DEF Folder
  <2> QED
    BY <2>1, <2>2
<1>4. Found = d
  BY <1>2, <1>3, FoundThere
<1>5. JournalAt(d) = None
  BY <1>3 DEF JournalAt
<1>6. DataAt(d)
  <2>1. /\ partials = {}
        /\ \A w \in Worktrees : link[w] = d /\ dir[d].rows[w] = d /\ capture[w][d] = latest[w]
    BY <1>2, <1>3 DEF Init
  <2> QED
    BY <1>5, <2>1 DEF DataAt, QuietAt, LeftAt, ReachedAt, KeptAt, CaptureAt
<1>7. WorkAt(d)
  BY DEF Init, WorkAt, ForwardAt, LandedAt, UndoneAt, FinishedAt, Moving, Ending, Rekeying,
     Leaving
<1>8. StoreInv
  BY BoundsAssumption DEF Init, StoreInv, Runs
<1>9. Promise!Init
  BY <1>3, <1>4 DEF Promise!Init, Promise!Consistent
<1>10. QED
  BY <1>4, <1>6, <1>7, <1>8, <1>9 DEF StandInv

\* Every step keeps what stands, and is a step of the promise or none.
LEMMA StandsKept ==
    ASSUME ~Overtaken, IInv, RouteInv, CaptureInv, FoundInv, IInv', FoundInv', StandInv,
           StoreInv, [Next]_vars
    PROVE  StandInv' /\ StoreInv' /\ Promised
<1>1. CASE UNCHANGED vars
  <2>1. /\ UNCHANGED <<pointer, legacy, data, git, latest, moves, touches, lock>>
        /\ \A p \in Procs : Runs(p)' => Runs(p) /\ at'[p] = at[p] /\ fd'[p] = fd[p]
    BY <1>1 DEF vars, Runs
  <2> QED
    BY <2>1, StandsAside
<1>2. CASE ResumeStep
  BY <1>2, StandsEnds, StandsTriggers, StandsResumeJournal DEF ResumeStep
<1>3. CASE PrepareStep
  BY <1>3, StandsEnds, StandsStagePointer, StandsTriggers, StandsWriteJournal, StandsPlan,
     StandsPlanRefused DEF PrepareStep
<1>4. CASE RekeyStep
  BY <1>4, StandsPicks, StandsRekeyRows, StandsCarryCapture, StandsLeaveCapture,
     StandsDropCapture, StandsMarkEntry, StandsRekeyFault DEF RekeyStep
<1>5. CASE LandStep
  BY <1>5, StandsReleasing, StandsRename, StandsCrossVolumes, StandsStartCopy,
     StandsLandCopy, StandsCopyFault, StandsPointer, StandsRelinkAndEnd, StandsEnds
     DEF LandStep
<1>6. CASE EndStep
  BY <1>6, StandsEndsOn, StandsUnmake, StandsEnds, StandsLetGo, StandsTriggers DEF EndStep
<1>7. ASSUME NEW p \in Procs, Open(p) PROVE StandInv' /\ StoreInv' /\ Promised
  BY <1>7, StandsOpen
<1>8. ASSUME NEW p \in Procs, StartStep(p) \/ Write(p) \/ Quit(p) \/ Crash(p)
      PROVE  StandInv' /\ StoreInv' /\ Promised
  BY <1>8, StandsProcess, StandsWrite DEF StartStep
<1>9. ASSUME NEW p \in Procs, NEW w \in Worktrees, Capture(p, w)
      PROVE  StandInv' /\ StoreInv' /\ Promised
  BY <1>9, StandsCapture
<1>10. ASSUME NEW p \in Places, BeginMove(p) PROVE StandInv' /\ StoreInv' /\ Promised
  BY <1>10, StandsBeginMove
<1>11. ASSUME NEW p \in Places, NEW dropped \in BOOLEAN, Rescue(p, dropped)
       PROVE  StandInv' /\ StoreInv' /\ Promised
  BY <1>11, StandsRescue
<1>12. QED
  BY <1>1, <1>2, <1>3, <1>4, <1>5, <1>6, <1>7, <1>8, <1>9, <1>10, <1>11
     DEF Next, HolderStep

Standing == IInv /\ RouteInv /\ CaptureInv /\ FoundInv /\ StandInv /\ StoreInv

LEMMA StandsNext ==
    ASSUME ~Overtaken PROVE Standing /\ [Next]_vars => Standing' /\ Promised
<1> SUFFICES ASSUME Standing, [Next]_vars PROVE Standing' /\ Promised
  OBVIOUS
<1>1. IInv' /\ RouteInv' /\ CaptureInv' /\ FoundInv'
  BY NextKeeps, RouteKeeps, CaptureKept, FoundKept DEF Standing, Overtaken
<1>2. StandInv' /\ StoreInv' /\ Promised
  BY <1>1, StandsKept DEF Standing
<1>3. QED
  BY <1>1, <1>2 DEF Standing

LEMMA StandsBegin == Init => Standing /\ Promise!Init
  BY InitHolds, CaptureInit, FoundInit, StandsInit DEF Standing

\* A store that writes has nothing left of a move.
LEMMA StandsOpened == ASSUME Standing PROVE OpenStands
<1> USE DEF Standing
<1>1. PICK d \in Places : Found = d
  BY FoundFolder
<1>2. SUFFICES ASSUME Writes(d) PROVE
        /\ partials = {} /\ \A w \in Worktrees : link[w] = d /\ KeptAt(w, d, d)
        /\ \A q \in Places \ {d} : dir[q] = None
  BY <1>1, <1>2 DEF OpenStands, OpenIsConsistent, OpenHasCaptures, OpenIsAlone, KeptAt,
     CaptureAt
<1>3. /\ \A q \in Places \ {d} : dir[q] = None
      /\ JournalAt(d) # None => ~Lists(d, JournalAt(d))
  BY <1>2, OpenAlone DEF Writes
<1>4. CASE JournalAt(d) = None
  BY <1>1, <1>3, <1>4 DEF StandInv, DataAt, QuietAt
<1>5. CASE JournalAt(d) # None
  <2>1. /\ JournalAt(d).from = d /\ JournalAt(d).partial = NoPartial
        /\ JournalAt(d).moved = Unlisted
    BY <1>3, <1>5 DEF Lists
  <2>2. \A w \in Worktrees : JournalAt(d).moved[w].state = "none"
    BY <2>1 DEF Unlisted
  <2> QED
    BY <1>1, <1>3, <1>5, <2>1, <2>2 DEF StandInv, DataAt, LeftAt
<1>6. QED
  BY <1>4, <1>5

\* Whenever the store writes, whatever failed, crashed or was undone before, and under
\* a journal given up on as it was written too: every worktree's rows, capture and
\* git link are under the id of the place the data dir is at, and no copy, no half
\* copy and no other folder is left (finishMove and undoMove of dataDirMove.ts,
\* rekeyCapture of kept.ts).
THEOREM StandsWhenOpen == ASSUME ~Overtaken PROVE Spec => []OpenStands
<1>1. Standing /\ [Next]_vars => Standing'
  BY StandsNext
<1>2. Standing => OpenStands
  BY StandsOpened
<1>3. QED
  BY <1>1, <1>2, StandsBegin, PTL DEF Spec

\* The move implements the data folder it promises (DataFolder): under every step,
\* failure and crash there is one data dir, which takes a write only while open,
\* changes place as one step and only while closed, and opens again with every
\* worktree's rows under the ids of the place it is at (dataDirMove.ts, Paths.ts).
THEOREM KeepsThePromise == ASSUME ~Overtaken PROVE Spec => KeepsPromise
<1>1. Standing /\ [Next]_vars => Standing' /\ [Promise!Next]_(Promise!vars)
  BY StandsNext DEF Promised
<1>2. QED
  BY <1>1, StandsBegin, PTL DEF Spec, KeepsPromise, Promise!Spec

================================================================================
