-------------------------- MODULE WorktreeFoundProofs --------------------------
(* What is proved of where a worktree's checkout is, for any worktrees, places,  *)
(* processes, moves, crashes and failures: it is whole where git lists it, or    *)
(* where a record of its move leads, and no move deletes the only copy. One      *)
(* that no record is of is where git lists it and nowhere else; of one that has  *)
(* a record, the record says where its copies are, and the step of whoever is    *)
(* at work on that record says which of them is whole. WorktreeMoveProofs has    *)
(* that nobody else is at work on it. Then, that what the store keeps of a       *)
(* worktree and its capture follow it: they are under the id git lists it at, or *)
(* under the one the carry of its record stands at (KeptInv); and that an id it  *)
(* left leads there by the recorded moves, whose chains lead on in the order of  *)
(* their rows and end where its rows are (EndInv). Last, the types.              *)
EXTENDS WorktreeMoveProofs, WellFoundedInduction

--------------------------------------------------------------------------------
(* What holds at every instant.                                                *)

\* What the theorems assume, each for an interleaving under which one of the two
\* properties is false or its invariant is. A process's moves and resumes come one
\* after another; a resume takes over the row as it finds it (moving.ts 507-511)
\* and not as it read it; nobody puts a folder where git lists a checkout that is
\* gone; and either no move crosses volumes or none of its steps fails, since an
\* undo whose own repair fails deletes the copy git lists (moving.ts 253-262).
OneFiber == \A t, u \in Tasks : Proc[t] = Proc[u] => t = u
Sound == /\ OneFiber /\ ~SlowTurn /\ ~LateTurn /\ ~Squatters
         /\ Far = {} \/ MaxFaults = 0

DiskInv == /\ disk \in [Spots -> Folders \cup {None}]
           /\ entry \in [Worktrees -> Spots \cup {None}]

\* No folder is left by one record and moved to by another, or moved to by two,
\* and no worktree is of two.
Moves(q, w) == moving[q] # None /\ moving[q].link = w
RowsInv ==
    /\ \A p, q \in Places : moving[p] # None /\ moving[q] # None =>
          moving[p].to # q /\ (moving[p].to = moving[q].to => p = q)
    /\ \A p, q \in Places, w \in Worktrees : Moves(p, w) /\ Moves(q, w) => p = q
    /\ \A t \in Tasks : task[t].move # None => task[t].move.from # task[t].move.to

\* A worker's record is as its row says, as is one that is about to be taken over,
\* unless another came first.
Like(m, r) == m.to = r.to /\ m.link = r.link /\ m.partial = r.partial
Same(m, f) == /\ f.at # "dead" => Like(m, f.rec)
              /\ m # None /\ m.owner = f.rec.owner => Like(m, f.rec)
SameInv == \A t \in Tasks, f \in Fibers : task[t] = f /\ f.rec # None =>
               Same(moving[f.rec.from], f)

\* A worktree that no record is of is where git lists it, whole, and nowhere else.
Settled(w) == \A p \in Spots : entry[w] = p \/ Holds(p, w) =>
                  entry[w] = p /\ WholeAt(w, p)
SettledInv ==
    \A w \in Worktrees : (\A q \in Places : ~Moves(q, w)) => Settled(w)

\* One that is being moved is whole where git lists it, or was renamed to where it
\* goes before git recorded that; a move between volumes may leave a second copy.
Renamed(r) == /\ ~r.partial /\ entry[r.link] = r.from
              /\ disk[r.from] = None /\ WholeAt(r.link, r.to)
Sits(r) ==
    LET w == r.link
    IN /\ entry[w] \in {r.from, r.to} \/ (~r.partial /\ entry[w] = Nested)
       /\ \A p \in Spots : entry[w] = p => WholeAt(w, p) \/ Renamed(r)
       /\ \A p \in Spots : Holds(p, w) =>
             \/ entry[w] = p
             \/ r.partial /\ p \in {r.from, r.to}
             \/ Renamed(r) /\ p = r.to
SitsInv ==
    \A q \in Places, r \in Records : moving[q] = r =>
        /\ r.link # None => Sits(r)
        /\ r.partial => r.link # None /\ Crosses(r)

\* What a worker has done so far.
Own == {"claimed", "renamed", "relink", "copying", "placed", "carry", "ref", "refdrop",
        "wipefrom", "forget"}
Carrying == {"carry", "ref", "refdrop", "wipefrom"}
Fine(f) ==
    LET r == f.rec  w == f.rec.link
    IN /\ f.at = "claimed" /\ w # None =>
             ~r.partial /\ entry[w] = r.from /\ WholeAt(w, r.from)
       /\ f.at \in {"renamed", "relink"} => w # None /\ Renamed(r)
       /\ f.at \in {"copying", "placed"} => w # None /\ r.partial /\ entry[w] = r.from
       /\ f.at = "placed" => WholeAt(w, r.to)
       /\ f.at \in Carrying /\ r.partial =>
             w # None /\ entry[w] = r.to /\ (f.own => Holds(r.from, w))
       /\ f.at \in {"ref", "refdrop"} => (Holds(r.to, w) => entry[w] = r.to)
       /\ f.at = "judge" => w # None /\ entry[w] = r.to /\ ~Holds(r.from, w)
       /\ f.at = "wipefrom" => r.partial /\ Holds(r.from, w)
       /\ f.at = "wipeto" => r.partial /\ entry[w] = r.from /\ Holds(r.to, w)
       /\ f.at = "forget" => /\ Holds(r.from, w) => entry[w] = r.from
                             /\ Holds(r.to, w) => entry[w] = r.to
       /\ f.at \notin {"undo", "undoplaced"}
StepInv ==
    \A t \in Tasks, f \in Fibers : task[t] = f =>
        /\ f.own => f.at \in Own
        /\ f.rec # None /\ f.at # "dead" => Fine(f)

FoundInv == DiskInv /\ RowsInv /\ SameInv /\ SettledInv /\ SitsInv /\ StepInv

--------------------------------------------------------------------------------
(* What git lists, and what a worker has in hand.                              *)

LEMMA KnownRow ==
    ASSUME IInv, FoundInv, NEW q \in Places, moving[q] # None
    PROVE  /\ moving[q] \in Records /\ moving[q].from = q /\ moving[q].to \in Places
           /\ moving[q].to # q /\ moving[q].link \in Worktrees \cup {None}
           /\ moving[q].link # None => Sits(moving[q])
           /\ moving[q].partial => moving[q].link # None /\ Crosses(moving[q])
<1>1. moving[q] \in Records /\ moving[q].from = q
  BY DEF IInv, RecordInv
<1>2. /\ moving[q].link # None => Sits(moving[q])
      /\ moving[q].partial => moving[q].link # None /\ Crosses(moving[q])
  BY <1>1 DEF FoundInv, SitsInv
<1>. QED  BY <1>1, <1>2 DEF FoundInv, RowsInv, Records

\* A worktree git lists at a folder is there, whole, or was renamed from there.
LEMMA ListedIs ==
    ASSUME IInv, FoundInv, NEW v \in Worktrees, NEW p \in Spots, entry[v] = p
    PROVE  \/ WholeAt(v, p)
           \/ p \in Places /\ Moves(p, v) /\ disk[p] = None
<1>1. CASE \A q \in Places : ~Moves(q, v)
  BY <1>1 DEF FoundInv, SettledInv, Settled
<1>2. ASSUME NEW q \in Places, Moves(q, v)
      PROVE  WholeAt(v, p) \/ (p \in Places /\ Moves(p, v) /\ disk[p] = None)
  <2>1. /\ moving[q] # None /\ moving[q].link = v /\ v # None
        /\ Sits(moving[q]) /\ moving[q].from = q
    BY <1>2, KnownRow, PlaceAssumption DEF Moves
  <2>. QED  BY <1>2, <2>1 DEF Sits, Renamed
<1>. QED  BY <1>1, <1>2

LEMMA AFolder ==
    ASSUME NEW w \in Worktrees \cup {Alien}, NEW whole \in BOOLEAN
    PROVE  /\ [of |-> w, whole |-> whole] \in Folders
           /\ [of |-> w, whole |-> whole] # None
<1>1. [of |-> w, whole |-> whole] \in Folders
  BY DEF Folders
<1>. QED  BY <1>1, NoneAssumption

LEMMA HeldIsFolder ==
    ASSUME NEW p \in Spots, NEW w \in Worktrees
    PROVE  /\ WholeAt(w, p) => /\ Holds(p, w) /\ disk[p] # None /\ disk[p].of = w
                               /\ disk[p].whole
           /\ WholeAt(w, p)' => Holds(p, w)'
<1>1. [of |-> w, whole |-> TRUE] # None /\ w # None
  BY AFolder, PlaceAssumption
<1>. QED  BY <1>1 DEF WholeAt, Holds

LEMMA ListedHolds ==
    ASSUME IInv, FoundInv, NEW p \in Spots, NEW w \in Worktrees,
           Listed(p), Holds(p, w)
    PROVE  entry[w] = p
<1>1. PICK v \in Worktrees : entry[v] = p
  BY DEF Listed
<1>2. WholeAt(v, p)
  BY <1>1, ListedIs DEF Holds
<1>3. v = w
  BY <1>2, HeldIsFolder DEF WholeAt, Holds
<1>. QED  BY <1>1, <1>3

LEMMA RecOf ==
    ASSUME NEW f \in Fibers, f.rec # None
    PROVE  f.rec \in Records /\ f.rec.from \in Places
<1>1. f.rec \in Records
  BY DEF Fibers
<1>. QED  BY <1>1 DEF Records

LEMMA SitsLike ==
    ASSUME NEW m, NEW r, Like(m, r), m.from = r.from
    PROVE  /\ Sits(m) <=> Sits(r)
           /\ Sits(m)' <=> Sits(r)'
           /\ Crosses(m) <=> Crosses(r)
  BY DEF Sits, Renamed, Like, Crosses

LEMMA AtHand ==
    ASSUME IInv, FoundInv, NEW t \in Tasks, NEW f \in Fibers, task[t] = f,
           f.at \in AtWork
    PROVE  /\ f.rec \in Records /\ f.rec # None /\ f.rec.from \in Places
           /\ f.rec.to \in Places /\ f.rec.from # f.rec.to
           /\ f.rec.link \in Worktrees \cup {None} /\ Working(t)
           /\ moving[f.rec.from] \in Records /\ moving[f.rec.from] # None
           /\ moving[f.rec.from].from = f.rec.from
           /\ moving[f.rec.from].owner = Self(t) /\ Like(moving[f.rec.from], f.rec)
           /\ f.rec.link # None => Sits(f.rec)
           /\ f.rec.partial => f.rec.link # None /\ Crosses(f.rec)
           /\ Fine(f) /\ (f.own => f.at \in Own) /\ f.rec.partial \in BOOLEAN
           /\ \A q \in Places : f.rec.link # None /\ Moves(q, f.rec.link)
                                => q = f.rec.from
<1>1. /\ f.rec \in Records /\ f.rec # None /\ f.rec.from \in Places /\ Working(t)
      /\ moving[f.rec.from] # None /\ moving[f.rec.from].owner = Self(t)
  BY InHandOf DEF Held
<1>2. f.at # "dead"
  BY DEF AtWork
<1>3. Like(moving[f.rec.from], f.rec) /\ Fine(f) /\ (f.own => f.at \in Own)
  BY <1>1, <1>2 DEF FoundInv, SameInv, Same, StepInv
<1>4. f.rec.to \in Places /\ f.rec.link \in Worktrees \cup {None}
      /\ f.rec.partial \in BOOLEAN
  BY <1>1 DEF Records
<1>5. /\ moving[f.rec.from] \in Records /\ moving[f.rec.from].from = f.rec.from
      /\ moving[f.rec.from].to # f.rec.from
      /\ moving[f.rec.from].link # None => Sits(moving[f.rec.from])
      /\ moving[f.rec.from].partial => /\ moving[f.rec.from].link # None
                                       /\ Crosses(moving[f.rec.from])
  BY <1>1, KnownRow
<1>6. /\ f.rec.link # None => Sits(f.rec)
      /\ f.rec.partial => f.rec.link # None /\ Crosses(f.rec)
      /\ f.rec.from # f.rec.to
  BY <1>3, <1>5, SitsLike DEF Like
<1>7. ASSUME NEW q \in Places, f.rec.link # None, Moves(q, f.rec.link)
      PROVE  q = f.rec.from
  <2>1. Moves(f.rec.from, f.rec.link)
    BY <1>1, <1>3 DEF Moves, Like
  <2>. QED  BY <1>1, <1>4, <1>7, <2>1 DEF FoundInv, RowsInv
<1>. QED  BY <1>1, <1>3, <1>4, <1>5, <1>6, <1>7

--------------------------------------------------------------------------------
(* What a step leaves of the worktrees and the records it is not about.        *)

\* Only the folders of one worktree change, and where git lists that one; a folder
\* is made where git lists no other.
Only(x) ==
    /\ DiskInv'
    /\ \A v \in Worktrees \ {x} : entry'[v] = entry[v]
    /\ \A p \in Spots : disk'[p] # disk[p] =>
          /\ disk[p] = None => \A v \in Worktrees \ {x} : entry[v] # p
          /\ disk[p] # None => disk[p].of = x
          /\ disk'[p] # None => disk'[p].of = x

LEMMA OthersStay ==
    ASSUME FoundInv, NEW x, Only(x), NEW w \in Worktrees \ {x}
    PROVE  /\ entry'[w] = entry[w]
           /\ \A p \in Spots : /\ Holds(p, w)' <=> Holds(p, w)
                               /\ WholeAt(w, p)' <=> WholeAt(w, p)
                               /\ entry[w] = p /\ disk[p] = None => disk'[p] = None
<1>1. entry'[w] = entry[w]
  BY DEF Only
<1>2. ASSUME NEW p \in Spots
      PROVE  /\ Holds(p, w)' <=> Holds(p, w)
             /\ WholeAt(w, p)' <=> WholeAt(w, p)
             /\ entry[w] = p /\ disk[p] = None => disk'[p] = None
  <2>1. CASE disk'[p] = disk[p]
    BY <2>1 DEF Holds, WholeAt
  <2>2. CASE disk'[p] # disk[p]
    <3>1. ~Holds(p, w) /\ ~Holds(p, w)'
      BY <2>2 DEF Only, Holds
    <3>2. ~WholeAt(w, p)
      BY <3>1, HeldIsFolder
    <3>3. ~WholeAt(w, p)'
      BY <3>1, HeldIsFolder
    <3>. QED  BY <2>2, <3>1, <3>2, <3>3 DEF Only
  <2>. QED  BY <2>1, <2>2
<1>. QED  BY <1>1, <1>2

LEMMA SettledStays ==
    ASSUME FoundInv, NEW x, Only(x), NEW w \in Worktrees \ {x}, Settled(w)
    PROVE  Settled(w)'
  BY OthersStay DEF Settled

LEMMA SitsStays ==
    ASSUME FoundInv, NEW x, Only(x), NEW r \in Records, r.link \in Worktrees \ {x},
           Sits(r)
    PROVE  Sits(r)'
<1>0. r.from \in Spots /\ r.to \in Spots
  BY DEF Records, Spots
<1>1. Renamed(r) => Renamed(r)'
  BY <1>0, OthersStay DEF Renamed
<1>. QED  BY <1>0, <1>1, OthersStay DEF Sits

LEMMA FineStays ==
    ASSUME FoundInv, NEW x, Only(x), NEW f \in Fibers, f.rec \in Records,
           f.rec.link = None \/ f.rec.link # x, Fine(f)
    PROVE  Fine(f)'
<1>0. /\ f.rec.from \in Spots /\ f.rec.to \in Spots
      /\ f.rec.link \in Worktrees \cup {None}
  BY DEF Records, Spots
<1>1. CASE f.rec.link = None
  BY <1>1 DEF Fine, Holds
<1>2. CASE f.rec.link \in Worktrees \ {x}
  <2>1. Renamed(f.rec) => Renamed(f.rec)'
    BY <1>0, <1>2, OthersStay DEF Renamed
  <2>. QED  BY <1>0, <1>2, <2>1, OthersStay DEF Fine
<1>. QED  BY <1>0, <1>1, <1>2

\* A fiber that starts or puts down its work, or looks at a record.
Resting(f) ==
    /\ ~f.own /\ (f.move # None => f.move.from # f.move.to)
    /\ f.rec # None => f.at = "dead" /\ Same(moving[f.rec.from], f)

\* The folders change of what is no record's, if any do, and the records do not.
Beside(x) ==
    /\ Only(x) /\ UNCHANGED moving
    /\ \A q \in Places : moving[q] # None => moving[q].link # x
    /\ x \in Worktrees => Settled(x)'
    /\ \A u \in Tasks, f \in Fibers : task'[u] = f => task[u] = f \/ Resting(f)

LEMMA BesideKeeps ==
    ASSUME IInv, IInv', FoundInv, NEW x \in Worktrees \cup {Alien}, Beside(x)
    PROVE  FoundInv'
<1>. USE DEF Beside
<1>1. DiskInv'
  BY DEF Only
<1>2. /\ \A t \in Tasks : task[t] \in Fibers /\ task'[t] \in Fibers
      /\ \A t \in Tasks : task[t].rec \in Records \cup {None}
  BY DEF IInv, FiberInv, Fibers
<1>3. RowsInv'
  <2>1. ASSUME NEW t \in Tasks
        PROVE  (task[t].move # None => task[t].move.from # task[t].move.to)'
    BY <1>2 DEF Resting, FoundInv, RowsInv
  <2>. QED  BY <2>1 DEF FoundInv, RowsInv, Moves
<1>4. SameInv'
  <2> SUFFICES ASSUME NEW t \in Tasks, NEW f \in Fibers, task'[t] = f, f.rec # None
               PROVE  Same(moving[f.rec.from], f)
    BY DEF SameInv, Same, Like
  <2>. QED  BY DEF FoundInv, SameInv, Resting
<1>5. SettledInv'
  <2> SUFFICES ASSUME NEW w \in Worktrees, \A q \in Places : ~Moves(q, w)'
               PROVE  Settled(w)'
    BY DEF SettledInv
  <2>1. \A q \in Places : ~Moves(q, w)
    BY DEF Moves
  <2>2. CASE w = x
    BY <2>2
  <2>3. CASE w # x
    BY <2>1, <2>3, SettledStays DEF FoundInv, SettledInv
  <2>. QED  BY <2>2, <2>3
<1>6. SitsInv'
  <2> SUFFICES ASSUME NEW q \in Places, NEW r \in Records, moving'[q] = r
               PROVE  /\ r.link # None => Sits(r)'
                      /\ r.partial => r.link # None /\ Crosses(r)
    BY DEF SitsInv, Crosses
  <2>1. moving[q] = r /\ r # None
    BY NoneAssumption
  <2>2. /\ r.link # None => Sits(r)
        /\ r.partial => r.link # None /\ Crosses(r)
    BY <2>1 DEF FoundInv, SitsInv
  <2>3. r.link # None => r.link \in Worktrees \ {x}
    BY <2>1 DEF Records
  <2>. QED  BY <2>2, <2>3, SitsStays
<1>7. StepInv'
  <2> SUFFICES ASSUME NEW t \in Tasks, NEW f \in Fibers, task'[t] = f
               PROVE  /\ f.own => f.at \in Own
                      /\ f.rec # None /\ f.at # "dead" => Fine(f)'
    BY DEF StepInv
  <2>1. CASE Resting(f)
    BY <2>1 DEF Resting
  <2>2. CASE task[t] = f
    <3>1. (f.own => f.at \in Own) /\ (f.rec # None /\ f.at # "dead" => Fine(f))
      BY <2>2 DEF FoundInv, StepInv
    <3>2. ASSUME f.rec # None, f.at # "dead" PROVE Fine(f)'
      <4>1. f.at \in AtWork
        BY <2>2, <3>2 DEF IInv, FiberInv, Shaped, AtWork
      <4>2. /\ f.rec \in Records /\ f.rec.from \in Places
            /\ moving[f.rec.from] # None /\ Like(moving[f.rec.from], f.rec)
        BY <2>2, <4>1, AtHand
      <4>3. f.rec.link # x
        BY <4>2 DEF Like
      <4>. QED  BY <3>1, <3>2, <4>2, <4>3, FineStays
    <3>. QED  BY <3>1, <3>2
  <2>. QED  BY <2>1, <2>2
<1>. QED  BY <1>1, <1>3, <1>4, <1>5, <1>6, <1>7 DEF FoundInv

\* A fiber's step on a record, of the worktree it is of: it comes to work on it,
\* goes on, or ends.
On(t, q, x) ==
    /\ Only(x) /\ RowsInv'
    /\ \A p \in Places \ {q} : moving'[p] = moving[p] /\ (x # None => ~Moves(p, x))
    /\ moving[q] # None => moving[q].link = x
    /\ moving'[q] # None => moving'[q].link = x /\ moving'[q].owner = Self(t)
    /\ \A u \in Tasks \ {t} : /\ task'[u] = task[u]
                              /\ Working(u) => task[u].rec.from # q
    /\ \A f \in Fibers : task'[t] = f =>
          /\ f.own => f.at \in Own
          /\ f.rec # None => /\ f.at # "dead" /\ f.rec.from = q
                             /\ Like(moving'[q], f.rec) /\ Fine(f)'
    /\ moving'[q] = None /\ x # None => Settled(x)'
    /\ \A r \in Records : moving'[q] = r =>
          /\ x # None => Sits(r)'
          /\ r.partial => x # None /\ Crosses(r)

LEMMA OnKeeps ==
    ASSUME OneFiber, IInv, IInv', FoundInv, NEW t \in Tasks, NEW q \in Places,
           NEW x \in Worktrees \cup {None}, On(t, q, x), UNCHANGED born
    PROVE  FoundInv'
<1>. USE DEF On
<1>1. DiskInv' /\ RowsInv'
  BY DEF Only
<1>2. \A u \in Tasks : task[u] \in Fibers /\ task'[u] \in Fibers
  BY DEF IInv, FiberInv
<1>3. SameInv'
  <2> SUFFICES ASSUME NEW u \in Tasks, NEW f \in Fibers, task'[u] = f, f.rec # None
               PROVE  Same(moving'[f.rec.from], f)
    BY DEF SameInv, Same, Like
  <2>1. CASE u = t
    BY <2>1 DEF Same
  <2>2. CASE u # t
    <3>0. task[u] = f
      BY <2>2
    <3>1. Same(moving[f.rec.from], f) /\ f.rec.from \in Places
      BY <3>0, RecOf DEF FoundInv, SameInv
    <3>2. CASE f.rec.from # q
      BY <3>0, <3>1, <3>2
    <3>3. CASE f.rec.from = q
      <4>1. f.at = "dead"
        BY <2>2, <3>0, <3>3 DEF Working, At
      <4>2. f.rec.owner = Self(u) \/ f.rec.owner \notin Running
        BY <3>0, <4>1 DEF IInv, DeadInv, At
      <4>3. Self(t) # Self(u) /\ Self(t) \in Running
        BY <2>2, SelfOwns DEF OneFiber
      <4>. QED  BY <3>3, <4>1, <4>2, <4>3 DEF Same
    <3>. QED  BY <3>2, <3>3
  <2>. QED  BY <2>1, <2>2
<1>4. SettledInv'
  <2> SUFFICES ASSUME NEW w \in Worktrees, \A p \in Places : ~Moves(p, w)'
               PROVE  Settled(w)'
    BY DEF SettledInv
  <2>1. CASE w = x
    BY <2>1, PlaceAssumption DEF Moves
  <2>2. CASE w # x
    <3>1. \A p \in Places : ~Moves(p, w)
      BY <2>2 DEF Moves
    <3>. QED  BY <2>2, <3>1, SettledStays DEF FoundInv, SettledInv
  <2>. QED  BY <2>1, <2>2
<1>5. SitsInv'
  <2> SUFFICES ASSUME NEW p \in Places, NEW r \in Records, moving'[p] = r
               PROVE  /\ r.link # None => Sits(r)'
                      /\ r.partial => r.link # None /\ Crosses(r)
    BY DEF SitsInv, Crosses
  <2>0. r # None
    BY NoneAssumption
  <2>1. CASE p = q
    BY <2>0, <2>1
  <2>2. CASE p # q
    <3>1. moving[p] = r
      BY <2>2
    <3>2. /\ r.link # None => Sits(r)
          /\ r.partial => r.link # None /\ Crosses(r)
      BY <3>1 DEF FoundInv, SitsInv
    <3>3. r.link # None => r.link \in Worktrees \ {x}
      BY <2>0, <2>2, <3>1 DEF Records, Moves
    <3>. QED  BY <3>2, <3>3, SitsStays
  <2>. QED  BY <2>1, <2>2
<1>6. StepInv'
  <2> SUFFICES ASSUME NEW u \in Tasks, NEW f \in Fibers, task'[u] = f
               PROVE  /\ f.own => f.at \in Own
                      /\ f.rec # None /\ f.at # "dead" => Fine(f)'
    BY DEF StepInv
  <2>1. CASE u = t
    BY <2>1
  <2>2. CASE u # t
    <3>0. task[u] = f
      BY <2>2
    <3>1. /\ f.own => f.at \in Own
          /\ f.rec # None /\ f.at # "dead" => Fine(f)
      BY <3>0 DEF FoundInv, StepInv
    <3>2. ASSUME f.rec # None, f.at # "dead" PROVE Fine(f)'
      <4>1. f.at \in AtWork
        BY <3>0, <3>2 DEF IInv, FiberInv, Shaped, AtWork
      <4>2. /\ f.rec \in Records /\ f.rec.from \in Places /\ Working(u)
            /\ moving[f.rec.from] # None /\ Like(moving[f.rec.from], f.rec)
        BY <3>0, <4>1, AtHand
      <4>3. f.rec.from # q
        BY <2>2, <3>0, <4>2
      <4>4. f.rec.link = None \/ f.rec.link # x
        BY <4>2, <4>3 DEF Like, Moves
      <4>. QED  BY <3>1, <3>2, <4>2, <4>4, FineStays
    <3>. QED  BY <3>1, <3>2
  <2>. QED  BY <2>1, <2>2
<1>. QED  BY <1>1, <1>3, <1>4, <1>5, <1>6 DEF FoundInv

--------------------------------------------------------------------------------
(* The steps of a worker that leave its record as it is.                       *)

\* The row stays, of the same move, and the fiber goes on with it.
LEMMA MarkFinds ==
    ASSUME OneFiber, IInv, IInv', FoundInv, UNCHANGED born,
           NEW t \in Tasks, NEW f \in Fibers, task[t] = f, f.at \in AtWork,
           NEW g \in Fibers, task' = [task EXCEPT ![t] = g], g.at \in AtWork,
           g.rec.from = f.rec.from, g.own = f.own, g.move = f.move,
           g.own => g.at \in Own,
           NEW m \in Records, moving' = [moving EXCEPT ![f.rec.from] = m],
           m.from = f.rec.from, m.to = f.rec.to, m.link = f.rec.link,
           m.owner = Self(t), Like(m, g.rec),
           Only(f.rec.link), f.rec.link # None => Sits(m)', Fine(g)',
           m.partial => f.rec.link # None /\ Crosses(m)
    PROVE  FoundInv'
<1> DEFINE r == f.rec
           w == f.rec.link
<1>1. /\ r # None /\ r.from \in Places /\ w \in Worktrees \cup {None} /\ Working(t)
      /\ moving[r.from] # None /\ Like(moving[r.from], r)
  BY AtHand
<1>2. \A q \in Places : w # None /\ Moves(q, w) => q = r.from
  BY AtHand
<1>3. task'[t] = g /\ \A u \in Tasks \ {t} : task'[u] = task[u]
  BY DEF IInv, FiberInv
<1>4. /\ moving'[r.from] = m /\ m # None
      /\ \A q \in Places \ {r.from} : moving'[q] = moving[q]
  BY <1>1, NoneAssumption DEF IInv, RecordInv
<1>5. RowsInv'
  <2>1. \A q \in Places : /\ moving'[q] # None <=> moving[q] # None
                          /\ moving[q] # None => /\ moving'[q].to = moving[q].to
                                                 /\ moving'[q].link = moving[q].link
    BY <1>1, <1>4 DEF Like
  <2>. QED  BY <1>3, <2>1 DEF FoundInv, RowsInv, Moves
<1>6. \A u \in Tasks \ {t} : Working(u) => task[u].rec.from # r.from
  BY <1>1 DEF IInv, OneWorker
<1>7. g.at # "dead"
  BY DEF AtWork
<1>8. On(t, r.from, w)
  <2>1. \A h \in Fibers : task'[t] = h =>
            /\ h.own => h.at \in Own
            /\ h.rec # None => /\ h.at # "dead" /\ h.rec.from = r.from
                               /\ Like(moving'[r.from], h.rec) /\ Fine(h)'
    BY <1>3, <1>4, <1>7
  <2>2. \A n \in Records : moving'[r.from] = n =>
            /\ w # None => Sits(n)'
            /\ n.partial => w # None /\ Crosses(n)
    BY <1>4
  <2>3. moving[r.from].link = w
    BY <1>1 DEF Like
  <2>. QED  BY <1>1, <1>2, <1>3, <1>4, <1>5, <1>6, <2>1, <2>2, <2>3 DEF On
<1>. QED  BY <1>1, <1>8, OnKeeps

\* The row stays as it is.
LEMMA OnFinds ==
    ASSUME OneFiber, IInv, IInv', FoundInv, UNCHANGED <<moving, born>>,
           NEW t \in Tasks, NEW f \in Fibers, task[t] = f, f.at \in AtWork,
           NEW g \in Fibers, task' = [task EXCEPT ![t] = g], g.at \in AtWork,
           g.rec = f.rec, g.own = f.own, g.move = f.move, g.own => g.at \in Own,
           Only(f.rec.link), f.rec.link # None => Sits(f.rec)', Fine(g)'
    PROVE  FoundInv'
<1>1. PICK m \in Records : m = moving[f.rec.from]
  BY AtHand
<1>2. /\ f.rec.from \in Places /\ m.from = f.rec.from /\ m.owner = Self(t)
      /\ Like(m, f.rec) /\ (f.rec.partial => f.rec.link # None /\ Crosses(f.rec))
  BY <1>1, AtHand
<1>3. (f.rec.link # None => Sits(m)') /\ (Crosses(f.rec) <=> Crosses(m))
  BY <1>2, SitsLike
<1>4. moving' = [moving EXCEPT ![f.rec.from] = m]
  BY <1>1, <1>2 DEF IInv, RecordInv
<1>5. m.to = f.rec.to /\ m.link = f.rec.link /\ m.partial = f.rec.partial
  BY <1>2 DEF Like
<1>. QED  BY <1>2, <1>3, <1>4, <1>5, MarkFinds

LEMMA GoFinds ==
    ASSUME OneFiber, IInv, IInv', FoundInv, UNCHANGED <<moving, born>>,
           NEW t \in Tasks, NEW f \in Fibers, task[t] = f, f.at \in AtWork,
           NEW step \in AtWork, Go(t, step), f.own => step \in Own,
           Only(f.rec.link), f.rec.link # None => Sits(f.rec)',
           \A g \in Fibers : g.at = step /\ g.rec = f.rec /\ g.own = f.own => Fine(g)'
    PROVE  FoundInv'
<1> DEFINE g == [f EXCEPT !.at = step]
<1>1. /\ g \in Fibers /\ g.at = step /\ g.rec = f.rec /\ g.own = f.own
      /\ g.move = f.move
  <2>1. step \in Steps
    BY DEF AtWork, InHand
  <2>. QED  BY <2>1 DEF Fibers
<1>2. task' = [task EXCEPT ![t] = g]
  BY DEF Go, IInv, FiberInv
<1>. HIDE DEF g
<1>3. Fine(g)'
  BY <1>1
<1>. QED  BY <1>1, <1>2, <1>3, OnFinds

\* The folders and git's list stay, and so what is of the record.
LEMMA StillOnly ==
    ASSUME FoundInv, UNCHANGED disks, NEW x
    PROVE  /\ Only(x)
           /\ \A r \in Records : Sits(r) => Sits(r)'
           /\ \A w \in Worktrees : Settled(w) => Settled(w)'
<1>1. UNCHANGED <<disk, entry>>
  BY DEF disks
<1>. QED
  BY <1>1 DEF Only, FoundInv, DiskInv, Sits, Settled, Renamed, Holds, WholeAt

LEMMA StillFinds ==
    ASSUME OneFiber, IInv, IInv', FoundInv, UNCHANGED <<disks, moving, born>>,
           NEW t \in Tasks, NEW f \in Fibers, task[t] = f, f.at \in AtWork,
           NEW step \in AtWork, Go(t, step), f.own => step \in Own,
           \A g \in Fibers : g.at = step /\ g.rec = f.rec /\ g.own = f.own => Fine(g)
    PROVE  FoundInv'
<1>1. /\ f.rec.link # None => Sits(f.rec)
      /\ f.rec \in Records
  BY AtHand
<1>2. Only(f.rec.link) /\ (f.rec.link # None => Sits(f.rec)')
  BY <1>1, StillOnly
<1>3. \A g \in Fibers : Fine(g) => Fine(g)'
  BY DEF Fine, Renamed, Holds, WholeAt, disks
<1>. QED  BY <1>2, <1>3, GoFinds

--------------------------------------------------------------------------------
(* git's move.                                                                 *)

LEMMA RenamesFinds ==
    ASSUME OneFiber, IInv, IInv', FoundInv, NEW t \in Tasks, GitRenames(t)
    PROVE  FoundInv'
<1>1. PICK f \in Fibers : task[t] = f
  BY DEF IInv, FiberInv
<1> DEFINE r == f.rec
           w == f.rec.link
<1>2. /\ f.at = "claimed" /\ disk[r.to] = None /\ Holds(r.from, w)
      /\ entry[w] = r.from /\ ~Listed(r.to)
      /\ disk' = [disk EXCEPT ![r.from] = None, ![r.to] = disk[r.from]]
      /\ Go(t, "renamed") /\ UNCHANGED <<entry, moving, born>>
  BY <1>1 DEF GitRenames, GitCan, At, Carries
<1>3. f.at \in AtWork /\ "renamed" \in AtWork /\ "renamed" \in Own
  BY <1>2 DEF AtWork, InHand, Steps, Own
<1>4. /\ r.from \in Spots /\ r.to \in Spots /\ r.from # r.to /\ w \in Worktrees
      /\ r \in Records /\ Sits(r) /\ Fine(f)
  BY <1>1, <1>2, <1>3, AtHand DEF Spots, Holds
<1>5. ~r.partial /\ WholeAt(w, r.from) /\ w # None
  BY <1>2, <1>4 DEF Fine, Holds
<1>6. /\ disk'[r.from] = None /\ disk'[r.to] = disk[r.from]
      /\ \A p \in Spots \ {r.from, r.to} : disk'[p] = disk[p]
      /\ DiskInv'
  BY <1>2, <1>4 DEF FoundInv, DiskInv
<1>7. Only(w)
  BY <1>2, <1>4, <1>6 DEF Only, Listed, Holds
<1>8. Renamed(r)'
  BY <1>2, <1>4, <1>5, <1>6, PlaceAssumption DEF Renamed, WholeAt
<1>9. Sits(r)'
  <2>1. \A p \in Spots : Holds(p, w)' => p = r.to
    <3> SUFFICES ASSUME NEW p \in Spots, Holds(p, w)', p # r.to PROVE FALSE
      OBVIOUS
    <3>1. p # r.from /\ Holds(p, w)
      BY <1>6 DEF Holds
    <3>. QED  BY <1>2, <1>4, <1>5, <3>1 DEF Sits, Renamed, Holds
  <2>. QED  BY <1>2, <1>8, <2>1 DEF Sits
<1>10. \A g \in Fibers : g.at = "renamed" /\ g.rec = r => Fine(g)'
  BY <1>5, <1>8 DEF Fine, Carrying
<1>. QED  BY <1>1, <1>2, <1>3, <1>7, <1>9, <1>10, GoFinds

\* git lists it where its folder is.
LEMMA PointedFinds ==
    ASSUME FoundInv, NEW r \in Records, r.link # None, ~r.partial, Renamed(r), Sits(r),
           r.from # r.to, entry' = [entry EXCEPT ![r.link] = r.to], UNCHANGED disk
    PROVE  /\ Only(r.link) /\ Sits(r)' /\ entry'[r.link] = r.to
           /\ \A p \in Spots : Holds(p, r.link)' => p = r.to
<1> DEFINE w == r.link
<1>1. r.from \in Spots /\ r.to \in Spots /\ w \in Worktrees
  BY DEF Records, Spots
<1>2. /\ entry'[w] = r.to /\ \A v \in Worktrees \ {w} : entry'[v] = entry[v]
      /\ DiskInv'
  BY <1>1 DEF FoundInv, DiskInv
<1>3. Only(w)
  BY <1>2 DEF Only
<1>4. \A p \in Spots : Holds(p, w) => p = r.to
  BY <1>1 DEF Sits, Renamed, Holds
<1>5. WholeAt(w, r.to)'
  BY DEF Renamed, WholeAt
<1>6. \A p \in Spots : Holds(p, w)' => p = r.to
  BY <1>4 DEF Holds
<1>. QED  BY <1>2, <1>3, <1>5, <1>6 DEF Sits

LEMMA RecordsFinds ==
    ASSUME OneFiber, IInv, IInv', FoundInv, NEW t \in Tasks, GitRecords(t)
    PROVE  FoundInv'
<1>1. PICK f \in Fibers : task[t] = f
  BY DEF IInv, FiberInv
<1> DEFINE r == f.rec
           w == f.rec.link
<1>2. /\ f.at = "renamed" /\ entry' = [entry EXCEPT ![w] = r.to]
      /\ Go(t, "carry") /\ UNCHANGED <<disk, moving, born>>
  BY <1>1 DEF GitRecords, At
<1>3. f.at \in AtWork /\ "carry" \in AtWork /\ "carry" \in Own
  BY <1>2 DEF AtWork, InHand, Steps, Own
<1>4. /\ r.from # r.to /\ w \in Worktrees \cup {None}
      /\ r \in Records /\ (w # None => Sits(r)) /\ Fine(f)
  BY <1>1, <1>3, AtHand
<1>5. w # None /\ Renamed(r) /\ ~r.partial
  BY <1>2, <1>4 DEF Fine, Renamed
<1>6. Only(w) /\ Sits(r)'
  BY <1>2, <1>4, <1>5, PointedFinds
<1>7. \A g \in Fibers : g.at = "carry" /\ g.rec = r => Fine(g)'
  BY <1>5 DEF Fine
<1>. QED  BY <1>1, <1>2, <1>3, <1>6, <1>7, GoFinds

LEMMA NestsFinds ==
    ASSUME OneFiber, IInv, IInv', FoundInv, NEW t \in Tasks, GitNests(t)
    PROVE  FoundInv'
<1>1. PICK f \in Fibers : task[t] = f
  BY DEF IInv, FiberInv
<1> DEFINE r == f.rec
           w == f.rec.link
<1>2. /\ f.at = "claimed" /\ disk[Nested] = None /\ Holds(r.from, w)
      /\ entry[w] = r.from
      /\ disk' = [disk EXCEPT ![r.from] = None, ![Nested] = disk[r.from]]
      /\ entry' = [entry EXCEPT ![w] = Nested]
      /\ Go(t, "carry") /\ UNCHANGED <<moving, born>>
  BY <1>1 DEF GitNests, GitCan, At, Carries
<1>3. f.at \in AtWork /\ "carry" \in AtWork /\ "carry" \in Own
  BY <1>2 DEF AtWork, InHand, Steps, Own
<1>4. /\ r.from \in Places /\ r.to \in Places /\ r.from # r.to
      /\ w \in Worktrees /\ r \in Records /\ Sits(r) /\ Fine(f)
  BY <1>1, <1>2, <1>3, AtHand DEF Holds
<1>5. ~r.partial /\ WholeAt(w, r.from) /\ w # None
  BY <1>2, <1>4 DEF Fine, Holds
<1>6. r.from \in Spots /\ Nested \in Spots /\ r.from # Nested /\ Nested # None
  BY <1>4, PlaceAssumption DEF Spots
<1>7. /\ disk'[r.from] = None /\ disk'[Nested] = disk[r.from]
      /\ \A p \in Spots \ {r.from, Nested} : disk'[p] = disk[p]
      /\ entry'[w] = Nested /\ \A v \in Worktrees \ {w} : entry'[v] = entry[v]
      /\ DiskInv'
  BY <1>2, <1>4, <1>6 DEF FoundInv, DiskInv
<1>8. \A v \in Worktrees : entry[v] # Nested
  <2> SUFFICES ASSUME NEW v \in Worktrees, entry[v] = Nested PROVE FALSE
    OBVIOUS
  <2>1. WholeAt(v, Nested)
    BY <1>6, ListedIs, PlaceAssumption
  <2>. QED  BY <1>2, <1>6, <2>1, HeldIsFolder
<1>9. Only(w)
  BY <1>2, <1>7, <1>8 DEF Only, Holds
<1>10. Sits(r)'
  <2>1. WholeAt(w, Nested)'
    BY <1>5, <1>6, <1>7 DEF WholeAt
  <2>2. \A p \in Spots : Holds(p, w)' => p = Nested
    <3> SUFFICES ASSUME NEW p \in Spots, Holds(p, w)', p # Nested PROVE FALSE
      OBVIOUS
    <3>1. p # r.from /\ Holds(p, w)
      BY <1>7 DEF Holds
    <3>2. disk[r.from] # None
      BY <1>2 DEF Holds
    <3>. QED  BY <1>2, <1>4, <1>5, <3>1, <3>2 DEF Sits, Renamed
  <2>. QED  BY <1>5, <1>7, <2>1, <2>2 DEF Sits
<1>11. \A g \in Fibers : g.at = "carry" /\ g.rec = r => Fine(g)'
  BY <1>5 DEF Fine
<1>. QED  BY <1>1, <1>2, <1>3, <1>9, <1>10, <1>11, GoFinds

\* A worktree that is renamed is not where it was and one that is not is.
LEMMA FailsFinds ==
    ASSUME OneFiber, IInv, IInv', FoundInv, NEW t \in Tasks, GitFails(t)
    PROVE  FoundInv'
<1>1. PICK f \in Fibers : task[t] = f
  BY DEF IInv, FiberInv
<1> DEFINE r == f.rec
           w == f.rec.link
           step == IF MovedOnDisk(r) THEN "relink" ELSE "forget"
<1>2. /\ f.at \in {"claimed", "renamed"} /\ Go(t, step)
      /\ UNCHANGED <<disks, moving, born>>
  BY <1>1 DEF GitFails, At
<1>3. f.at \in AtWork /\ step \in AtWork /\ step \in Own
  BY <1>2 DEF AtWork, InHand, Steps, Own
<1>4. /\ r.from \in Spots /\ r.to \in Spots /\ r.from # r.to
      /\ w \in Worktrees \cup {None} /\ (w # None => Sits(r)) /\ Fine(f)
  BY <1>1, <1>3, AtHand DEF Spots
<1>5. ASSUME NEW g \in Fibers, g.at = step, g.rec = r PROVE Fine(g)
  <2>1. CASE MovedOnDisk(r)
    <3>1. w # None /\ disk[r.from] = None /\ step = "relink"
      BY <2>1 DEF MovedOnDisk, Holds
    <3>2. f.at = "renamed"
      BY <1>2, <1>4, <3>1, HeldIsFolder DEF Fine
    <3>3. Renamed(r)
      BY <1>4, <3>2 DEF Fine
    <3>. QED  BY <1>5, <3>1, <3>3 DEF Fine, Carrying
  <2>2. CASE ~MovedOnDisk(r)
    <3>1. step = "forget"
      BY <2>2
    <3>2. f.at = "claimed"
      BY <1>2, <1>4, <2>2, HeldIsFolder DEF Fine, Renamed, MovedOnDisk
    <3>3. w # None => ~r.partial /\ entry[w] = r.from /\ disk[r.from] # None
      BY <1>4, <3>2, HeldIsFolder DEF Fine
    <3>4. /\ Holds(r.from, w) => entry[w] = r.from
          /\ Holds(r.to, w) => entry[w] = r.to
      BY <1>4, <3>3 DEF Sits, Renamed, Holds
    <3>. QED  BY <1>5, <3>1, <3>4 DEF Fine, Carrying
  <2>. QED  BY <2>1, <2>2
<1>. HIDE DEF step
<1>. QED  BY <1>1, <1>2, <1>3, <1>5, StillFinds

\* A folder holds one worktree, so git is pointed at that one and no other.
LEMMA RepairsOne ==
    ASSUME FoundInv, NEW w \in Worktrees, NEW p \in Spots, Holds(p, w)
    PROVE  Repaired(p) = [entry EXCEPT ![w] = p]
  BY DEF Repaired, Holds, FoundInv, DiskInv

LEMMA RelinkFinds ==
    ASSUME OneFiber, IInv, IInv', FoundInv, NEW t \in Tasks, Relink(t)
    PROVE  FoundInv'
<1>1. PICK f \in Fibers : task[t] = f
  BY DEF IInv, FiberInv
<1> DEFINE r == f.rec
           w == f.rec.link
           step == IF f.at = "taken" THEN "judge" ELSE "carry"
<1>2. /\ f.at \in {"relink", "taken"} /\ (f.at = "taken" => Unlinked(r))
      /\ entry' = Repaired(r.to) /\ Go(t, step) /\ UNCHANGED <<disk, moving, born>>
  BY <1>1 DEF Relink, At
<1>3. f.at \in AtWork /\ step \in AtWork /\ (f.own => step \in Own)
  <2>1. f.at \in AtWork /\ step \in AtWork
    BY <1>2 DEF AtWork, InHand, Steps
  <2>. QED  BY <1>1, <1>2, <2>1, AtHand DEF Own
<1>4. /\ r.from \in Spots /\ r.to \in Spots /\ r.from # r.to
      /\ w \in Worktrees \cup {None} /\ (w # None => Sits(r)) /\ Fine(f)
      /\ r \in Records
  BY <1>1, <1>3, AtHand DEF Spots
<1>5. w # None /\ Renamed(r) /\ ~r.partial
  <2>1. CASE f.at = "relink"
    BY <1>4, <2>1 DEF Fine, Renamed
  <2>2. CASE f.at = "taken"
    <3>1. /\ w # None /\ disk[r.from] = None /\ Holds(r.to, w) /\ ~Listed(r.to)
      BY <1>2, <2>2 DEF Unlinked, MovedOnDisk, Holds
    <3>2. entry[w] # r.to
      BY <1>4, <3>1 DEF Listed
    <3>3. ~WholeAt(w, r.from)
      BY <1>4, <3>1, HeldIsFolder
    <3>4. Renamed(r)
      BY <1>4, <3>1, <3>2, <3>3 DEF Sits, Renamed
    <3>. QED  BY <3>1, <3>4 DEF Renamed
  <2>. QED  BY <1>2, <2>1, <2>2
<1>6. entry' = [entry EXCEPT ![w] = r.to]
  BY <1>2, <1>4, <1>5, RepairsOne, HeldIsFolder DEF Renamed
<1>7. /\ Only(w) /\ Sits(r)' /\ entry'[w] = r.to
      /\ \A p \in Spots : Holds(p, w)' => p = r.to
  BY <1>2, <1>4, <1>5, <1>6, PointedFinds
<1>8. \A g \in Fibers : g.at = step /\ g.rec = r => Fine(g)'
  BY <1>4, <1>5, <1>7 DEF Fine
<1>. HIDE DEF step
<1>. QED  BY <1>1, <1>2, <1>3, <1>7, <1>8, GoFinds

--------------------------------------------------------------------------------
(* The copy between volumes.                                                   *)

LEMMA CrossFinds ==
    ASSUME OneFiber, IInv, IInv', FoundInv, NEW t \in Tasks, Cross(t)
    PROVE  FoundInv'
<1>1. PICK f \in Fibers : task[t] = f
  BY DEF IInv, FiberInv
<1> DEFINE r == f.rec
           w == f.rec.link
           row == moving[r.from]
<1>2. /\ f.at = "claimed" /\ Holds(r.from, w) /\ entry[w] = r.from /\ Crosses(r)
      /\ UNCHANGED <<disks, disk, entry, born>>
  BY <1>1 DEF Cross, GitCan, At, disks
<1>3. f.at \in AtWork
  BY <1>2 DEF AtWork, InHand, Steps
<1>4. /\ r.from \in Spots /\ r.to \in Spots /\ r.from # r.to /\ r.from \in Places
      /\ w \in Worktrees /\ Sits(r) /\ Fine(f) /\ r \in Records
      /\ row \in Records /\ row # None /\ row.from = r.from /\ row.owner = Self(t)
      /\ row.to = r.to /\ row.link = w
  BY <1>1, <1>2, <1>3, AtHand DEF Spots, Holds, Like
<1>5. PICK m \in Records : m = [row EXCEPT !.partial = TRUE]
  BY <1>4 DEF Records
<1>6. /\ moving' = [moving EXCEPT ![r.from] = m]
      /\ m.from = r.from /\ m.to = r.to /\ m.link = w
      /\ m.owner = Self(t) /\ m.partial
  <2>1. moving' = [moving EXCEPT ![r.from] =
                      IF @ = None THEN None ELSE [@ EXCEPT !.partial = TRUE]]
    BY <1>1 DEF Cross
  <2>2. moving' = [moving EXCEPT ![r.from] = m]
    BY <1>4, <1>5, <2>1 DEF IInv, RecordInv
  <2>. QED  BY <1>4, <1>5, <2>2 DEF Records
<1>g. PICK g \in Fibers : task'[t] = g
  BY DEF IInv, FiberInv
<1>7. /\ g.rec = [r EXCEPT !.partial = TRUE] /\ g.at = "copying" /\ g.own = f.own
      /\ g.move = f.move /\ task' = [task EXCEPT ![t] = g]
  <2>1. /\ g = [f EXCEPT !.at = "copying", !.rec.partial = TRUE]
        /\ task' = [task EXCEPT ![t] = g]
    BY <1>1, <1>g DEF Cross, IInv, FiberInv
  <2>. QED  BY <2>1 DEF Fibers
<1>8. /\ g.rec \in Records /\ g.rec.from = r.from /\ g.rec.to = r.to
      /\ g.rec.link = w /\ g.rec.partial
  BY <1>4, <1>7 DEF Records
<1>10. Like(m, g.rec) /\ Crosses(m)
  BY <1>2, <1>6, <1>8 DEF Like, Crosses
<1>11. w # None /\ ~r.partial /\ WholeAt(w, r.from)
  BY <1>2, <1>4 DEF Fine, Holds
<1>12. Sits(m)'
  <2>1. ~Renamed(r)
    BY <1>4, <1>11, HeldIsFolder DEF Renamed
  <2>2. \A p \in Spots : /\ entry[w] = p => WholeAt(w, p)
                         /\ Holds(p, w) => entry[w] = p
    BY <1>4, <1>11, <2>1 DEF Sits
  <2>. QED  BY <1>2, <1>6, <2>2 DEF Sits, WholeAt, Holds
<1>13. Fine(g)'
  BY <1>2, <1>7, <1>8, <1>11 DEF Fine, Carrying
<1>14. Only(w)
  BY <1>2, StillOnly
<1>15. g.at \in AtWork /\ g.at \in Own
  BY <1>7 DEF AtWork, InHand, Steps, Own
<1>. QED
  BY <1>1, <1>2, <1>3, <1>5, <1>6, <1>7, <1>8, <1>10, <1>11, <1>12, <1>13, <1>14,
     <1>15, MarkFinds

LEMMA PutInFinds ==
    ASSUME OneFiber, IInv, IInv', FoundInv, NEW t \in Tasks, PutIn(t)
    PROVE  FoundInv'
<1>1. PICK f \in Fibers : task[t] = f
  BY DEF IInv, FiberInv
<1> DEFINE r == f.rec
           w == f.rec.link
<1>2. /\ f.at = "copying" /\ disk[r.to] = None /\ Holds(r.from, w)
      /\ disk' = [disk EXCEPT ![r.to] = [of |-> w, whole |-> TRUE]]
      /\ Go(t, "placed") /\ UNCHANGED <<entry, moving, born>>
  BY <1>1 DEF PutIn, At
<1>3. f.at \in AtWork /\ "placed" \in AtWork /\ "placed" \in Own
  BY <1>2 DEF AtWork, InHand, Steps, Own
<1>4. /\ r.from \in Places /\ r.to \in Places /\ r.from \in Spots /\ r.to \in Spots
      /\ r.from # r.to /\ w \in Worktrees /\ w # None /\ Sits(r) /\ Fine(f)
      /\ moving[r.from] # None /\ moving[r.from].to = r.to
  BY <1>1, <1>2, <1>3, AtHand DEF Spots, Holds, Like
<1>5. r.partial /\ entry[w] = r.from
  BY <1>2, <1>4 DEF Fine
<1>6. /\ disk'[r.to] = [of |-> w, whole |-> TRUE]
      /\ \A p \in Spots \ {r.to} : disk'[p] = disk[p]
      /\ DiskInv'
  BY <1>2, <1>4, AFolder DEF FoundInv, DiskInv
<1>7. \A v \in Worktrees : entry[v] # r.to
  <2> SUFFICES ASSUME NEW v \in Worktrees, entry[v] = r.to PROVE FALSE
    OBVIOUS
  <2>1. moving[r.to] = None
    BY <1>4 DEF FoundInv, RowsInv
  <2>2. WholeAt(v, r.to)
    BY <1>4, <2>1, ListedIs DEF Moves
  <2>. QED  BY <1>2, <1>4, <2>2, HeldIsFolder
<1>8. Only(w)
  BY <1>2, <1>6, <1>7 DEF Only
<1>9. /\ WholeAt(w, r.to)'
      /\ \A p \in Spots \ {r.to} : /\ WholeAt(w, p)' <=> WholeAt(w, p)
                                   /\ Holds(p, w)' <=> Holds(p, w)
  BY <1>4, <1>6, PlaceAssumption DEF WholeAt, Holds
<1>10. Sits(r)'
  BY <1>2, <1>4, <1>5, <1>9 DEF Sits, Renamed
<1>11. \A g \in Fibers : g.at = "placed" /\ g.rec = r => Fine(g)'
  BY <1>2, <1>4, <1>5, <1>9 DEF Fine, Carrying
<1>. QED  BY <1>1, <1>2, <1>3, <1>8, <1>10, <1>11, GoFinds

LEMMA RepairFinds ==
    ASSUME OneFiber, IInv, IInv', FoundInv, NEW t \in Tasks, Repair(t)
    PROVE  FoundInv'
<1>1. PICK f \in Fibers : task[t] = f
  BY DEF IInv, FiberInv
<1> DEFINE r == f.rec
           w == f.rec.link
<1>2. /\ f.at = "placed" /\ entry' = Repaired(r.to)
      /\ Go(t, "carry") /\ UNCHANGED <<disk, moving, born>>
  BY <1>1 DEF Repair, At
<1>3. f.at \in AtWork /\ "carry" \in AtWork /\ "carry" \in Own
  BY <1>2 DEF AtWork, InHand, Steps, Own
<1>4. /\ r.from \in Spots /\ r.to \in Spots /\ r.from # r.to
      /\ w \in Worktrees \cup {None} /\ (w # None => Sits(r)) /\ Fine(f)
  BY <1>1, <1>3, AtHand DEF Spots
<1>5. /\ w \in Worktrees /\ w # None /\ Sits(r)
      /\ r.partial /\ entry[w] = r.from /\ WholeAt(w, r.to)
  BY <1>2, <1>4 DEF Fine
<1>6. Holds(r.from, w)
  BY <1>4, <1>5, HeldIsFolder DEF Sits, Renamed
<1>7. entry' = [entry EXCEPT ![w] = r.to]
  BY <1>2, <1>4, <1>5, RepairsOne, HeldIsFolder
<1>8. /\ entry'[w] = r.to /\ \A v \in Worktrees \ {w} : entry'[v] = entry[v]
      /\ DiskInv'
  BY <1>2, <1>4, <1>5, <1>7 DEF FoundInv, DiskInv
<1>9. Only(w)
  BY <1>2, <1>8 DEF Only
<1>10. \A p \in Spots : /\ WholeAt(w, p)' <=> WholeAt(w, p)
                        /\ Holds(p, w)' <=> Holds(p, w)
  BY <1>2 DEF WholeAt, Holds
<1>11. Sits(r)'
  BY <1>4, <1>5, <1>8, <1>10 DEF Sits, Renamed
<1>12. \A g \in Fibers : g.at = "carry" /\ g.rec = r => Fine(g)'
  BY <1>4, <1>5, <1>6, <1>8, <1>10 DEF Fine, Carrying
<1>. QED  BY <1>1, <1>2, <1>3, <1>9, <1>11, <1>12, GoFinds

\* Nothing fails between volumes, so no copy is taken back.
LEMMA NoUndo ==
    ASSUME Sound, IInv, FoundInv, NEW t \in Tasks
    PROVE  ~CopyFails(t) /\ ~RepairFails(t) /\ ~Undo(t)
<1>1. PICK f \in Fibers : task[t] = f
  BY DEF IInv, FiberInv
<1> SUFFICES ASSUME \/ f.at \in {"copying", "placed"} /\ used.faults < MaxFaults
                    \/ f.at \in {"undo", "undoplaced"}
             PROVE  FALSE
  BY <1>1 DEF CopyFails, RepairFails, Undo, At
<1>2. f.at \in AtWork
  BY DEF AtWork, InHand, Steps
<1>3. /\ f.rec \in Records /\ Fine(f)
      /\ f.rec.partial => Crosses(f.rec)
  BY <1>1, <1>2, AtHand
<1>4. f.rec.partial /\ used.faults < MaxFaults
  BY <1>3 DEF Fine
<1>5. MaxFaults # 0 /\ Far # {}
  BY <1>3, <1>4, BoundAssumption DEF Crosses, IInv, BornInv, Usage
<1>. QED  BY <1>5 DEF Sound

--------------------------------------------------------------------------------
(* The carry, the original's delete and the end of the record.                 *)

LEMMA RestFinds ==
    ASSUME IInv, IInv', FoundInv, UNCHANGED <<disks, moving>>, NEW t \in Tasks,
           \A u \in Tasks \ {t} : task'[u] = task[u],
           \A f \in Fibers : task'[t] = f => Resting(f)
    PROVE  FoundInv'
<1>1. Only(Alien) /\ Alien \in Worktrees \cup {Alien} /\ Alien \notin Worktrees
  BY StillOnly, PlaceAssumption
<1>2. \A q \in Places : moving[q] # None => moving[q].link # Alien
  BY <1>1, KnownRow, PlaceAssumption
<1>3. Beside(Alien)
  BY <1>1, <1>2 DEF Beside
<1>. QED  BY <1>1, <1>3, BesideKeeps

LEMMA PutDownRests ==
    ASSUME IInv, FoundInv, NEW t \in Tasks, PutDown(t)
    PROVE  /\ \A u \in Tasks \ {t} : task'[u] = task[u]
           /\ \A f \in Fibers : task'[t] = f => Resting(f) /\ f.rec = None
<1>1. PICK f \in Fibers : task[t] = f
  BY DEF IInv, FiberInv
<1>2. /\ \A u \in Tasks \ {t} : task'[u] = task[u]
      /\ task'[t] = IF f.own THEN Idle
                    ELSE [f EXCEPT !.at = "next", !.rec = None, !.captured = TRUE]
  BY <1>1 DEF PutDown, IInv, FiberInv
<1>3. f.move # None => f.move.from # f.move.to
  BY <1>1 DEF FoundInv, RowsInv
<1>4. CASE f.own
  BY <1>2, <1>4 DEF Resting, Idle
<1>5. CASE ~f.own
  <2>1. ASSUME NEW g \in Fibers, task'[t] = g
        PROVE  g.rec = None /\ g.own = f.own /\ g.move = f.move
    BY <1>2, <1>5, <2>1 DEF Fibers
  <2>. QED  BY <1>2, <1>3, <1>5, <2>1 DEF Resting
<1>. QED  BY <1>2, <1>4, <1>5

LEMMA PutDownsFind ==
    ASSUME IInv, IInv', FoundInv, NEW t \in Tasks,
           RelinkFails(t) \/ PutInDies(t) \/ CarryFails(t)
    PROVE  FoundInv'
<1>1. PutDown(t) /\ UNCHANGED <<disks, moving>>
  BY DEF RelinkFails, PutInDies, CarryFails
<1>. QED  BY <1>1, PutDownRests, RestFinds

\* What is at the destination is listed there, if git lists anything there.
LEMMA CarryFinds ==
    ASSUME OneFiber, IInv, IInv', FoundInv, NEW t \in Tasks, Carry(t)
    PROVE  FoundInv'
<1>1. PICK f \in Fibers : task[t] = f
  BY DEF IInv, FiberInv
<1> DEFINE r == f.rec
           w == f.rec.link
           row == moving[r.from]
<1>2. /\ f.at = "carry" /\ Listed(r.to) /\ Go(t, "ref")
      /\ UNCHANGED <<disks, disk, entry, born>>
  BY <1>1 DEF Carry, At, disks
<1>3. f.at \in AtWork /\ "ref" \in AtWork /\ "ref" \in Own
  BY <1>2 DEF AtWork, InHand, Steps, Own
<1>4. /\ r.to \in Spots /\ r.from \in Places /\ r \in Records
      /\ w \in Worktrees \cup {None} /\ (w # None => Sits(r)) /\ Fine(f)
      /\ row \in Records /\ row # None /\ row.from = r.from /\ row.owner = Self(t)
      /\ row.to = r.to /\ row.link = w /\ row.partial = r.partial
      /\ r.partial => w # None /\ Crosses(r)
  BY <1>1, <1>3, AtHand DEF Spots, Like
<1>5. Holds(r.to, w) => entry[w] = r.to
  <2>1. Holds(r.to, w) => w \in Worktrees
    BY <1>4 DEF Holds
  <2>. QED  BY <1>2, <1>4, <2>1, ListedHolds
<1>6. \A g \in Fibers : g.at = "ref" /\ g.rec = r /\ g.own = f.own => Fine(g)
  BY <1>2, <1>4, <1>5 DEF Fine, Carrying
<1>7. CASE UNCHANGED moving
  BY <1>1, <1>2, <1>3, <1>6, <1>7, StillFinds
<1>8. CASE moving' = [moving EXCEPT ![r.from] =
                          IF @ = None THEN None ELSE [@ EXCEPT !.carried = TRUE]]
  <2>1. PICK m \in Records : m = [row EXCEPT !.carried = TRUE]
    BY <1>4 DEF Records
  <2>2. moving' = [moving EXCEPT ![r.from] = m]
    BY <1>4, <1>8, <2>1 DEF IInv, RecordInv
  <2>3. /\ m.from = r.from /\ m.to = r.to /\ m.link = w /\ m.owner = Self(t)
        /\ m.partial = r.partial
    BY <1>4, <2>1 DEF Records
  <2>4. PICK g \in Fibers : g = [f EXCEPT !.at = "ref"]
    BY <1>1, <1>2 DEF Go, IInv, FiberInv
  <2>5. g.at = "ref" /\ g.rec = r /\ g.own = f.own /\ g.move = f.move
    BY <2>4 DEF Fibers
  <2>6. task' = [task EXCEPT ![t] = g]
    BY <1>1, <1>2, <2>4 DEF Go, IInv, FiberInv
  <2>7. Like(m, r) /\ Crosses(m) = Crosses(r) /\ (Sits(m)' <=> Sits(r)')
    BY <2>3, SitsLike DEF Like, Crosses
  <2>8. Only(w) /\ (w # None => Sits(r)')
    BY <1>2, <1>4, StillOnly
  <2>9. Fine(g)'
    <3>1. Fine(g)
      BY <1>6, <2>5
    <3>. QED  BY <1>2, <3>1 DEF Fine, Renamed, Holds, WholeAt
  <2>. QED
    BY <1>1, <1>2, <1>3, <1>4, <2>2, <2>3, <2>5, <2>6, <2>7, <2>8, <2>9, MarkFinds
<1>9. UNCHANGED moving \/ moving' = [moving EXCEPT ![r.from] =
                          IF @ = None THEN None ELSE [@ EXCEPT !.carried = TRUE]]
  BY <1>1, Zenon DEF Carry
<1>. QED  BY <1>7, <1>8, <1>9

\* After the ref there is an original left to delete, or no second copy.
LEMMA AfterRefFinds ==
    ASSUME OneFiber, IInv, IInv', FoundInv, UNCHANGED <<disks, moving, born>>,
           NEW t \in Tasks, NEW captured \in BOOLEAN, AfterRef(t, captured),
           task[t].at \in {"ref", "refdrop"}
    PROVE  FoundInv'
<1>1. PICK f \in Fibers : task[t] = f
  BY DEF IInv, FiberInv
<1> DEFINE r == f.rec
           w == f.rec.link
<1>2. f.at \in {"ref", "refdrop"} /\ f.at \in AtWork /\ f.at \in Carrying
  BY <1>1 DEF AtWork, InHand, Steps, Carrying
<1>3. /\ r.from \in Spots /\ r.to \in Spots /\ r.from # r.to
      /\ w \in Worktrees \cup {None} /\ (w # None => Sits(r)) /\ Fine(f)
      /\ r \in Records
  BY <1>1, <1>2, AtHand DEF Spots
<1>4. PICK step \in {"wipefrom", "forget"} :
         /\ step = IF r.partial /\ (f.own \/ Holds(r.from, w))
                   THEN "wipefrom" ELSE "forget"
         /\ task' = [task EXCEPT ![t].captured = captured, ![t].at = step]
  BY <1>1 DEF AfterRef
<1>5. step \in AtWork /\ step \in Own
  BY DEF AtWork, InHand, Steps, Own
<1>6. PICK g : g = [f EXCEPT !.captured = captured, !.at = step]
  OBVIOUS
<1>7. /\ g \in Fibers /\ g.at = step /\ g.rec = r /\ g.own = f.own
      /\ g.move = f.move
  <2>1. step \in Steps
    BY <1>5 DEF AtWork, InHand
  <2>. QED  BY <1>6, <2>1 DEF Fibers
<1>8. task' = [task EXCEPT ![t] = g]
  BY <1>1, <1>4, <1>6 DEF IInv, FiberInv
<1>9. Fine(g)
  <2>1. r.partial => w # None /\ entry[w] = r.to /\ (f.own => Holds(r.from, w))
    BY <1>2, <1>3 DEF Fine
  <2>2. Holds(r.to, w) => entry[w] = r.to
    BY <1>2, <1>3 DEF Fine
  <2>3. CASE step = "wipefrom"
    BY <1>4, <1>7, <2>1, <2>3 DEF Fine
  <2>4. CASE step = "forget"
    <3>1. ~r.partial \/ ~Holds(r.from, w)
      BY <1>4, <2>1, <2>4
    <3>2. Holds(r.from, w) => entry[w] = r.from
      BY <1>3, <3>1 DEF Sits, Holds
    <3>. QED  BY <1>7, <2>2, <2>4, <3>2 DEF Fine, Carrying
  <2>. QED  BY <2>3, <2>4
<1>10. Fine(g)'
  BY <1>9 DEF Fine, Renamed, Holds, WholeAt, disks
<1>11. Only(w) /\ (w # None => Sits(r)')
  BY <1>3, StillOnly
<1>. QED  BY <1>1, <1>2, <1>5, <1>7, <1>8, <1>10, <1>11, OnFinds

LEMMA RefFinds ==
    ASSUME OneFiber, IInv, IInv', FoundInv, NEW t \in Tasks,
           RefFollows(t) \/ RefDrops(t) \/ RefFails(t)
    PROVE  FoundInv'
<1> USE DEF RefFollows, RefDrops, RefFails
<1>1. task[t].at \in {"ref", "refdrop"} /\ UNCHANGED <<disks, moving, born>>
  BY DEF At, disks, kept
<1>2. ASSUME NEW captured \in BOOLEAN, AfterRef(t, captured) PROVE FoundInv'
  BY <1>1, <1>2, AfterRefFinds
<1>3. CASE RefFails(t)
  BY <1>2, <1>3 DEF RefFails
<1>4. CASE RefDrops(t)
  <2>1. (ref[task[t].rec.from] \in {None, ref[task[t].rec.to]}) \in BOOLEAN
    OBVIOUS
  <2>. QED  BY <1>2, <1>4, <2>1, Zenon DEF RefDrops
<1>5. CASE RefFollows(t)
  <2>1. CASE \E captured \in {TRUE, FALSE} : AfterRef(t, captured)
    BY <1>2, <2>1
  <2>2. CASE Go(t, "refdrop")
    <3>1. PICK f \in Fibers : task[t] = f
      BY DEF IInv, FiberInv
    <3>2. f.at = "ref" /\ f.at \in AtWork /\ "refdrop" \in AtWork /\ "refdrop" \in Own
      BY <1>5, <3>1 DEF RefFollows, At, AtWork, InHand, Steps, Own
    <3>3. Fine(f)
      BY <3>1, <3>2, AtHand
    <3>4. \A g \in Fibers : g.at = "refdrop" /\ g.rec = f.rec /\ g.own = f.own
                            => Fine(g)
      BY <3>2, <3>3 DEF Fine, Carrying
    <3>. QED  BY <1>1, <2>2, <3>1, <3>2, <3>4, StillFinds
  <2>. QED  BY <1>5, <2>1, <2>2 DEF RefFollows
<1>. QED  BY <1>3, <1>4, <1>5

\* A delete is of one of two copies, and git lists the other.
LEMMA WipesCopy ==
    ASSUME IInv, FoundInv, NEW t \in Tasks, NEW f \in Fibers, task[t] = f,
           f.at \in {"wipefrom", "wipeto"},
           NEW dir, dir = IF f.at = "wipefrom" THEN f.rec.from ELSE f.rec.to,
           NEW other, other = IF f.at = "wipefrom" THEN f.rec.to ELSE f.rec.from
    PROVE  /\ dir \in Spots /\ other \in Spots /\ dir # other
           /\ f.rec.link \in Worktrees /\ f.rec.partial /\ Crosses(f.rec)
           /\ Holds(dir, f.rec.link) /\ entry[f.rec.link] = other
           /\ WholeAt(f.rec.link, other)
<1> DEFINE r == f.rec
           w == f.rec.link
<1>1. f.at \in AtWork
  BY DEF AtWork, InHand, Steps
<1>2. /\ r.from \in Spots /\ r.to \in Spots /\ r.from # r.to
      /\ w \in Worktrees \cup {None} /\ (w # None => Sits(r)) /\ Fine(f)
      /\ r.partial => Crosses(r)
  BY <1>1, AtHand DEF Spots
<1>3. Holds(dir, w) /\ w \in Worktrees /\ r.partial /\ entry[w] = other
  BY <1>2 DEF Fine, Carrying, Holds
<1>. QED  BY <1>2, <1>3 DEF Sits, Renamed, Holds

LEMMA WipeFinds ==
    ASSUME Sound, IInv, IInv', FoundInv, NEW t \in Tasks, Wipe(t)
    PROVE  FoundInv'
<1>1. PICK f \in Fibers : task[t] = f
  BY DEF IInv, FiberInv
<1>2. f.at \in {"wipefrom", "wipeto"} /\ f.at \in AtWork
  BY <1>1 DEF Wipe, At, AtWork, InHand, Steps
<1>3. PICK dir : dir = IF f.at = "wipefrom" THEN f.rec.from ELSE f.rec.to
  OBVIOUS
<1>4. PICK other : other = IF f.at = "wipefrom" THEN f.rec.to ELSE f.rec.from
  OBVIOUS
<1> DEFINE r == f.rec
           w == f.rec.link
<1>5. /\ dir \in Spots /\ other \in Spots /\ dir # other
      /\ w \in Worktrees /\ w # None /\ r.partial /\ Crosses(r)
      /\ Holds(dir, w) /\ entry[w] = other /\ WholeAt(w, other)
  BY <1>1, <1>2, <1>3, <1>4, WipesCopy, PlaceAssumption
<1>6. /\ {dir, other} = {r.from, r.to}
      /\ f.at = "wipefrom" => dir = r.from /\ other = r.to
      /\ f.at = "wipeto" => dir = r.to /\ other = r.from
  BY <1>2, <1>3, <1>4
<1>7. Sits(r) /\ Fine(f) /\ (f.own => f.at \in Own) /\ disk[dir] \in Folders
      /\ disk[dir].of = w /\ disk[dir] # None
  BY <1>1, <1>2, <1>5, AtHand DEF FoundInv, DiskInv, Holds
<1>8. /\ UNCHANGED <<entry, moving, born>> /\ OneFiber
      /\ \/ /\ disk' = [disk EXCEPT ![dir].whole = FALSE] /\ UNCHANGED task
         \/ /\ disk' = [disk EXCEPT ![dir] = None] /\ Go(t, "forget")
         \/ used.faults < MaxFaults
  BY <1>1, <1>2, <1>3 DEF Wipe, At, Sound
<1>9. ~(used.faults < MaxFaults)
  <2>1. Far # {}
    BY <1>5 DEF Crosses
  <2>. QED  BY <2>1, BoundAssumption DEF Sound, IInv, BornInv, Usage
<1>10. ASSUME \A p \in Spots \ {dir} : disk'[p] = disk[p], DiskInv',
              disk'[dir] # None => disk'[dir].of = w
       PROVE  Only(w) /\ Sits(r)' /\ entry'[w] = other /\ ~Renamed(r)'
  <2>1. Only(w)
    BY <1>7, <1>8, <1>10 DEF Only
  <2>2. /\ WholeAt(w, other)' /\ entry'[w] = other
        /\ \A p \in Spots : Holds(p, w)' => Holds(p, w)
    BY <1>5, <1>7, <1>8, <1>10 DEF WholeAt, Holds
  <2>3. Sits(r)'
    BY <1>5, <1>6, <1>7, <1>8, <2>2 DEF Sits, Renamed
  <2>. QED  BY <1>5, <2>1, <2>2, <2>3 DEF Renamed
<1>11. CASE disk' = [disk EXCEPT ![dir].whole = FALSE] /\ UNCHANGED task
  <2>1. PICK d \in Folders : d = [disk[dir] EXCEPT !.whole = FALSE]
    BY <1>7 DEF Folders
  <2>2. d.of = w /\ d # None
    BY <1>7, <2>1, NoneAssumption DEF Folders
  <2>3. /\ disk'[dir] = d /\ DiskInv'
        /\ \A p \in Spots \ {dir} : disk'[p] = disk[p]
    BY <1>5, <1>8, <1>11, <2>1 DEF FoundInv, DiskInv
  <2>4. Only(w) /\ Sits(r)' /\ entry'[w] = other /\ Holds(dir, w)'
    BY <1>5, <1>10, <2>2, <2>3 DEF Holds
  <2>5. Fine(f)'
    BY <1>2, <1>5, <1>6, <1>7, <1>8, <2>4 DEF Fine, Carrying
  <2>6. task' = [task EXCEPT ![t] = f]
    BY <1>1, <1>11 DEF IInv, FiberInv
  <2>. QED  BY <1>1, <1>2, <1>7, <1>8, <2>4, <2>5, <2>6, OnFinds
<1>12. CASE disk' = [disk EXCEPT ![dir] = None] /\ Go(t, "forget")
  <2>1. /\ disk'[dir] = None /\ DiskInv'
        /\ \A p \in Spots \ {dir} : disk'[p] = disk[p]
    BY <1>5, <1>8, <1>12 DEF FoundInv, DiskInv
  <2>2. Only(w) /\ Sits(r)' /\ entry'[w] = other /\ ~Holds(dir, w)'
    BY <1>5, <1>10, <2>1 DEF Holds
  <2>3. \A g \in Fibers : g.at = "forget" /\ g.rec = r => Fine(g)'
    BY <1>6, <2>2 DEF Fine, Carrying
  <2>4. "forget" \in AtWork /\ "forget" \in Own
    BY DEF AtWork, InHand, Steps, Own
  <2>. QED  BY <1>1, <1>2, <1>8, <1>12, <2>2, <2>3, <2>4, GoFinds
<1>. QED  BY <1>8, <1>9, <1>11, <1>12

\* Whose record ends is where git lists it, and nowhere else.
LEMMA ForgetFinds ==
    ASSUME OneFiber, IInv, IInv', FoundInv, NEW t \in Tasks, Forget(t)
    PROVE  FoundInv'
<1>1. PICK f \in Fibers : task[t] = f
  BY DEF IInv, FiberInv
<1> DEFINE r == f.rec
           w == f.rec.link
<1>2. /\ f.at = "forget" /\ f.at \in AtWork /\ PutDown(t)
      /\ UNCHANGED <<disks, disk, entry, born>>
      /\ UNCHANGED moving \/ moving' = [moving EXCEPT ![r.from] = None]
  BY <1>1 DEF Forget, At, AtWork, InHand, Steps, disks
<1>3. CASE UNCHANGED moving
  BY <1>2, <1>3, PutDownRests, RestFinds
<1>4. CASE moving' = [moving EXCEPT ![r.from] = None]
  <2>1. /\ r.from \in Places /\ r.from \in Spots /\ r.to \in Spots /\ Working(t)
        /\ w \in Worktrees \cup {None} /\ (w # None => Sits(r)) /\ Fine(f)
        /\ moving[r.from].link = w
        /\ \A q \in Places : w # None /\ Moves(q, w) => q = r.from
    BY <1>1, <1>2, AtHand DEF Spots, Like
  <2>2. /\ moving'[r.from] = None
        /\ \A q \in Places \ {r.from} : moving'[q] = moving[q]
    BY <1>4, <2>1 DEF IInv, RecordInv
  <2>3. /\ \A u \in Tasks \ {t} : task'[u] = task[u]
        /\ \A g \in Fibers : task'[t] = g => Resting(g) /\ g.rec = None
    BY <1>2, PutDownRests
  <2>4. RowsInv'
    <3>1. task'[t] \in Fibers
      BY DEF IInv, FiberInv
    <3>2. \A u \in Tasks : task'[u].move # None
                           => task'[u].move.from # task'[u].move.to
      BY <2>3, <3>1 DEF Resting, FoundInv, RowsInv
    <3>. QED  BY <2>1, <2>2, <3>2 DEF FoundInv, RowsInv, Moves
  <2>5. w # None => Settled(w)
    <3>1. /\ Holds(r.from, w) => entry[w] = r.from
          /\ Holds(r.to, w) => entry[w] = r.to
      BY <1>2, <2>1 DEF Fine
    <3>2. w # None => ~Renamed(r)
      BY <2>1, <3>1, HeldIsFolder DEF Renamed
    <3>. QED  BY <2>1, <3>1, <3>2 DEF Sits, Settled
  <2>6. Only(w) /\ (w # None => Settled(w)')
    BY <1>2, <2>1, <2>5, StillOnly
  <2>7. \A u \in Tasks \ {t} : Working(u) => task[u].rec.from # r.from
    BY <1>1, <2>1 DEF IInv, OneWorker
  <2>8. On(t, r.from, w)
    BY <2>1, <2>2, <2>3, <2>4, <2>6, <2>7, NoneAssumption DEF On, Resting
  <2>. QED  BY <1>2, <2>1, <2>8, OnKeeps
<1>. QED  BY <1>2, <1>3, <1>4

--------------------------------------------------------------------------------
(* The resume of a move, and its start.                                        *)

LEMMA JudgeFinds ==
    ASSUME OneFiber, IInv, IInv', FoundInv, NEW t \in Tasks, Judge(t)
    PROVE  FoundInv'
<1>1. PICK f \in Fibers : task[t] = f
  BY DEF IInv, FiberInv
<1> DEFINE r == f.rec
           w == f.rec.link
           step == CASE Landed(r) -> "carry"
                     [] AtSource(r) /\ r.partial /\ ~Listed(r.to)
                        /\ Holds(r.to, r.link) -> "wipeto"
                     [] OTHER -> "forget"
<1>2. /\ f.at = "judge" \/ (f.at = "taken" /\ ~Unlinked(r))
      /\ Go(t, step) /\ UNCHANGED <<disks, moving, born>>
  BY <1>1 DEF Judge, At
<1>3. f.at \in AtWork /\ step \in AtWork /\ f.at \notin Own
  BY <1>2 DEF AtWork, InHand, Steps, Own
<1>4. /\ r.from \in Spots /\ r.to \in Spots /\ r.from # r.to
      /\ w \in Worktrees \cup {None} /\ (w # None => Sits(r)) /\ Fine(f)
      /\ r.partial => w # None
      /\ ~f.own
  BY <1>1, <1>3, AtHand DEF Spots
<1>5. /\ f.at = "judge" => w # None /\ entry[w] = r.to /\ ~Holds(r.from, w)
      /\ f.at = "taken" => ~Unlinked(r)
  BY <1>2, <1>4 DEF Fine
<1>6. ASSUME NEW p \in {r.from, r.to}, w # None
      PROVE  Holds(p, w) /\ Listed(p) <=> Holds(p, w) /\ entry[w] = p
  <2>1. Holds(p, w) /\ Listed(p) => entry[w] = p
    BY <1>4, <1>6, ListedHolds
  <2>. QED  BY <1>4, <1>6, <2>1 DEF Listed
<1>7. w # None => /\ AtSource(r) <=> Holds(r.from, w) /\ entry[w] = r.from
                  /\ Landed(r) <=> ~AtSource(r) /\ Holds(r.to, w) /\ entry[w] = r.to
  BY <1>6 DEF AtSource, Landed, Mine
<1>8. w # None /\ r.partial => \/ entry[w] = r.from /\ Holds(r.from, w)
                               \/ entry[w] = r.to /\ Holds(r.to, w)
  BY <1>4, HeldIsFolder DEF Sits, Renamed
<1>9. ASSUME NEW g \in Fibers, g.at = step, g.rec = r, g.own = f.own
      PROVE  Fine(g)
  <2>1. CASE Landed(r)
    <3>1. step = "carry" /\ (w # None => entry[w] = r.to)
      BY <1>7, <2>1 DEF Landed
    <3>. QED  BY <1>4, <1>9, <3>1 DEF Fine
  <2>2. CASE ~Landed(r) /\ AtSource(r) /\ r.partial /\ ~Listed(r.to)
             /\ Holds(r.to, r.link)
    <3>1. step = "wipeto" /\ entry[w] = r.from
      BY <1>4, <1>7, <2>2
    <3>. QED  BY <1>9, <2>2, <3>1 DEF Fine, Carrying
  <2>3. CASE ~Landed(r) /\ ~(AtSource(r) /\ r.partial /\ ~Listed(r.to)
                             /\ Holds(r.to, r.link))
    <3>1. step = "forget"
      BY <2>3
    <3>2. ASSUME w # None, Holds(r.from, w), entry[w] # r.from PROVE FALSE
      <4>1. r.partial
        BY <1>4, <3>2 DEF Sits
      <4>. QED  BY <1>7, <1>8, <2>3, <3>2, <4>1
    <3>3. ASSUME w # None, Holds(r.to, w), entry[w] # r.to PROVE FALSE
      <4>1. ~Listed(r.to)
        BY <1>6, <3>3
      <4>2. CASE r.partial
        BY <1>7, <1>8, <2>3, <3>3, <4>1, <4>2
      <4>3. CASE ~r.partial
        <5>1. Renamed(r)
          BY <1>4, <3>3, <4>3 DEF Sits
        <5>2. Unlinked(r)
          BY <3>3, <4>1, <5>1 DEF Unlinked, MovedOnDisk, Renamed
        <5>. QED  BY <1>2, <1>5, <3>3, <5>2
      <4>. QED  BY <4>2, <4>3
    <3>4. /\ Holds(r.from, w) => entry[w] = r.from
          /\ Holds(r.to, w) => entry[w] = r.to
      BY <3>2, <3>3 DEF Holds
    <3>. QED  BY <1>9, <3>1, <3>4 DEF Fine, Carrying
  <2>. QED  BY <2>1, <2>2, <2>3
<1>. HIDE DEF step
<1>. QED  BY <1>1, <1>2, <1>3, <1>4, <1>9, StillFinds

LEMMA LookFinds ==
    ASSUME Sound, IInv, IInv', FoundInv, NEW t \in Tasks, Look(t)
    PROVE  FoundInv'
<1>1. PICK f \in Fibers : task[t] = f
  BY DEF IInv, FiberInv
<1>2. PICK s \in f.todo :
         LET row == moving[s.from]
             pass == row # None => Live(t, row)
         IN task' = [task EXCEPT ![t].todo = @ \ {s},
                       ![t].rec = IF pass THEN None ELSE row,
                       ![t].at = IF pass THEN "next" ELSE "dead"]
  BY <1>1 DEF Look, Sound
<1>3. UNCHANGED <<disks, moving>> /\ f.at = "next"
  BY <1>1 DEF Look, At
<1>4. s.from \in Places
  BY DEF Fibers, Records
<1>5. /\ \A u \in Tasks \ {t} : task'[u] = task[u]
      /\ \A g \in Fibers : task'[t] = g =>
            /\ g.own = f.own /\ g.move = f.move
            /\ \/ g.rec = None
               \/ g.rec = moving[s.from] /\ g.rec # None /\ g.at = "dead"
  <2>1. PICK todo, rec, at :
           /\ task' = [task EXCEPT ![t].todo = todo, ![t].rec = rec, ![t].at = at]
           /\ rec = None \/ (rec = moving[s.from] /\ rec # None /\ at = "dead")
    BY <1>2
  <2>2. /\ \A u \in Tasks \ {t} : task'[u] = task[u]
        /\ task'[t] = [f EXCEPT !.todo = todo, !.rec = rec, !.at = at]
    BY <1>1, <2>1 DEF IInv, FiberInv
  <2>3. /\ task'[t].own = f.own /\ task'[t].move = f.move
        /\ task'[t].rec = rec /\ task'[t].at = at
    BY <2>2 DEF Fibers
  <2>. QED  BY <2>1, <2>2, <2>3
<1>6. ~f.own /\ (f.move # None => f.move.from # f.move.to)
  <2>1. f.own => f.at \in Own
    BY <1>1 DEF FoundInv, StepInv
  <2>. QED  BY <1>1, <1>3, <2>1 DEF FoundInv, RowsInv, Own
<1>7. ASSUME NEW g \in Fibers, task'[t] = g PROVE Resting(g)
  <2>1. g.rec # None => g.rec.from = s.from
    BY <1>4, <1>5, <1>7, KnownRow
  <2>2. g.rec # None => Same(moving[g.rec.from], g)
    BY <1>5, <1>7, <2>1 DEF Same, Like
  <2>. QED  BY <1>5, <1>6, <1>7, <2>2 DEF Resting
<1>. QED  BY <1>3, <1>5, <1>7, RestFinds

\* What is taken over is still as it was looked at: each fiber writes its own
\* process's name, so the owner looked at is one who left it as it was.
LEMMA TakeOverFinds ==
    ASSUME Sound, IInv, IInv', FoundInv, NEW t \in Tasks, TakeOver(t)
    PROVE  FoundInv'
<1>1. PICK f \in Fibers : task[t] = f
  BY DEF IInv, FiberInv
<1> DEFINE r == f.rec
           w == f.rec.link
           row == moving[r.from]
<1>2. f.at = "dead" /\ UNCHANGED <<disks, born>>
  BY <1>1 DEF TakeOver, At
<1>3. r # None /\ r \in Records /\ r.from \in Places
  <2>1. r # None
    BY <1>1, <1>2 DEF IInv, FiberInv, Shaped, InHand, Steps
  <2>. QED  BY <2>1, RecOf
<1>4. ~f.own /\ (f.move # None => f.move.from # f.move.to)
  <2>1. f.own => f.at \in Own
    BY <1>1 DEF FoundInv, StepInv
  <2>. QED  BY <1>1, <1>2, <2>1 DEF FoundInv, RowsInv, Own
<1>5. CASE /\ UNCHANGED moving
           /\ task' = [task EXCEPT ![t].at = "next", ![t].rec = None]
  <2>1. /\ \A u \in Tasks \ {t} : task'[u] = task[u]
        /\ \A g \in Fibers : task'[t] = g =>
              g.own = f.own /\ g.move = f.move /\ g.rec = None
    BY <1>1, <1>5 DEF IInv, FiberInv, Fibers
  <2>. QED  BY <1>2, <1>4, <1>5, <2>1, RestFinds DEF Resting
<1>6. CASE /\ row # None /\ row.owner = r.owner
           /\ moving' = [moving EXCEPT ![r.from] = [row EXCEPT !.owner = Self(t)]]
           /\ task' = [task EXCEPT ![t].at = "taken",
                                   ![t].rec.owner = [row EXCEPT !.owner = Self(t)].owner]
  <2>1. Like(row, r)
    BY <1>1, <1>3, <1>6 DEF FoundInv, SameInv, Same
  <2>2. /\ row \in Records /\ row.from = r.from /\ row.to = r.to /\ row.link = w
        /\ row.partial = r.partial /\ w \in Worktrees \cup {None}
        /\ w # None => Sits(row)
        /\ row.partial => w # None /\ Crosses(row)
    BY <1>3, <1>6, <2>1, KnownRow DEF Like
  <2>3. PICK o \in Owners : o = Self(t)
    BY SelfOwns
  <2>4. PICK m \in Records : m = [row EXCEPT !.owner = o]
    BY <2>2 DEF Records
  <2>5. /\ m.from = r.from /\ m.to = r.to /\ m.link = w /\ m.owner = o
        /\ m.partial = r.partial /\ Like(m, r) /\ Like(m, row) /\ m # None
    BY <2>2, <2>4, NoneAssumption DEF Records, Like
  <2>6. /\ moving'[r.from] = m
        /\ \A q \in Places \ {r.from} : moving'[q] = moving[q]
    BY <1>3, <1>6, <2>3, <2>4 DEF IInv, RecordInv
  <2>7. task' = [task EXCEPT ![t].at = "taken", ![t].rec.owner = o]
    BY <1>6, <2>2, <2>3 DEF Records
  <2>8. /\ \A u \in Tasks \ {t} : task'[u] = task[u]
        /\ task'[t] = [f EXCEPT !.at = "taken", !.rec.owner = o]
    BY <1>1, <2>7 DEF IInv, FiberInv
  <2>9. PICK g \in Fibers : task'[t] = g
    BY DEF IInv, FiberInv
  <2>10. /\ g.rec = [r EXCEPT !.owner = o] /\ g.at = "taken" /\ g.own = f.own
         /\ g.move = f.move
    BY <2>8, <2>9 DEF Fibers
  <2>11. /\ g.rec.from = r.from /\ g.rec.to = r.to /\ g.rec.link = w
         /\ g.rec.partial = r.partial /\ g.rec # None
    <3>1. g.at \in InHand
      BY <2>10 DEF InHand, Steps
    <3>2. g.rec # None
      BY <2>9, <3>1 DEF IInv, FiberInv, Shaped
    <3>. QED  BY <1>3, <2>10, <3>2 DEF Records
  <2>12. Like(m, g.rec) /\ Fine(g)'
    BY <2>5, <2>10, <2>11 DEF Like, Fine, Carrying
  <2>13. \A q \in Places : w # None /\ Moves(q, w) => q = r.from
    BY <1>3, <1>6, <2>2 DEF FoundInv, RowsInv, Moves
  <2>14. \A u \in Tasks \ {t} : Working(u) => task[u].rec.from # r.from
    <3> SUFFICES ASSUME NEW u \in Tasks \ {t}, Working(u), task[u].rec.from = r.from
                 PROVE  FALSE
      OBVIOUS
    <3>1. Working(u)' /\ task'[u].rec.from = r.from
      BY <2>8 DEF Working, At
    <3>2. Working(t)' /\ task'[t].rec.from = r.from
      BY <2>9, <2>10, <2>11 DEF Working, At
    <3>. QED  BY <3>1, <3>2 DEF IInv, OneWorker
  <2>15. RowsInv'
    <3>1. \A q \in Places : /\ moving'[q] # None <=> moving[q] # None
                            /\ moving[q] # None => /\ moving'[q].to = moving[q].to
                                                   /\ moving'[q].link = moving[q].link
      BY <1>6, <2>2, <2>5, <2>6
    <3>2. \A u \in Tasks : task'[u].move = task[u].move
      BY <1>1, <2>8, <2>9, <2>10
    <3>. QED  BY <3>1, <3>2 DEF FoundInv, RowsInv, Moves
  <2>16. (w # None => Sits(m)) /\ (Crosses(m) <=> Crosses(row))
    BY <2>2, <2>5, SitsLike
  <2>17. Only(w) /\ (w # None => Sits(m)')
    BY <1>2, <2>16, StillOnly
  <2>18. On(t, r.from, w)
    <3>1. \A h \in Fibers : task'[t] = h =>
            /\ h.own => h.at \in Own
            /\ h.rec # None => /\ h.at # "dead" /\ h.rec.from = r.from
                               /\ Like(moving'[r.from], h.rec) /\ Fine(h)'
      BY <1>4, <2>6, <2>9, <2>10, <2>11, <2>12
    <3>2. \A n \in Records : moving'[r.from] = n =>
            /\ w # None => Sits(n)'
            /\ n.partial => w # None /\ Crosses(n)
      BY <2>2, <2>5, <2>6, <2>16, <2>17
    <3>. QED
      BY <2>2, <2>3, <2>5, <2>6, <2>8, <2>13, <2>14, <2>15, <2>17, <3>1, <3>2 DEF On
  <2>. QED  BY <1>2, <1>3, <2>2, <2>18, OnKeeps DEF Sound
<1>. QED  BY <1>1, <1>5, <1>6 DEF TakeOver

\* No record names the folder, so what it holds is listed there and whole.
LEMMA Unnamed ==
    ASSUME IInv, FoundInv, NEW p \in Places, Named(p) = {},
           NEW w \in Worktrees, Holds(p, w)
    PROVE  /\ entry[w] = p /\ WholeAt(w, p) /\ \A q \in Places : ~Moves(q, w)
<1>1. ASSUME NEW q \in Places, Moves(q, w) PROVE FALSE
  <2>1. /\ moving[q] # None /\ moving[q].link = w /\ moving[q].from = q
        /\ Sits(moving[q])
    BY <1>1, KnownRow, PlaceAssumption DEF Moves
  <2>2. p # q /\ p # moving[q].to
    BY <2>1 DEF Named
  <2>. QED  BY <2>1, <2>2, PlaceAssumption DEF Sits, Spots
<1>. QED  BY <1>1 DEF FoundInv, SettledInv, Settled, Spots

LEMMA ClaimFinds ==
    ASSUME OneFiber, IInv, IInv', FoundInv, NEW t \in Tasks, Claim(t)
    PROVE  FoundInv'
<1>1. PICK f \in Fibers : task[t] = f
  BY DEF IInv, FiberInv
<1> DEFINE mv == f.move
           link == IF Holds(mv.from, mv.link) THEN mv.link ELSE None
           rec == [from |-> mv.from, to |-> mv.to, link |-> link, carried |-> FALSE,
                   partial |-> FALSE, owner |-> Self(t)]
           idle == [Idle EXCEPT !.at = "claimed", !.rec = rec, !.own = TRUE]
<1>2. /\ f.at \in {"asked", "again"} /\ Others(mv) = {}
      /\ moving' = [moving EXCEPT ![mv.from] = rec]
      /\ task' = [task EXCEPT ![t] = idle] /\ UNCHANGED <<disks, disk, entry, born>>
  BY <1>1 DEF Claim, At, disks
<1>3. /\ mv \in Asked /\ mv.from \in Places /\ mv.from \in Spots /\ mv.to \in Places
      /\ mv.link \in Worktrees /\ mv.from # mv.to
  <2>1. mv \in Asked /\ mv.from \in Places
    BY <1>1, <1>2 DEF IInv, FiberInv, Shaped
  <2>2. mv # None
    <3>1. mv \in [link : Worktrees, from : Places, to : Places]
      BY <2>1 DEF Asked
    <3>. QED  BY <3>1, NoneAssumption
  <2>. QED  BY <1>1, <2>1, <2>2 DEF Asked, Spots, FoundInv, RowsInv
<1>4. Named(mv.from) = {} /\ Named(mv.to) = {}
  BY <1>2 DEF Others
<1>5. PICK m \in Records : m = rec
  <2>1. Self(t) \in Owners
    BY SelfOwns
  <2>2. link \in Worktrees \cup {None}
    BY <1>3
  <2>3. rec \in Records
    <3>. HIDE DEF link
    <3>. QED  BY <1>3, <2>1, <2>2 DEF Records
  <2>. QED  BY <2>3
<1>6. PICK x \in Worktrees \cup {None} : x = link
  BY <1>3
<1>7. /\ m.from = mv.from /\ m.to = mv.to /\ m.link = x /\ ~m.partial
      /\ m.owner = Self(t) /\ m # None
  BY <1>5, <1>6, NoneAssumption
<1>8. x # None => /\ Holds(mv.from, x) /\ entry[x] = mv.from /\ WholeAt(x, mv.from)
                  /\ \A q \in Places : ~Moves(q, x)
  BY <1>3, <1>4, <1>6, Unnamed
<1>9. /\ moving[mv.from] = None /\ moving'[mv.from] = m
      /\ \A q \in Places \ {mv.from} : moving'[q] = moving[q]
  BY <1>2, <1>3, <1>4, <1>5 DEF IInv, RecordInv, Named
<1>10. PICK g \in Fibers : task'[t] = g
  BY DEF IInv, FiberInv
<1>11. /\ \A u \in Tasks \ {t} : task'[u] = task[u]
       /\ g.at = "claimed" /\ g.rec = m /\ g.own /\ g.move = None
  BY <1>1, <1>2, <1>5, <1>10 DEF IInv, FiberInv, Idle
<1>12. RowsInv'
  <2>1. ASSUME NEW p \in Places, NEW q \in Places, moving'[p] # None, moving'[q] # None
        PROVE  moving'[p].to # q /\ (moving'[p].to = moving'[q].to => p = q)
    <3>1. CASE p = mv.from
      BY <1>3, <1>4, <1>7, <1>9, <2>1, <3>1 DEF Named
    <3>2. CASE p # mv.from /\ q = mv.from
      <4>1. moving'[p] = moving[p] /\ moving[p].to # mv.from /\ moving[p].to # mv.to
        BY <1>4, <1>9, <2>1, <3>2 DEF Named
      <4>. QED  BY <1>7, <1>9, <3>2, <4>1
    <3>3. CASE p # mv.from /\ q # mv.from
      BY <1>9, <2>1, <3>3 DEF FoundInv, RowsInv
    <3>. QED  BY <3>1, <3>2, <3>3
  <2>2. ASSUME NEW p \in Places, NEW q \in Places, NEW w \in Worktrees,
               Moves(p, w)', Moves(q, w)'
        PROVE  p = q
    <3>1. w # None
      BY PlaceAssumption
    <3>. QED  BY <1>7, <1>8, <1>9, <2>2, <3>1 DEF FoundInv, RowsInv, Moves
  <2>3. \A u \in Tasks : task'[u].move # None => task'[u].move.from # task'[u].move.to
    BY <1>10, <1>11 DEF FoundInv, RowsInv
  <2>. QED  BY <2>1, <2>2, <2>3 DEF RowsInv
<1>13. \A u \in Tasks \ {t} : Working(u) => task[u].rec.from # mv.from
  BY <1>9 DEF IInv, HandInv, Held
<1>14. Only(x)
  BY <1>2, StillOnly
<1>15. x # None => Sits(m)'
  <2> SUFFICES ASSUME x # None PROVE Sits(m)'
    OBVIOUS
  <2>1. Settled(x)
    BY <1>6, <1>8 DEF FoundInv, SettledInv
  <2>2. Sits(m)
    BY <1>7, <1>8, <2>1 DEF Sits, Settled
  <2>. QED  BY <1>2, <2>2, StillOnly
<1>16. Fine(g)'
  BY <1>2, <1>7, <1>8, <1>11 DEF Fine, Carrying, WholeAt
<1>17. On(t, mv.from, x)
  <2>1. \A h \in Fibers : task'[t] = h =>
            /\ h.own => h.at \in Own
            /\ h.rec # None => /\ h.at # "dead" /\ h.rec.from = mv.from
                               /\ Like(moving'[mv.from], h.rec) /\ Fine(h)'
    BY <1>7, <1>9, <1>10, <1>11, <1>16 DEF Own, Like
  <2>2. \A n \in Records : moving'[mv.from] = n =>
            /\ x # None => Sits(n)'
            /\ n.partial => x # None /\ Crosses(n)
    BY <1>7, <1>9, <1>15
  <2>. QED
    BY <1>7, <1>8, <1>9, <1>11, <1>12, <1>13, <1>14, <2>1, <2>2 DEF On
<1>. QED  BY <1>2, <1>3, <1>17, OnKeeps

--------------------------------------------------------------------------------
(* The other steps, and the theorems.                                          *)

LEMMA IdleRests == ~Idle.own /\ Idle.move = None /\ Idle.rec = None
  BY DEF Idle

\* Nothing in hand, before and after.
LEMMA EmptyFinds ==
    ASSUME IInv, IInv', FoundInv, NEW t \in Tasks,
           ClaimWaits(t) \/ ClaimRefused(t) \/ Resume(t) \/ Looked(t) \/ CreateForgets(t)
    PROVE  FoundInv'
<1> USE DEF ClaimWaits, ClaimRefused, Resume, Looked, CreateForgets
<1>1. PICK f \in Fibers : task[t] = f
  BY DEF IInv, FiberInv
<1>2. UNCHANGED <<disks, moving>> /\ f.at \in {"asked", "again", "idle", "next", "made"}
  BY <1>1 DEF At, disks
<1>3. f.rec = None
  BY <1>1, <1>2 DEF IInv, FiberInv, Shaped, InHand, Steps
<1>4. ~f.own /\ (f.move # None => f.move.from # f.move.to)
  <2>1. f.own => f.at \in Own
    BY <1>1 DEF FoundInv, StepInv
  <2>. QED  BY <1>1, <1>2, <2>1 DEF FoundInv, RowsInv, Own
<1>5. PICK at, todo : \/ task' = [task EXCEPT ![t] = Idle]
                      \/ task' = [task EXCEPT ![t].at = at, ![t].todo = todo]
                      \/ task' = [task EXCEPT ![t].at = at]
  <2>1. CASE Looked(t)
    <3>1. task' = [task EXCEPT ![t] = IF @.move = None THEN Idle
                                      ELSE [@ EXCEPT !.at = "again"]]
      BY <2>1
    <3>2. CASE f.move = None
      BY <1>1, <3>1, <3>2 DEF IInv, FiberInv
    <3>3. CASE f.move # None
      BY <1>1, <3>1, <3>3 DEF IInv, FiberInv
    <3>. QED  BY <3>2, <3>3
  <2>2. CASE ~Looked(t)
    BY <2>2
  <2>. QED  BY <2>1, <2>2
<1>6. /\ \A u \in Tasks \ {t} : task'[u] = task[u]
      /\ \/ task'[t] = Idle
         \/ task'[t] = [f EXCEPT !.at = at, !.todo = todo]
         \/ task'[t] = [f EXCEPT !.at = at]
  BY <1>1, <1>5 DEF IInv, FiberInv
<1>7. task'[t] = Idle \/ (/\ task'[t].own = f.own /\ task'[t].move = f.move
                          /\ task'[t].rec = f.rec)
  BY <1>6 DEF Fibers
<1>. QED  BY <1>2, <1>3, <1>4, <1>6, <1>7, RestFinds, IdleRests DEF Resting

LEMMA AskFinds ==
    ASSUME IInv, IInv', FoundInv, NEW t \in Tasks, NEW w \in Worktrees,
           NEW p \in Places, Ask(t, w, p) \/ CreateLooks(t, w, p)
    PROVE  FoundInv'
<1>1. PICK f \in Fibers : task[t] = f
  BY DEF IInv, FiberInv
<1>2. UNCHANGED <<disks, moving>> /\ f.at = "idle"
  BY <1>1 DEF Ask, CreateLooks, At
<1>3. f.rec = None /\ ~f.own
  <2>1. f.own => f.at \in Own
    BY <1>1 DEF FoundInv, StepInv
  <2>. QED  BY <1>1, <1>2, <2>1 DEF IInv, FiberInv, Shaped, InHand, Own
<1>4. ASSUME Ask(t, w, p)
      PROVE  /\ \A u \in Tasks \ {t} : task'[u] = task[u]
             /\ ~task'[t].own /\ task'[t].rec = None
             /\ task'[t].move.from # task'[t].move.to
  <2> DEFINE mv == [link |-> w, from |-> entry[w], to |-> p]
  <2>1. task' = [task EXCEPT ![t] = [Idle EXCEPT !.at = "asked", !.move = mv]]
        /\ entry[w] # p
    BY <1>4 DEF Ask
  <2>. QED  BY <2>1 DEF IInv, FiberInv, Idle
<1>5. ASSUME CreateLooks(t, w, p)
      PROVE  /\ \A u \in Tasks \ {t} : task'[u] = task[u]
             /\ ~task'[t].own /\ task'[t].rec = None
             /\ task'[t].move.from # task'[t].move.to
  <2> DEFINE mv == [link |-> w, from |-> None, to |-> p]
  <2>1. task' = [task EXCEPT ![t].at = "adding", ![t].move = mv]
    BY <1>5 DEF CreateLooks
  <2>2. /\ \A u \in Tasks \ {t} : task'[u] = task[u]
        /\ task'[t] = [f EXCEPT !.at = "adding", !.move = mv]
    BY <1>1, <2>1 DEF IInv, FiberInv
  <2>3. task'[t].own = f.own /\ task'[t].rec = f.rec /\ task'[t].move = mv
    BY <2>2 DEF Fibers
  <2>4. mv.from # mv.to
    BY PlaceAssumption DEF Spots
  <2>. QED  BY <1>3, <2>2, <2>3, <2>4
<1>. QED  BY <1>2, <1>4, <1>5, RestFinds DEF Resting

\* One that is nowhere is no record's, and is whole where it is made.
LEMMA AddsBeside ==
    ASSUME IInv, FoundInv, NEW w \in Worktrees, NEW p \in Spots, Unmade(w),
           disk[p] = None, ~Listed(p), Adds(w, p)
    PROVE  /\ Only(w) /\ Settled(w)'
           /\ \A q \in Places : moving[q] # None => moving[q].link # w
<1>1. /\ disk'[p] = [of |-> w, whole |-> TRUE]
      /\ \A s \in Spots \ {p} : disk'[s] = disk[s]
      /\ entry'[w] = p /\ \A v \in Worktrees \ {w} : entry'[v] = entry[v]
      /\ DiskInv'
  BY AFolder DEF Adds, FoundInv, DiskInv
<1>2. entry[w] = None /\ \A s \in Spots : ~Holds(s, w)
  BY DEF Unmade
<1>3. ASSUME NEW q \in Places, moving[q] # None, moving[q].link = w PROVE FALSE
  <2>1. Sits(moving[q]) /\ moving[q].from = q /\ moving[q].to \in Places
    BY <1>3, KnownRow, PlaceAssumption
  <2>. QED  BY <1>2, <1>3, <2>1, PlaceAssumption DEF Sits, Spots
<1>4. Only(w)
  BY <1>1 DEF Only, Listed
<1>5. Settled(w)'
  BY <1>1, <1>2, PlaceAssumption DEF Settled, Holds, WholeAt
<1>. QED  BY <1>3, <1>4, <1>5

LEMMA CreateAddsFinds ==
    ASSUME IInv, IInv', FoundInv, NEW t \in Tasks, CreateAdds(t)
    PROVE  FoundInv'
<1>1. PICK f \in Fibers : task[t] = f
  BY DEF IInv, FiberInv
<1>2. UNCHANGED moving /\ f.at = "adding"
  BY <1>1 DEF CreateAdds, At
<1>3. f.rec = None /\ ~f.own
  <2>1. f.own => f.at \in Own
    BY <1>1 DEF FoundInv, StepInv
  <2>. QED  BY <1>1, <1>2, <2>1 DEF IInv, FiberInv, Shaped, InHand, Own
<1>4. CASE task' = [task EXCEPT ![t] = Idle] /\ UNCHANGED disks
  <2>1. /\ \A u \in Tasks \ {t} : task'[u] = task[u]
        /\ task'[t] = Idle
    BY <1>4 DEF IInv, FiberInv
  <2>. QED  BY <1>2, <1>4, <2>1, RestFinds, IdleRests DEF Resting
<1>5. CASE /\ disk[f.move.to] = None /\ ~Listed(f.move.to) /\ Unmade(f.move.link)
           /\ Adds(f.move.link, f.move.to) /\ Go(t, "made")
  <2>1. f.move \in Asked
    BY <1>1, <1>2 DEF IInv, FiberInv, Shaped
  <2>2. f.move.link \in Worktrees /\ f.move.to \in Spots
    BY <2>1 DEF Asked, Spots
  <2>3. /\ \A u \in Tasks \ {t} : task'[u] = task[u]
        /\ task'[t] = [f EXCEPT !.at = "made"]
    BY <1>1, <1>5 DEF Go, IInv, FiberInv
  <2>4. task'[t].own = f.own /\ task'[t].rec = f.rec /\ task'[t].move = f.move
    BY <2>3 DEF Fibers
  <2>5. f.move # None => f.move.from # f.move.to
    BY <1>1 DEF FoundInv, RowsInv
  <2>6. \A u \in Tasks, g \in Fibers : task'[u] = g => task[u] = g \/ Resting(g)
    BY <1>3, <2>3, <2>4, <2>5 DEF Resting
  <2>7. Beside(f.move.link)
    BY <1>2, <1>5, <2>2, <2>6, AddsBeside DEF Beside
  <2>. QED  BY <2>2, <2>7, BesideKeeps
<1>. QED  BY <1>1, <1>4, <1>5 DEF CreateAdds

LEMMA MakeFinds ==
    ASSUME Sound, IInv, IInv', FoundInv, NEW p \in Places, Make(p)
    PROVE  FoundInv'
<1>1. /\ disk[p] = None /\ p \in Spots /\ UNCHANGED <<moving, task>>
      /\ \A u \in Tasks, f \in Fibers : task'[u] = f => task[u] = f
  BY DEF Make, Spots
<1>2. ASSUME NEW w \in Worktrees, Unmade(w), ~Listed(p), Adds(w, p) PROVE FoundInv'
  <2>1. Beside(w)
    BY <1>1, <1>2, AddsBeside DEF Beside
  <2>. QED  BY <2>1, BesideKeeps
<1>3. CASE ~Listed(p) /\ UNCHANGED entry
           /\ disk' = [disk EXCEPT ![p] = [of |-> Alien, whole |-> TRUE]]
  <2>1. /\ disk'[p] = [of |-> Alien, whole |-> TRUE]
        /\ \A s \in Spots \ {p} : disk'[s] = disk[s]
        /\ DiskInv'
    BY <1>1, <1>3, AFolder DEF FoundInv, DiskInv
  <2>2. Only(Alien)
    BY <1>1, <1>3, <2>1 DEF Only, Listed
  <2>3. Alien \notin Worktrees /\ \A q \in Places : moving[q] # None
                                                    => moving[q].link # Alien
    BY KnownRow, PlaceAssumption
  <2>4. Beside(Alien)
    BY <1>1, <2>2, <2>3 DEF Beside
  <2>. QED  BY <2>4, BesideKeeps
<1>. QED  BY <1>2, <1>3 DEF Make, Sound

\* Nothing of the folders or the records changes, nor of a fiber but to be idle.
LEMMA StopFinds ==
    ASSUME IInv, IInv', FoundInv, UNCHANGED <<disks, moving>>,
           \A u \in Tasks : task'[u] = task[u] \/ task'[u] = Idle
    PROVE  FoundInv'
<1>1. Only(Alien) /\ Alien \notin Worktrees
  BY StillOnly, PlaceAssumption
<1>2. \A q \in Places : moving[q] # None => moving[q].link # Alien
  BY <1>1, KnownRow, PlaceAssumption
<1>3. Beside(Alien)
  BY <1>1, <1>2, IdleRests DEF Beside, Resting
<1>. QED  BY <1>3, BesideKeeps

LEMMA StopsFind ==
    ASSUME IInv, IInv', FoundInv,
           \/ UNCHANGED vars \/ Rest \/ \E w \in Worktrees : Note(w)
           \/ \E p \in Procs : Crash(p)
    PROVE  FoundInv'
<1>1. UNCHANGED <<disks, moving>>
  BY DEF vars, Rest, Note, Crash
<1>2. \A u \in Tasks : task'[u] = task[u] \/ task'[u] = Idle
  BY DEF vars, Rest, Note, Crash
<1>. QED  BY <1>1, <1>2, StopFinds

LEMMA GoesFinds ==
    ASSUME Sound, IInv, IInv', FoundInv, NEW t \in Tasks, Goes(t) \/ Resume(t)
    PROVE  FoundInv'
<1> OneFiber
  BY DEF Sound
<1>1. CASE ClaimStep(t)
  BY <1>1, ClaimFinds, EmptyFinds DEF ClaimStep
<1>2. CASE GitStep(t)
  BY <1>2, RenamesFinds, RecordsFinds, NestsFinds, FailsFinds, RelinkFinds, PutDownsFind
  DEF GitStep
<1>3. CASE CopyStep(t)
  BY <1>3, CrossFinds, PutInFinds, PutDownsFind, RepairFinds, NoUndo DEF CopyStep
<1>4. CASE CarryStep(t)
  BY <1>4, CarryFinds, PutDownsFind, RefFinds, WipeFinds, ForgetFinds DEF CarryStep
<1>5. CASE ResumeStep(t) \/ Resume(t)
  BY <1>5, LookFinds, EmptyFinds, TakeOverFinds, JudgeFinds DEF ResumeStep
<1>6. CASE CreateStep(t)
  BY <1>6, CreateAddsFinds, EmptyFinds DEF CreateStep
<1>. QED  BY <1>1, <1>2, <1>3, <1>4, <1>5, <1>6 DEF Goes

LEMMA NextFinds == Sound /\ IInv /\ FoundInv /\ [Next]_vars => IInv' /\ FoundInv'
<1> SUFFICES ASSUME Sound, IInv, FoundInv, [Next]_vars PROVE IInv' /\ FoundInv'
  OBVIOUS
<1>1. IInv'
  BY StepKeeps DEF Sound
<1>2. ASSUME NEW t \in Tasks, Goes(t) \/ Resume(t) PROVE FoundInv'
  BY <1>1, <1>2, GoesFinds
<1>3. ASSUME NEW t \in Tasks, NEW w \in Worktrees, NEW p \in Places,
             Ask(t, w, p) \/ CreateLooks(t, w, p)
      PROVE  FoundInv'
  BY <1>1, <1>3, AskFinds
<1>4. ASSUME NEW p \in Places, Make(p) PROVE FoundInv'
  BY <1>1, <1>4, MakeFinds
<1>5. CASE \/ UNCHANGED vars \/ Rest \/ \E w \in Worktrees : Note(w)
           \/ \E p \in Procs : Crash(p)
  BY <1>1, <1>5, StopsFind
<1>. QED  BY <1>1, <1>2, <1>3, <1>4, <1>5 DEF Next

LEMMA InitFinds == Init => FoundInv
<1> SUFFICES ASSUME Init PROVE FoundInv
  OBVIOUS
<1>1. /\ \A p \in Places : moving[p] = None
      /\ \A t \in Tasks : task[t] = Idle
      /\ entry = Home /\ entry \in [Worktrees -> Places \cup {None}]
  BY TaskAssumption DEF Init
<1>2. \A w \in Worktrees, p \in Spots : entry[w] = p => WholeAt(w, p)
  BY <1>1, TaskAssumption, PlaceAssumption DEF Init, WholeAt
<1>3. \A w \in Worktrees, p \in Spots : Holds(p, w) => entry[w] = p
  BY <1>1, TaskAssumption, PlaceAssumption DEF Init, Holds
<1>4. DiskInv
  <2>1. ASSUME NEW p \in Spots PROVE disk[p] \in Folders \cup {None}
    <3>1. CASE \E w \in Worktrees : Home[w] = p
      <4>1. PICK w \in Worktrees : Home[w] = p
        BY <3>1
      <4>2. WholeAt(w, p)
        BY <1>1, <1>2, <4>1
      <4>. QED  BY <4>2, AFolder DEF WholeAt
    <3>2. CASE ~\E w \in Worktrees : Home[w] = p
      BY <3>2 DEF Init
    <3>. QED  BY <3>1, <3>2
  <2>2. disk \in [Spots -> Folders \cup {None}]
    BY <2>1 DEF Init
  <2>. QED  BY <1>1, <2>2 DEF DiskInv, Spots
<1>5. RowsInv
  BY <1>1, IdleRests DEF RowsInv, Moves
<1>6. SameInv /\ StepInv
  BY <1>1, IdleRests DEF SameInv, StepInv
<1>7. SettledInv
  BY <1>2, <1>3 DEF SettledInv, Settled
<1>8. SitsInv
  BY <1>1, NoneAssumption DEF SitsInv
<1>. QED  BY <1>4, <1>5, <1>6, <1>7, <1>8 DEF FoundInv

LEMMA FoundSoFar == IInv /\ FoundInv => WorkFound
<1> SUFFICES ASSUME IInv, FoundInv, NEW w \in Made
             PROVE  \/ WholeAt(w, entry[w])
                    \/ \E p \in Places : WholeAt(w, p) /\ NamedFor(w, p)
  BY DEF WorkFound
<1>1. w \in Worktrees /\ (entry[w] # None \/ \E p \in Spots : Holds(p, w))
  BY DEF Made, Unmade
<1>2. entry[w] \in Spots \cup {None}
  BY <1>1 DEF FoundInv, DiskInv
<1>3. CASE \A q \in Places : ~Moves(q, w)
  BY <1>1, <1>2, <1>3 DEF FoundInv, SettledInv, Settled
<1>4. ASSUME NEW q \in Places, Moves(q, w)
      PROVE  \/ WholeAt(w, entry[w])
             \/ \E p \in Places : WholeAt(w, p) /\ NamedFor(w, p)
  <2>1. /\ moving[q] # None /\ moving[q].link = w /\ Sits(moving[q])
        /\ moving[q].from = q /\ moving[q].to \in Places
    BY <1>1, <1>4, KnownRow, PlaceAssumption DEF Moves
  <2>2. entry[w] \in Spots
    BY <1>4, <2>1 DEF Sits, Spots
  <2>3. WholeAt(w, entry[w]) \/ WholeAt(w, moving[q].to)
    BY <2>1, <2>2 DEF Sits, Renamed
  <2>4. NamedFor(w, moving[q].to)
    BY <1>4, <2>1 DEF NamedFor, Named
  <2>. QED  BY <2>1, <2>3, <2>4
<1>. QED  BY <1>3, <1>4

LEMMA DeletesACopy ==
    ASSUME IInv, FoundInv, [Next]_vars, NEW p \in Spots,
           disk[p] # None, disk[p].whole, disk'[p] # None, ~disk'[p].whole
    PROVE  \E w \in Worktrees : /\ disk[p].of = w /\ entry[w] # p
                                /\ WholeAt(w, entry[w])
<1>0. disk' # disk /\ disk \in [Spots -> Folders \cup {None}]
  BY DEF FoundInv, DiskInv
<1>1. ASSUME NEW t \in Tasks, Wipe(t)
      PROVE  \E w \in Worktrees : /\ disk[p].of = w /\ entry[w] # p
                                  /\ WholeAt(w, entry[w])
  <2>1. PICK f \in Fibers : task[t] = f
    BY DEF IInv, FiberInv
  <2>2. f.at \in {"wipefrom", "wipeto"}
    BY <1>1, <2>1 DEF Wipe, At
  <2>3. PICK dir : dir = IF f.at = "wipefrom" THEN f.rec.from ELSE f.rec.to
    OBVIOUS
  <2>4. PICK other : other = IF f.at = "wipefrom" THEN f.rec.to ELSE f.rec.from
    OBVIOUS
  <2>5. /\ dir # other /\ f.rec.link \in Worktrees /\ Holds(dir, f.rec.link)
        /\ entry[f.rec.link] = other /\ WholeAt(f.rec.link, other)
    BY <2>1, <2>2, <2>3, <2>4, WipesCopy
  <2>6. \/ disk' = [disk EXCEPT ![dir].whole = FALSE]
        \/ disk' = [disk EXCEPT ![dir] = None]
        \/ UNCHANGED disk
    BY <1>1, <2>1, <2>2, <2>3 DEF Wipe, At
  <2>7. p = dir
    BY <1>0, <2>6
  <2>. QED  BY <2>5, <2>7 DEF Holds
<1>2. ASSUME NEW t \in Tasks, GitRenames(t) \/ GitNests(t) PROVE FALSE
  <2>1. PICK a, b : /\ disk' = [disk EXCEPT ![a] = None, ![b] = disk[a]]
                    /\ disk[b] = None
    BY <1>2 DEF GitRenames, GitNests, Carries
  <2>. QED  BY <1>0, <2>1
<1>3. ASSUME NEW q, NEW w, disk' = [disk EXCEPT ![q] = [of |-> w, whole |-> TRUE]]
      PROVE  FALSE
  BY <1>0, <1>3
<1>4. ASSUME NEW t \in Tasks, PutIn(t) \/ CreateAdds(t) PROVE FALSE
  BY <1>0, <1>3, <1>4 DEF PutIn, CreateAdds, Adds, disks
<1>5. ASSUME NEW q \in Places, Make(q) PROVE FALSE
  BY <1>3, <1>5 DEF Make, Adds
<1>6. ASSUME NEW t \in Tasks,
             \/ ClaimStep(t) \/ ResumeStep(t) \/ Resume(t) \/ CreateForgets(t)
             \/ GitRecords(t) \/ GitFails(t) \/ Relink(t) \/ RelinkFails(t)
      PROVE  FALSE
  BY <1>0, <1>6
  DEF ClaimStep, Claim, ClaimWaits, ClaimRefused, ResumeStep, Look, Looked, TakeOver,
      Judge, Resume, CreateForgets, GitRecords, GitFails, Relink, RelinkFails, disks
<1>7. ASSUME NEW t \in Tasks,
             \/ Cross(t) \/ CopyFails(t) \/ PutInDies(t) \/ Repair(t) \/ RepairFails(t)
             \/ Undo(t) \/ Carry(t) \/ CarryFails(t) \/ RefFollows(t) \/ RefDrops(t)
             \/ RefFails(t) \/ Forget(t)
      PROVE  FALSE
  BY <1>0, <1>7
  DEF Cross, CopyFails, PutInDies, Repair, RepairFails, Undo, Carry, CarryFails,
      RefFollows, RefDrops, RefFails, Forget, disks
<1>8. ASSUME \/ UNCHANGED vars \/ Rest
             \/ \E t \in Tasks, w \in Worktrees, q \in Places :
                   Ask(t, w, q) \/ CreateLooks(t, w, q)
             \/ \E w \in Worktrees : Note(w)
             \/ \E q \in Procs : Crash(q)
      PROVE  FALSE
  BY <1>0, <1>8 DEF vars, Rest, Ask, CreateLooks, Note, Crash, disks
<1>9. ASSUME NEW t \in Tasks, Goes(t) \/ Resume(t)
      PROVE  Wipe(t)
  BY <1>2, <1>4, <1>6, <1>7, <1>9
  DEF Goes, GitStep, CopyStep, CarryStep, CreateStep
<1>. QED  BY <1>1, <1>5, <1>8, <1>9 DEF Next

(* Whatever crashes and comes back, and wherever each worktree is asked to go,   *)
(* the checkout of every worktree is whole where git lists it, or at one of the  *)
(* two folders of a kept record of its move: what a resume finds by the link it  *)
(* recorded, at whichever of them it is (moving.ts 499-505, 522-541).            *)
THEOREM NothingMovedIsLost == ASSUME Sound PROVE Spec => []WorkFound
<1>1. Init => IInv /\ FoundInv
  BY InitHolds, InitFinds
<1>2. IInv /\ FoundInv /\ [Next]_vars => (IInv /\ FoundInv)'
  BY NextFinds
<1>3. IInv /\ FoundInv => WorkFound
  BY FoundSoFar
<1>. QED  BY <1>1, <1>2, <1>3, PTL DEF Spec

(* A move, and the resume of one, delete no whole folder but the second of two   *)
(* copies, the one git does not list: the original once git has the new path     *)
(* (moving.ts 410, 552-557), or the copy while git still has the old one         *)
(* (moving.ts 561-570).                                                          *)
THEOREM OnlyCopiesGo == ASSUME Sound PROVE Spec => DeletesCopies
<1>1. Init => IInv /\ FoundInv
  BY InitHolds, InitFinds
<1>2. IInv /\ FoundInv /\ [Next]_vars => (IInv /\ FoundInv)'
  BY NextFinds
<1> DEFINE Deletes == \A p \in Spots :
         disk[p] # None /\ disk[p].whole /\ disk'[p] # None /\ ~disk'[p].whole
         => \E w \in Worktrees : /\ disk[p].of = w /\ entry[w] # p
                                 /\ WholeAt(w, entry[w])
<1>3. IInv /\ FoundInv /\ [Next]_vars => [Deletes]_vars
  BY DeletesACopy
<1>. QED  BY <1>1, <1>2, <1>3, PTL DEF Spec, DeletesCopies

--------------------------------------------------------------------------------
(* What is kept of a worktree follows it.                                      *)

\* git put it inside the folder in its way, where no record leads.
Away(w) == entry[w] = Nested

\* The id its rows are under while record `q` is kept: the new one once carried.
Key(q) == IF moving[q].carried THEN moving[q].to ELSE q
Homed(w, p) ==
    \/ Away(w)
    \/ entry[w] = p /\ \A q \in Places : ~Moves(q, w)
    \/ \E q \in Places : Moves(q, w) /\ p = Key(q)
RowHome == \A p \in Spots, w \in Worktrees : rows[p] = w => Homed(w, p)
RefHome == \A p \in Spots, w \in Worktrees :
               ref[p] = w => Homed(w, p) \/ (p \in Places /\ Moves(p, w))

\* What is under the id a record leaves is of the worktree it moves, which is
\* where it goes once the rows are.
Its(q, w) == \/ moving[q].link = w
             \/ Away(w)
             \/ moving[q].link = None /\ entry[w] = q
Follows(q) ==
    /\ \A w \in Worktrees :
          /\ rows[q] = w /\ ~moving[q].carried => Its(q, w)
          /\ ref[q] = w => Its(q, w)
          /\ Moves(q, w) /\ moving[q].carried => entry[w] \in {moving[q].to, Nested}
RecHome == \A q \in Places : moving[q] # None => Follows(q)

\* What a worker has done with it so far. One that moves no worktree carries
\* nothing of any that git still lists at a place.
Early == {"claimed", "renamed", "relink", "copying", "placed"}
Brings(f) ==
    LET q == f.rec.from  w == f.rec.link
    IN /\ f.at = "dead" /\ moving[q] # None /\ moving[q].owner = f.rec.owner
             => moving[q].carried = f.rec.carried
       /\ f.at \in Early \cup {"taken", "judge", "carry"}
             => moving[q].carried = f.rec.carried
       /\ f.at \in Early => ~moving[q].carried
       /\ f.at \in {"ref", "refdrop", "wipefrom"} => moving[q].carried
       /\ f.at = "carry" /\ w # None => entry[w] \in {f.rec.to, Nested}
       /\ f.at \in {"carry", "ref", "refdrop"} /\ w = None =>
             \A v \in Worktrees : /\ rows[q] = v /\ ~moving[q].carried => Away(v)
                                  /\ ref[q] = v => Away(v)
       /\ f.at = "forget" /\ ~moving[q].carried /\ w # None => entry[w] \in {q, Nested}
       /\ f.at \in {"forget", "wipefrom"} /\ moving[q].carried /\ f.captured /\ w # None
             => ref[q] # w \/ Away(w)
BringInv == \A t \in Tasks, f \in Fibers :
                task[t] = f /\ f.rec # None => Brings(f)

KeptInv == /\ rows \in [Spots -> Worktrees \cup {None}]
           /\ ref \in [Spots -> Worktrees \cup {None}]
           /\ RowHome /\ RefHome /\ RecHome /\ BringInv

\* The id a worktree's rows are under is the same, and what is under an id that a
\* record leaves is its worktree's still.
HomesStay ==
    \A v \in Worktrees :
       /\ Away(v) => Away(v)'
       /\ \A p \in Spots : Homed(v, p) => Homed(v, p)'
       /\ \A q \in Places :
             /\ moving'[q] # None /\ ~moving'[q].carried /\ Homed(v, q)
             /\ moving[q] # None /\ ~moving[q].carried => Its(q, v)
             => Its(q, v)'

LEMMA SameHomes == UNCHANGED <<entry, moving>> => HomesStay
  BY DEF HomesStay, Homed, Away, Its, Key, Moves

\* Of a worktree that stays, with the records of it, so does the id of what is kept.
LEMMA HomedStays ==
    ASSUME NEW w \in Worktrees, entry'[w] = entry[w],
           \A q \in Places : /\ Moves(q, w)' <=> Moves(q, w)
                             /\ Moves(q, w) => /\ moving'[q].carried = moving[q].carried
                                               /\ moving'[q].to = moving[q].to
    PROVE  \A p \in Spots : Homed(w, p)' <=> Homed(w, p)
  BY DEF Homed, Away, Key

\* A worker's fiber stays as it was, with its row, where git lists its worktree and
\* what is under the id it leaves, or less of that.
LEMMA BringStays ==
    ASSUME IInv, FoundInv, KeptInv, NEW u \in Tasks, NEW f \in Fibers, task[u] = f,
           f.rec # None, moving'[f.rec.from] = moving[f.rec.from],
           \A w \in Worktrees : Away(w) => Away(w)',
           f.at # "dead" =>
              /\ f.rec.link # None => entry'[f.rec.link] = entry[f.rec.link]
              /\ \/ rows'[f.rec.from] \in {None, rows[f.rec.from]}
                 \/ moving[f.rec.from].carried
              /\ ref'[f.rec.from] \in {None, ref[f.rec.from]}
    PROVE  Brings(f)'
<1>1. Brings(f)
  BY DEF KeptInv, BringInv
<1>2. f.rec.link \in Worktrees \cup {None} /\ None \notin Worktrees
  BY RecOf, PlaceAssumption DEF Records
<1>3. CASE f.at = "dead"
  BY <1>1, <1>3 DEF Brings, Early
<1>4. CASE f.at # "dead"
  BY <1>1, <1>2, <1>4 DEF Brings
<1>. QED  BY <1>3, <1>4

\* The other fibers of a step on a record, which ends or has its worker's name.
LEMMA OthersBring ==
    ASSUME OneFiber, IInv, FoundInv, KeptInv, UNCHANGED born,
           NEW t \in Tasks, NEW q \in Places, NEW x \in Worktrees \cup {None},
           \A p \in Places \ {q} : moving'[p] = moving[p] /\ (x # None => ~Moves(p, x)),
           moving'[q] # None => moving'[q].owner = Self(t),
           \A u \in Tasks \ {t} : /\ task'[u] = task[u]
                                  /\ Working(u) => task[u].rec.from # q,
           \A w \in Worktrees : Away(w) => Away(w)',
           \A w \in Worktrees \ {x} : entry'[w] = entry[w],
           \A p \in Places \ {q} : moving[p] # None =>
              rows'[p] \in {None, rows[p]} /\ ref'[p] \in {None, ref[p]},
           NEW u \in Tasks \ {t}, NEW f \in Fibers, task'[u] = f, f.rec # None
    PROVE  Brings(f)'
<1>1. task[u] = f /\ f.rec \in Records /\ f.rec.from \in Places
  BY RecOf
<1>2. CASE f.at # "dead"
  <2>1. f.at \in AtWork
    BY <1>1, <1>2 DEF IInv, FiberInv, Shaped, AtWork
  <2>2. /\ Working(u) /\ moving[f.rec.from] # None /\ Like(moving[f.rec.from], f.rec)
        /\ f.rec.from # q /\ f.rec.link \in Worktrees \cup {None}
    BY <1>1, <2>1, AtHand
  <2>3. f.rec.link # None => f.rec.link \in Worktrees \ {x}
    BY <1>1, <2>2 DEF Moves, Like
  <2>. QED  BY <1>1, <2>2, <2>3, BringStays
<1>3. CASE f.at = "dead" /\ f.rec.from # q
  BY <1>1, <1>3, BringStays
<1>4. CASE f.at = "dead" /\ f.rec.from = q
  <2>1. f.rec.owner = Self(u) \/ f.rec.owner \notin Running
    BY <1>1, <1>4 DEF IInv, DeadInv, At
  <2>2. Self(t) # Self(u) /\ Self(t) \in Running
    BY SelfOwns DEF OneFiber
  <2>3. moving'[q] # None => moving'[q].owner # f.rec.owner
    BY <2>1, <2>2
  <2>. QED  BY <1>4, <2>3 DEF Brings, Early
<1>. QED  BY <1>2, <1>3, <1>4

--------------------------------------------------------------------------------
(* Steps that change no record, nothing that is kept and not where git lists a *)
(* worktree.                                                                   *)

LEMMA StillKept ==
    ASSUME KeptInv, UNCHANGED <<entry, rows, ref, moving>>,
           \A u \in Tasks, f \in Fibers : task'[u] = f /\ f.rec # None =>
              task[u] = f \/ Brings(f)
    PROVE  KeptInv'
<1>1. RowHome' /\ RefHome' /\ RecHome'
  BY DEF KeptInv, RowHome, RefHome, RecHome, Homed, Key, Follows, Its, Away, Moves
<1>2. BringInv'
  <2> SUFFICES ASSUME NEW u \in Tasks, NEW f \in Fibers, task'[u] = f, f.rec # None
               PROVE  Brings(f)'
    BY DEF BringInv
  <2>1. Brings(f)
    BY DEF KeptInv, BringInv
  <2>. QED  BY <2>1 DEF Brings, Away
<1>. QED  BY <1>1, <1>2 DEF KeptInv

\* A worker's next step.
LEMMA GoKept ==
    ASSUME IInv, KeptInv, UNCHANGED <<entry, rows, ref, moving>>,
           NEW t \in Tasks, NEW f \in Fibers, task[t] = f,
           NEW step \in AtWork, Go(t, step),
           \A g \in Fibers : /\ g.at = step /\ g.rec = f.rec /\ g.own = f.own
                             /\ g.captured = f.captured /\ f.rec # None
                             => Brings(g)
    PROVE  KeptInv'
<1>1. /\ \A u \in Tasks \ {t} : task'[u] = task[u]
      /\ task'[t] = [f EXCEPT !.at = step]
  BY DEF Go, IInv, FiberInv
<1>2. /\ task'[t].at = step /\ task'[t].rec = f.rec /\ task'[t].own = f.own
      /\ task'[t].captured = f.captured
  BY <1>1 DEF Fibers
<1>. QED  BY <1>1, <1>2, StillKept

\* A fiber that puts its record down, or has none.
LEMMA DownKept ==
    ASSUME IInv, FoundInv, KeptInv, UNCHANGED <<entry, rows, ref, moving>>,
           NEW t \in Tasks, PutDown(t)
    PROVE  KeptInv'
  BY PutDownRests, StillKept

\* What a worker's step says of it.
LEMMA BringsNow ==
    ASSUME IInv, FoundInv, KeptInv, NEW t \in Tasks, NEW f \in Fibers, task[t] = f,
           f.at \in AtWork
    PROVE  /\ Brings(f) /\ Follows(f.rec.from)
           /\ f.rec.link # None => Moves(f.rec.from, f.rec.link)
  BY AtHand DEF KeptInv, BringInv, RecHome, Moves, Like

--------------------------------------------------------------------------------
(* git lists a worktree elsewhere, before what is kept of it is carried.       *)

LEMMA PointedKept ==
    ASSUME OneFiber, IInv, IInv', FoundInv, KeptInv,
           UNCHANGED <<rows, ref, moving, born>>,
           NEW t \in Tasks, NEW f \in Fibers, task[t] = f, f.at \in AtWork,
           f.rec.link # None, entry[f.rec.link] = f.rec.from, ~moving[f.rec.from].carried,
           NEW p \in {f.rec.to, Nested}, entry' = [entry EXCEPT ![f.rec.link] = p],
           NEW step \in {"carry", "judge"}, Go(t, step), ~f.rec.carried
    PROVE  KeptInv' /\ HomesStay
<1> DEFINE r == f.rec
           w == f.rec.link
           q == f.rec.from
<1>1. /\ q \in Places /\ q \in Spots /\ w \in Worktrees /\ Working(t) /\ r \in Records
      /\ q # None /\ q # Nested
      /\ moving[q] # None /\ moving[q].owner = Self(t) /\ moving[q].link = w
      /\ \A s \in Places : Moves(s, w) <=> s = q
  BY AtHand, PlaceAssumption DEF Spots, Like, Moves
<1>2. /\ entry'[w] = p /\ \A v \in Worktrees \ {w} : entry'[v] = entry[v]
  BY <1>1 DEF FoundInv, DiskInv
<1>3. \A v \in Worktrees : Away(v) => Away(v)'
  BY <1>1, <1>2 DEF Away
<1>4. \A v \in Worktrees \ {w}, s \in Spots : Homed(v, s) => Homed(v, s)'
  BY <1>2, HomedStays DEF Moves
<1>5. \A s \in Spots : Homed(w, s) => s = q
  BY <1>1 DEF Homed, Away, Key
<1>6. Homed(w, q)'
  BY <1>1 DEF Homed, Key, Moves
<1>7. RowHome'
  BY <1>4, <1>5, <1>6 DEF KeptInv, RowHome
<1>8. RefHome'
  <2> SUFFICES ASSUME NEW s \in Spots, NEW v \in Worktrees, ref[s] = v
               PROVE  Homed(v, s)' \/ (s \in Places /\ Moves(s, v)')
    BY DEF RefHome
  <2>1. Homed(v, s) \/ (s \in Places /\ Moves(s, v))
    BY DEF KeptInv, RefHome
  <2>. QED  BY <1>4, <1>5, <1>6, <2>1 DEF Moves
<1>9. RecHome'
  <2> SUFFICES ASSUME NEW s \in Places, moving[s] # None PROVE Follows(s)'
    BY DEF RecHome
  <2>1. Follows(s)
    BY DEF KeptInv, RecHome
  <2>2. \A v \in Worktrees : Its(s, v) => Its(s, v)'
    BY <1>1, <1>2, <1>3 DEF Its, Away
  <2>3. \A v \in Worktrees : Moves(s, v) /\ moving[s].carried => v # w
    BY <1>1
  <2>. QED  BY <1>2, <2>1, <2>2, <2>3 DEF Follows, Moves
<1>10. BringInv'
  <2> SUFFICES ASSUME NEW u \in Tasks, NEW g \in Fibers, task'[u] = g, g.rec # None
               PROVE  Brings(g)'
    BY DEF BringInv
  <2>0. \A v \in Tasks \ {t} : task'[v] = task[v]
    BY DEF Go, IInv, FiberInv
  <2>1. CASE u = t
    <3>1. g.at = step /\ g.rec = r
      BY <2>1 DEF Go, IInv, FiberInv, Fibers
    <3>2. moving[q].carried = FALSE /\ r.carried = FALSE
      BY <1>1, AtHand DEF Records
    <3>. QED  BY <1>1, <1>2, <3>1, <3>2 DEF Brings, Early
  <2>2. CASE u # t
    <3>1. \A v \in Tasks \ {t} : Working(v) => task[v].rec.from # q
      BY <1>1 DEF IInv, OneWorker
    <3>. QED  BY <1>1, <1>2, <1>3, <2>0, <2>2, <3>1, OthersBring
  <2>. QED  BY <2>1, <2>2
<1>11. HomesStay
  <2>1. ASSUME NEW v \in Worktrees, NEW s \in Places, moving[s] # None, ~moving[s].carried,
               Its(s, v)
        PROVE  Its(s, v)'
    BY <1>1, <1>2, <1>3, <2>1 DEF Its, Away
  <2>. QED  BY <1>3, <1>4, <1>5, <1>6, <2>1 DEF HomesStay
<1>. QED  BY <1>7, <1>8, <1>9, <1>10, <1>11 DEF KeptInv

LEMMA RecordsKept ==
    ASSUME OneFiber, IInv, IInv', FoundInv, KeptInv, NEW t \in Tasks,
           GitRecords(t) \/ GitNests(t) \/ Repair(t)
    PROVE  KeptInv' /\ HomesStay /\ task[t].rec.link # None
<1>1. PICK f \in Fibers : task[t] = f
  BY DEF IInv, FiberInv
<1> DEFINE r == f.rec
           w == f.rec.link
<1>2. /\ f.at \in {"renamed", "claimed", "placed"} /\ Go(t, "carry")
      /\ UNCHANGED <<rows, ref, moving, born>>
  BY <1>1 DEF GitRecords, GitNests, Repair, At, kept
<1>3. f.at \in AtWork
  BY <1>2 DEF AtWork, InHand, Steps
<1>4. /\ Brings(f) /\ Fine(f) /\ r.from \in Places /\ r.from \in Spots /\ r.to \in Spots
      /\ w \in Worktrees \cup {None}
  BY <1>1, <1>3, BringsNow, AtHand DEF Spots
<1>5. ~moving[r.from].carried /\ ~r.carried
  <2>1. f.at \in Early
    BY <1>2 DEF Early
  <2>. QED  BY <1>4, <2>1 DEF Brings
<1>6. /\ w # None /\ entry[w] = r.from
      /\ entry' \in {[entry EXCEPT ![w] = r.to], [entry EXCEPT ![w] = Nested]}
  <2>1. CASE GitRecords(t)
    BY <1>1, <1>4, <2>1 DEF GitRecords, At, Fine, Renamed
  <2>2. CASE GitNests(t)
    BY <1>1, <2>2 DEF GitNests, GitCan, Holds
  <2>3. CASE Repair(t)
    <3>1. /\ entry' = Repaired(r.to) /\ f.at = "placed"
          /\ w # None /\ WholeAt(w, r.to) /\ entry[w] = r.from
      BY <1>1, <1>4, <2>3 DEF Repair, At, Fine
    <3>. QED  BY <1>4, <3>1, RepairsOne, HeldIsFolder
  <2>. QED  BY <2>1, <2>2, <2>3
<1>. QED  BY <1>1, <1>2, <1>3, <1>5, <1>6, PointedKept

\* A resume does it for one that a crash left renamed and not listed: that one was
\* not carried, or git would list it where it went.
LEMMA RelinkKept ==
    ASSUME OneFiber, IInv, IInv', FoundInv, KeptInv, NEW t \in Tasks, Relink(t)
    PROVE  KeptInv' /\ HomesStay /\ task[t].rec.link # None
<1>1. PICK f \in Fibers : task[t] = f
  BY DEF IInv, FiberInv
<1> DEFINE r == f.rec
           w == f.rec.link
<1>2. /\ f.at \in {"relink", "taken"} /\ (f.at = "taken" => Unlinked(r))
      /\ entry' = Repaired(r.to) /\ UNCHANGED <<rows, ref, moving, born>>
      /\ \E step \in {"carry", "judge"} : Go(t, step)
  BY <1>1 DEF Relink, At, kept
<1>3. f.at \in AtWork
  BY <1>2 DEF AtWork, InHand, Steps
<1>4. /\ Brings(f) /\ Fine(f) /\ Follows(r.from) /\ (w # None => Moves(r.from, w))
      /\ r.from \in Places /\ r.from \in Spots /\ r.to \in Spots /\ r.from # r.to
      /\ w \in Worktrees \cup {None} /\ (w # None => Sits(r))
      /\ Like(moving[r.from], r) /\ r.from # Nested
  BY <1>1, <1>3, BringsNow, AtHand, PlaceAssumption DEF Spots
<1>5. w # None /\ Renamed(r)
  <2>1. CASE f.at = "relink"
    BY <1>4, <2>1 DEF Fine, Renamed
  <2>2. CASE f.at = "taken"
    <3>1. /\ w # None /\ disk[r.from] = None /\ Holds(r.to, w) /\ ~Listed(r.to)
      BY <1>2, <2>2 DEF Unlinked, MovedOnDisk, Holds
    <3>2. entry[w] # r.to
      BY <1>4, <3>1 DEF Listed
    <3>3. ~WholeAt(w, r.from)
      BY <1>4, <3>1, HeldIsFolder
    <3>. QED  BY <1>4, <3>1, <3>2, <3>3 DEF Sits, Renamed
  <2>. QED  BY <1>2, <2>1, <2>2
<1>6. entry' = [entry EXCEPT ![w] = r.to] /\ entry[w] = r.from
  BY <1>2, <1>4, <1>5, RepairsOne, HeldIsFolder DEF Renamed
<1>7. ~moving[r.from].carried
  BY <1>4, <1>5, <1>6 DEF Follows, Like
<1>8. ~r.carried
  BY <1>2, <1>4, <1>7 DEF Brings, Early
<1>. QED  BY <1>1, <1>2, <1>3, <1>5, <1>6, <1>7, <1>8, PointedKept

--------------------------------------------------------------------------------
(* A record is made, marked and taken over.                                    *)

\* The row is marked or its owner's name written, and no more.
LEMMA MarkKept ==
    ASSUME OneFiber, IInv, FoundInv, KeptInv, UNCHANGED <<entry, rows, ref, born>>,
           NEW t \in Tasks, NEW q \in Places, moving[q] # None,
           NEW m \in Records, moving' = [moving EXCEPT ![q] = m],
           m.to = moving[q].to, m.link = moving[q].link, m.carried = moving[q].carried,
           m.owner = Self(t),
           \A u \in Tasks \ {t} : /\ task'[u] = task[u]
                                  /\ Working(u) => task[u].rec.from # q,
           NEW f \in Fibers, task'[t] = f, Brings(f)'
    PROVE  KeptInv' /\ HomesStay
<1>1. /\ moving'[q] = m /\ m # None
      /\ \A p \in Places \ {q} : moving'[p] = moving[p]
  BY NoneAssumption DEF IInv, RecordInv
<1>2. PICK x \in Worktrees \cup {None} : x = moving[q].link
  BY KnownRow
<1>3. \A p \in Places : /\ moving'[p] # None <=> moving[p] # None
                        /\ moving[p] # None => /\ moving'[p].to = moving[p].to
                                               /\ moving'[p].link = moving[p].link
                                               /\ moving'[p].carried = moving[p].carried
  BY <1>1
<1>4. \A p \in Places, w \in Worktrees : Moves(p, w)' <=> Moves(p, w)
  BY <1>3 DEF Moves
<1>5. \A w \in Worktrees, s \in Spots : Homed(w, s)' <=> Homed(w, s)
  BY <1>3, <1>4, HomedStays DEF Moves
<1>6. RowHome' /\ RefHome'
  BY <1>4, <1>5 DEF KeptInv, RowHome, RefHome
<1>7. RecHome'
  BY <1>3, <1>4 DEF KeptInv, RecHome, Follows, Its, Away
<1>8. BringInv'
  <2> SUFFICES ASSUME NEW u \in Tasks, NEW g \in Fibers, task'[u] = g, g.rec # None
               PROVE  Brings(g)'
    BY DEF BringInv
  <2>1. CASE u = t
    BY <2>1
  <2>2. CASE u # t
    <3>1. \A p \in Places \ {q} : x # None => ~Moves(p, x)
      BY <1>2 DEF FoundInv, RowsInv, Moves
    <3>2. \A w \in Worktrees : Away(w) => Away(w)'
      BY DEF Away
    <3>. QED  BY <1>1, <2>2, <3>1, <3>2, OthersBring
  <2>. QED  BY <2>1, <2>2
<1>9. HomesStay
  BY <1>3, <1>5 DEF HomesStay, Its, Away
<1>. QED  BY <1>6, <1>7, <1>8, <1>9 DEF KeptInv

LEMMA CrossKept ==
    ASSUME OneFiber, IInv, IInv', FoundInv, KeptInv, NEW t \in Tasks, Cross(t)
    PROVE  KeptInv' /\ HomesStay
<1>1. PICK f \in Fibers : task[t] = f
  BY DEF IInv, FiberInv
<1> DEFINE r == f.rec
           q == f.rec.from
           row == moving[q]
<1>2. f.at = "claimed" /\ UNCHANGED <<entry, rows, ref, born>>
  BY <1>1 DEF Cross, At, disks, kept
<1>3. f.at \in AtWork
  BY <1>2 DEF AtWork, InHand, Steps
<1>4. /\ q \in Places /\ r \in Records /\ Working(t) /\ Brings(f)
      /\ row \in Records /\ row # None /\ row.owner = Self(t)
  BY <1>1, <1>3, AtHand, BringsNow
<1>5. PICK m \in Records : m = [row EXCEPT !.partial = TRUE]
  BY <1>4 DEF Records
<1>6. /\ moving' = [moving EXCEPT ![q] = m] /\ m.to = row.to /\ m.link = row.link
      /\ m.carried = row.carried /\ m.owner = Self(t)
  <2>1. moving' = [moving EXCEPT ![q] =
                      IF @ = None THEN None ELSE [@ EXCEPT !.partial = TRUE]]
    BY <1>1 DEF Cross
  <2>2. moving' = [moving EXCEPT ![q] = m]
    BY <1>4, <1>5, <2>1 DEF IInv, RecordInv
  <2>. QED  BY <1>4, <1>5, <2>2 DEF Records
<1>7. /\ \A u \in Tasks \ {t} : task'[u] = task[u]
      /\ task'[t] = [f EXCEPT !.at = "copying", !.rec.partial = TRUE]
  BY <1>1 DEF Cross, IInv, FiberInv
<1>8. ASSUME NEW g \in Fibers, task'[t] = g PROVE Brings(g)'
  <2>1. g.at = "copying" /\ g.rec = [r EXCEPT !.partial = TRUE]
    BY <1>7, <1>8 DEF Fibers
  <2>2. g.rec.from = q /\ g.rec.carried = r.carried
    BY <1>4, <2>1 DEF Records
  <2>3. row.carried = r.carried /\ ~row.carried
    BY <1>2, <1>4 DEF Brings, Early
  <2>4. moving'[q] = m
    BY <1>4, <1>6 DEF IInv, RecordInv
  <2>. QED  BY <1>6, <2>1, <2>2, <2>3, <2>4 DEF Brings
<1>9. \A u \in Tasks \ {t} : Working(u) => task[u].rec.from # q
  BY <1>1, <1>4 DEF IInv, OneWorker
<1>10. \A u \in Tasks \ {t} : /\ task'[u] = task[u]
                              /\ Working(u) => task[u].rec.from # q
  BY <1>7, <1>9
<1>11. PICK g \in Fibers : task'[t] = g
  BY DEF IInv, FiberInv
<1>12. Brings(g)'
  BY <1>8, <1>11
<1>. QED  BY <1>2, <1>4, <1>6, <1>10, <1>11, <1>12, MarkKept

\* What is taken over is carried, or is not, as it was when it was looked at.
LEMMA TakeOverKept ==
    ASSUME Sound, IInv, IInv', FoundInv, KeptInv, NEW t \in Tasks, TakeOver(t)
    PROVE  KeptInv' /\ HomesStay
<1>1. PICK f \in Fibers : task[t] = f
  BY DEF IInv, FiberInv
<1> DEFINE r == f.rec
           q == f.rec.from
           row == moving[q]
<1>2. f.at = "dead" /\ UNCHANGED <<entry, rows, ref, born>>
  BY <1>1 DEF TakeOver, At, disks, kept
<1>3. r # None /\ r \in Records /\ q \in Places
  <2>1. r # None
    BY <1>1, <1>2 DEF IInv, FiberInv, Shaped, InHand, Steps
  <2>. QED  BY <2>1, RecOf
<1>4. CASE /\ UNCHANGED moving
           /\ task' = [task EXCEPT ![t].at = "next", ![t].rec = None]
  <2>1. /\ \A u \in Tasks \ {t} : task'[u] = task[u]
        /\ \A g \in Fibers : task'[t] = g => g.rec = None
    BY <1>1, <1>4 DEF IInv, FiberInv, Fibers
  <2>. QED  BY <1>2, <1>4, <2>1, StillKept, SameHomes
<1>5. CASE /\ row # None /\ row.owner = r.owner
           /\ moving' = [moving EXCEPT ![q] = [row EXCEPT !.owner = Self(t)]]
           /\ task' = [task EXCEPT ![t].at = "taken",
                                   ![t].rec.owner = [row EXCEPT !.owner = Self(t)].owner]
  <2>1. row.carried = r.carried /\ row \in Records
    BY <1>1, <1>2, <1>3, <1>5, KnownRow DEF KeptInv, BringInv, Brings
  <2>2. PICK o \in Owners : o = Self(t)
    BY SelfOwns
  <2>3. PICK m \in Records : m = [row EXCEPT !.owner = o]
    BY <2>1 DEF Records
  <2>4. /\ m.to = row.to /\ m.link = row.link /\ m.carried = row.carried
        /\ m.owner = Self(t) /\ moving' = [moving EXCEPT ![q] = m]
    BY <1>5, <2>1, <2>2, <2>3 DEF Records
  <2>5. task' = [task EXCEPT ![t].at = "taken", ![t].rec.owner = o]
    BY <1>5, <2>1, <2>2 DEF Records
  <2>6. /\ \A u \in Tasks \ {t} : task'[u] = task[u]
        /\ task'[t] = [f EXCEPT !.at = "taken", !.rec.owner = o]
    BY <1>1, <2>5 DEF IInv, FiberInv
  <2>7. ASSUME NEW g \in Fibers, task'[t] = g
        PROVE  g.at = "taken" /\ g.rec.from = q /\ g.rec.carried = r.carried
    <3>1. g.at = "taken" /\ g.rec = [r EXCEPT !.owner = o]
      BY <2>6, <2>7 DEF Fibers
    <3>. QED  BY <1>3, <3>1 DEF Records
  <2>8. moving'[q] = m
    BY <1>3, <2>4 DEF IInv, RecordInv
  <2>9. \A g \in Fibers : task'[t] = g => Brings(g)'
    BY <2>1, <2>4, <2>7, <2>8 DEF Brings, Early
  <2>10. \A u \in Tasks \ {t} : Working(u) => task[u].rec.from # q
    <3> SUFFICES ASSUME NEW u \in Tasks \ {t}, Working(u), task[u].rec.from = q
                 PROVE  FALSE
      OBVIOUS
    <3>1. PICK g \in Fibers : task'[t] = g
      BY DEF IInv, FiberInv
    <3>2. g.at = "taken" /\ g.rec.from = q
      BY <2>7, <3>1
    <3>3. g.rec # None
      BY <3>1, <3>2 DEF IInv, FiberInv, Shaped, InHand, Steps
    <3>4. Working(t)' /\ task'[t].rec.from = q
      BY <3>1, <3>2, <3>3 DEF Working, At
    <3>5. Working(u)' /\ task'[u].rec.from = q
      BY <2>6 DEF Working, At
    <3>. QED  BY <3>4, <3>5 DEF IInv, OneWorker
  <2>11. \A u \in Tasks \ {t} : /\ task'[u] = task[u]
                                /\ Working(u) => task[u].rec.from # q
    BY <2>6, <2>10
  <2>12. PICK g \in Fibers : task'[t] = g
    BY DEF IInv, FiberInv
  <2>14. Brings(g)'
    BY <2>9, <2>12
  <2>13. row # None /\ OneFiber
    BY <1>5 DEF Sound
  <2>. QED  BY <1>2, <1>3, <2>4, <2>11, <2>12, <2>13, <2>14, MarkKept
<1>. QED  BY <1>1, <1>4, <1>5 DEF TakeOver

\* No record names either folder, so what is under the id left is of what is there.
LEMMA ClaimKept ==
    ASSUME OneFiber, IInv, IInv', FoundInv, KeptInv, NEW t \in Tasks, Claim(t)
    PROVE  KeptInv' /\ HomesStay
<1>1. PICK f \in Fibers : task[t] = f
  BY DEF IInv, FiberInv
<1> DEFINE mv == f.move
           q == f.move.from
           link == IF Holds(mv.from, mv.link) THEN mv.link ELSE None
           rec == [from |-> mv.from, to |-> mv.to, link |-> link, carried |-> FALSE,
                   partial |-> FALSE, owner |-> Self(t)]
           idle == [Idle EXCEPT !.at = "claimed", !.rec = rec, !.own = TRUE]
<1>2. /\ f.at \in {"asked", "again"} /\ Others(mv) = {}
      /\ moving' = [moving EXCEPT ![mv.from] = rec]
      /\ task' = [task EXCEPT ![t] = idle]
      /\ UNCHANGED <<disk, entry, rows, ref, born>>
  BY <1>1 DEF Claim, At, disks, kept
<1>3. /\ q \in Places /\ q \in Spots /\ mv.to \in Places /\ mv.link \in Worktrees
  BY <1>1, <1>2 DEF IInv, FiberInv, Shaped, Asked, Spots
<1>4. Named(q) = {}
  BY <1>2 DEF Others
<1>5. PICK x \in Worktrees \cup {None} : x = link
  BY <1>3
<1>6. PICK m \in Records : m = rec
  <2>1. Self(t) \in Owners
    BY SelfOwns
  <2>. QED  BY <1>3, <1>5, <2>1 DEF Records
<1>7. /\ m.from = q /\ m.link = x /\ ~m.carried /\ m.owner = Self(t) /\ m # None
  BY <1>5, <1>6, NoneAssumption
<1>8. x # None => /\ Holds(q, x) /\ entry[x] = q /\ WholeAt(x, q)
                  /\ \A p \in Places : ~Moves(p, x)
  BY <1>3, <1>4, <1>5, Unnamed
<1>9. /\ moving[q] = None /\ moving'[q] = m
      /\ \A p \in Places \ {q} : /\ moving'[p] = moving[p]
                                 /\ moving[p] # None => moving[p].to # q
  BY <1>2, <1>3, <1>4, <1>6 DEF IInv, RecordInv, Named
<1>10. \A w \in Worktrees \ {x} : /\ \A p \in Places : Moves(p, w)' <=> Moves(p, w)
                                  /\ \A p \in Spots : Homed(w, p)' <=> Homed(w, p)
  <2> SUFFICES ASSUME NEW w \in Worktrees \ {x}
               PROVE  /\ \A p \in Places : Moves(p, w)' <=> Moves(p, w)
                      /\ \A p \in Spots : Homed(w, p)' <=> Homed(w, p)
    OBVIOUS
  <2>1. \A p \in Places : Moves(p, w)' <=> Moves(p, w)
    BY <1>7, <1>9 DEF Moves
  <2>2. \A p \in Places : Moves(p, w) => moving'[p] = moving[p]
    BY <1>9 DEF Moves
  <2>. QED  BY <1>2, <2>1, <2>2, HomedStays
<1>11. ASSUME x # None
       PROVE  \A p \in Spots : /\ Homed(x, p) => p = q
                               /\ (p \in Places /\ Moves(p, x)) => FALSE
                               /\ Homed(x, q)'
  <2>1. \A p \in Spots : Homed(x, p) => p = q
    BY <1>3, <1>8, <1>11, PlaceAssumption DEF Homed, Away
  <2>2. Homed(x, q)'
    BY <1>3, <1>7, <1>9, <1>11 DEF Homed, Moves, Key
  <2>. QED  BY <1>8, <1>11, <2>1, <2>2
<1>12. RowHome' /\ RefHome'
  BY <1>2, <1>10, <1>11, PlaceAssumption DEF KeptInv, RowHome, RefHome
<1>13. \A w \in Worktrees : Homed(w, q) => x = w \/ Away(w) \/ (x = None /\ entry[w] = q)
  <2> SUFFICES ASSUME NEW w \in Worktrees, Homed(w, q), ~Away(w), x # w
               PROVE  x = None /\ entry[w] = q
    OBVIOUS
  <2>1. \A p \in Places : Moves(p, w) => Key(p) # q
    BY <1>9 DEF Key, Moves
  <2>2. entry[w] = q /\ \A p \in Places : ~Moves(p, w)
    BY <2>1 DEF Homed
  <2>3. WholeAt(w, q)
    BY <1>3, <2>2 DEF FoundInv, SettledInv, Settled
  <2>4. x # None => WholeAt(x, q)
    BY <1>8
  <2>5. x = None
    BY <1>3, <2>3, <2>4, HeldIsFolder
  <2>. QED  BY <2>2, <2>5
<1>14. RecHome'
  <2> SUFFICES ASSUME NEW p \in Places, moving'[p] # None PROVE Follows(p)'
    BY DEF RecHome
  <2>1. CASE p # q
    <3>1. Follows(p) /\ moving'[p] = moving[p]
      BY <1>9, <2>1 DEF KeptInv, RecHome
    <3>. QED  BY <1>2, <3>1 DEF Follows, Its, Away, Moves
  <2>2. CASE p = q
    <3>1. \A w \in Worktrees : rows[q] = w \/ ref[q] = w => Homed(w, q)
      BY <1>3, <1>9 DEF KeptInv, RowHome, RefHome, Moves
    <3>2. \A w \in Worktrees : rows[q] = w \/ ref[q] = w => Its(q, w)'
      BY <1>2, <1>7, <1>9, <1>13, <3>1 DEF Its, Away
    <3>. QED  BY <1>2, <1>7, <1>9, <2>2, <3>2 DEF Follows
  <2>. QED  BY <2>1, <2>2
<1>15. BringInv'
  <2> SUFFICES ASSUME NEW u \in Tasks, NEW g \in Fibers, task'[u] = g, g.rec # None
               PROVE  Brings(g)'
    BY DEF BringInv
  <2>0. \A v \in Tasks \ {t} : task'[v] = task[v]
    BY <1>2 DEF IInv, FiberInv
  <2>1. CASE u = t
    <3>1. g.at = "claimed" /\ g.rec = m
      BY <1>2, <1>6, <2>1 DEF IInv, FiberInv, Idle
    <3>. QED  BY <1>7, <1>9, <3>1 DEF Brings
  <2>2. CASE u # t
    <3>1. \A v \in Tasks \ {t} : Working(v) => task[v].rec.from # q
      BY <1>9 DEF IInv, HandInv, Held
    <3>2. \A w \in Worktrees : Away(w) => Away(w)'
      BY <1>2 DEF Away
    <3>3. \A p \in Places \ {q} : x # None => ~Moves(p, x)
      BY <1>8
    <3>. QED  BY <1>2, <1>3, <1>7, <1>9, <2>0, <2>2, <3>1, <3>2, <3>3, OthersBring
  <2>. QED  BY <2>1, <2>2
<1>16. HomesStay
  <2>1. \A w \in Worktrees, p \in Spots : Homed(w, p) => Homed(w, p)'
    BY <1>10, <1>11, PlaceAssumption
  <2>2. ASSUME NEW w \in Worktrees, NEW p \in Places \ {q}, Its(p, w)
        PROVE  Its(p, w)'
    BY <1>2, <1>9, <2>2 DEF Its, Away
  <2>3. ASSUME NEW w \in Worktrees, Homed(w, q)
        PROVE  Its(q, w)'
    BY <1>2, <1>7, <1>9, <1>13, <2>3 DEF Its, Away
  <2>4. \A w \in Worktrees : Away(w) => Away(w)'
    BY <1>2 DEF Away
  <2>. QED  BY <1>9, <2>1, <2>2, <2>3, <2>4 DEF HomesStay
<1>. QED  BY <1>2, <1>12, <1>14, <1>15, <1>16 DEF KeptInv

--------------------------------------------------------------------------------
(* The carry of what is kept.                                                  *)

\* What was under the id left is under the new one, and was of the worktree moved.
LEMMA CarryKept ==
    ASSUME OneFiber, IInv, IInv', FoundInv, KeptInv, NEW t \in Tasks, Carry(t)
    PROVE  /\ KeptInv'
           /\ \A v \in Worktrees, p \in Spots :
                 Homed(v, p) /\ p # task[t].rec.from => Homed(v, p)'
<1>1. PICK f \in Fibers : task[t] = f
  BY DEF IInv, FiberInv
<1> DEFINE r == f.rec
           q == f.rec.from
           to == f.rec.to
           w == f.rec.link
           row == moving[q]
<1>2. /\ f.at = "carry" /\ Go(t, "ref") /\ UNCHANGED <<entry, ref, born>>
  BY <1>1 DEF Carry, At, disks
<1>3. f.at \in AtWork /\ "ref" \in AtWork
  BY <1>2 DEF AtWork, InHand, Steps
<1>4. /\ q \in Places /\ to \in Places /\ q \in Spots /\ to \in Spots /\ q # to
      /\ r \in Records /\ w \in Worktrees \cup {None} /\ Working(t)
      /\ row \in Records /\ row # None /\ row.owner = Self(t)
      /\ row.to = to /\ row.link = w
      /\ (w # None => \A p \in Places : Moves(p, w) <=> p = q)
  BY <1>1, <1>3, AtHand DEF Spots, Like, Moves
<1>5. /\ row.carried = r.carried /\ Follows(q) /\ Brings(f)
      /\ w # None => entry[w] \in {to, Nested}
      /\ w = None => \A v \in Worktrees : /\ rows[q] = v /\ ~row.carried => Away(v)
                                          /\ ref[q] = v => Away(v)
  BY <1>1, <1>2, <1>3, BringsNow DEF Brings, Early
<1>6. CASE r.carried /\ UNCHANGED <<rows, moving>>
  <2>1. \A g \in Fibers : g.at = "ref" /\ g.rec = f.rec => Brings(g)
    BY <1>5, <1>6 DEF Brings, Early
  <2>. QED  BY <1>1, <1>2, <1>3, <1>6, <2>1, GoKept, SameHomes DEF HomesStay
<1>7. CASE /\ ~r.carried
           /\ rows' = IF rows[q] = None THEN rows
                      ELSE [rows EXCEPT ![to] = rows[q], ![q] = None]
           /\ moving' = [moving EXCEPT ![q] =
                            IF @ = None THEN None ELSE [@ EXCEPT !.carried = TRUE]]
  <2>1. PICK m \in Records : m = [row EXCEPT !.carried = TRUE]
    BY <1>4 DEF Records
  <2>2. /\ moving'[q] = m /\ \A p \in Places \ {q} : moving'[p] = moving[p]
    BY <1>4, <1>7, <2>1 DEF IInv, RecordInv
  <2>3. m.to = to /\ m.link = w /\ m.carried /\ m.owner = Self(t) /\ m # None
    BY <1>4, <2>1, NoneAssumption DEF Records
  <2>4. /\ \A p \in Spots \ {q, to} : rows'[p] = rows[p]
        /\ rows'[q] = None
        /\ rows'[to] = IF rows[q] = None THEN rows[to] ELSE rows[q]
        /\ rows' \in [Spots -> Worktrees \cup {None}]
    BY <1>4, <1>7 DEF KeptInv
  <2>5. \A v \in Worktrees, p \in Places : Moves(p, v)' <=> Moves(p, v)
    BY <1>4, <2>2, <2>3 DEF Moves
  <2>6. \A v \in Worktrees, p \in Spots : Homed(v, p) /\ p # q => Homed(v, p)'
    <3> SUFFICES ASSUME NEW v \in Worktrees, NEW p \in Spots, Homed(v, p), p # q
                 PROVE  Homed(v, p)'
      OBVIOUS
    <3>1. CASE Away(v)
      BY <1>2, <3>1 DEF Homed, Away
    <3>2. CASE entry[v] = p /\ \A s \in Places : ~Moves(s, v)
      BY <1>2, <2>5, <3>2 DEF Homed
    <3>3. ASSUME NEW s \in Places, Moves(s, v), p = Key(s) PROVE Homed(v, p)'
      <4>1. s # q
        BY <1>5, <1>7, <3>3 DEF Key
      <4>2. Moves(s, v)' /\ p = IF moving'[s].carried THEN moving'[s].to ELSE s
        BY <2>2, <2>5, <3>3, <4>1 DEF Key
      <4>. QED  BY <4>2 DEF Homed, Key
    <3>. QED  BY <3>1, <3>2, <3>3 DEF Homed
  <2>7. \A v \in Worktrees : Its(q, v) /\ (w # None \/ Away(v)) => Homed(v, to)'
    <3> SUFFICES ASSUME NEW v \in Worktrees, v = w \/ Away(v) PROVE Homed(v, to)'
      BY <1>4, PlaceAssumption DEF Its
    <3>1. v = w => Moves(q, v) /\ v # None
      BY <1>4, PlaceAssumption
    <3>. QED  BY <1>2, <1>4, <2>2, <2>3, <2>5, <3>1 DEF Homed, Key, Away
  <2>8. RowHome'
    <3> SUFFICES ASSUME NEW p \in Spots, NEW v \in Worktrees, rows'[p] = v
                 PROVE  Homed(v, p)'
      BY DEF RowHome
    <3>1. p # q /\ v # None
      BY <2>4, PlaceAssumption
    <3>2. CASE rows[p] = v
      BY <2>6, <3>1, <3>2 DEF KeptInv, RowHome
    <3>3. CASE rows[p] # v
      <4>1. p = to /\ rows[q] = v
        BY <2>4, <3>1, <3>3
      <4>2. Its(q, v) /\ (w # None \/ Away(v))
        BY <1>5, <1>7, <4>1 DEF Follows
      <4>. QED  BY <2>7, <4>1, <4>2
    <3>. QED  BY <3>2, <3>3
  <2>9. RefHome'
    <3> SUFFICES ASSUME NEW p \in Spots, NEW v \in Worktrees, ref[p] = v
                 PROVE  Homed(v, p)' \/ (p \in Places /\ Moves(p, v)')
      BY <1>2 DEF RefHome
    <3>1. Homed(v, p) \/ (p \in Places /\ Moves(p, v))
      BY DEF KeptInv, RefHome
    <3>2. CASE p # q
      BY <2>5, <2>6, <3>1, <3>2
    <3>3. CASE p = q
      <4>1. Its(q, v) /\ (w = None => Away(v))
        BY <1>5, <3>3 DEF Follows
      <4>2. v = w \/ Away(v)
        BY <1>4, <4>1 DEF Its
      <4>3. v = w => Moves(q, v)'
        BY <1>4, <2>5, PlaceAssumption
      <4>4. Away(v) => Homed(v, p)'
        BY <1>2 DEF Homed, Away
      <4>. QED  BY <1>4, <3>3, <4>2, <4>3, <4>4
    <3>. QED  BY <3>2, <3>3
  <2>10. RecHome'
    <3> SUFFICES ASSUME NEW p \in Places, moving'[p] # None PROVE Follows(p)'
      BY DEF RecHome
    <3>1. CASE p # q
      <4>1. moving'[p] = moving[p] /\ moving[p] # None /\ Follows(p)
        BY <2>2, <3>1 DEF KeptInv, RecHome
      <4>2. p # to /\ p \in Spots
        BY <1>4, <4>1 DEF FoundInv, RowsInv, Spots
      <4>3. rows'[p] = rows[p]
        BY <2>4, <3>1, <4>2
      <4>. QED  BY <1>2, <4>1, <4>3 DEF Follows, Its, Away, Moves
    <3>2. CASE p = q
      <4>1. \A v \in Worktrees : ref[q] = v => Its(q, v)'
        BY <1>2, <1>4, <1>5, <2>2, <2>3 DEF Follows, Its, Away
      <4>2. \A v \in Worktrees : Moves(q, v)' => v = w /\ w # None
        BY <2>2, <2>3, PlaceAssumption DEF Moves
      <4>. QED  BY <1>2, <1>5, <2>2, <2>3, <3>2, <4>1, <4>2 DEF Follows
    <3>. QED  BY <3>1, <3>2
  <2>11. BringInv'
    <3> SUFFICES ASSUME NEW u \in Tasks, NEW g \in Fibers, task'[u] = g, g.rec # None
                 PROVE  Brings(g)'
      BY DEF BringInv
    <3>0. \A v \in Tasks \ {t} : task'[v] = task[v]
      BY <1>2 DEF Go, IInv, FiberInv
    <3>1. CASE u = t
      <4>1. g.at = "ref" /\ g.rec = r
        BY <1>1, <1>2, <3>1 DEF Go, IInv, FiberInv, Fibers
      <4>2. w = None => \A v \in Worktrees : ref[q] = v => Away(v)
        BY <1>5
      <4>. QED  BY <1>2, <2>2, <2>3, <4>1, <4>2 DEF Brings, Away, Early
    <3>2. CASE u # t
      <4>1. \A v \in Tasks \ {t} : Working(v) => task[v].rec.from # q
        BY <1>1, <1>4 DEF IInv, OneWorker
      <4>2. \A v \in Worktrees : Away(v) => Away(v)'
        BY <1>2 DEF Away
      <4>3. \A p \in Places \ {q} : moving[p] # None => rows'[p] = rows[p]
        BY <1>4, <2>4 DEF FoundInv, RowsInv, Spots
      <4>4. \A p \in Places \ {q} : w # None => ~Moves(p, w)
        BY <1>4
      <4>. QED
        BY <1>2, <1>4, <2>2, <2>3, <3>0, <3>2, <4>1, <4>2, <4>3, <4>4, OthersBring
    <3>. QED  BY <3>1, <3>2
  <2>. QED  BY <1>1, <1>2, <2>4, <2>6, <2>8, <2>9, <2>10, <2>11 DEF KeptInv
<1>. QED
  BY <1>1, <1>6, <1>7 DEF Carry

\* The capture goes with the rows, once they are carried, and then leaves the old id.
LEMMA CaptureKept ==
    ASSUME OneFiber, IInv, IInv', FoundInv, KeptInv, UNCHANGED <<entry, rows, moving, born>>,
           NEW t \in Tasks, NEW f \in Fibers, task[t] = f, f.at \in {"ref", "refdrop"},
           ref' \in {ref, [ref EXCEPT ![f.rec.to] = ref[f.rec.from]],
                     [ref EXCEPT ![f.rec.from] = None]},
           \A u \in Tasks \ {t} : task'[u] = task[u],
           NEW g \in Fibers, task'[t] = g, g.rec = f.rec,
           g.at \in {"refdrop", "wipefrom", "forget"},
           g.at # "refdrop" /\ g.captured => ref'[f.rec.from] = None
    PROVE  KeptInv'
<1> DEFINE r == f.rec
           q == f.rec.from
           to == f.rec.to
           w == f.rec.link
           row == moving[q]
<1>1. f.at \in AtWork
  BY DEF AtWork, InHand, Steps
<1>2. /\ q \in Places /\ to \in Places /\ q \in Spots /\ to \in Spots /\ q # to
      /\ w \in Worktrees \cup {None} /\ Working(t)
      /\ row # None /\ row.owner = Self(t) /\ row.to = to /\ row.link = w
      /\ (w # None => \A p \in Places : Moves(p, w) <=> p = q)
  BY <1>1, AtHand DEF Spots, Like, Moves
<1>3. /\ row.carried /\ Follows(q)
      /\ w = None => \A v \in Worktrees : ref[q] = v => Away(v)
  BY <1>1, BringsNow DEF Brings
<1>4. /\ \A p \in Spots \ {q, to} : ref'[p] = ref[p]
      /\ ref'[q] \in {None, ref[q]} /\ ref'[to] \in {ref[to], ref[q]}
      /\ ref' \in [Spots -> Worktrees \cup {None}]
  BY <1>2 DEF KeptInv
<1>5. \A p \in Places \ {q} : moving[p] # None => ref'[p] = ref[p]
  BY <1>2, <1>4 DEF FoundInv, RowsInv, Spots
<1>6. \A v \in Worktrees, p \in Spots : /\ Homed(v, p)' <=> Homed(v, p)
                                        /\ Moves(p, v)' <=> Moves(p, v)
  BY HomedStays DEF Moves
<1>7. RowHome'
  BY <1>6 DEF KeptInv, RowHome
<1>8. \A v \in Worktrees : ref[q] = v => Homed(v, to)
  <2> SUFFICES ASSUME NEW v \in Worktrees, ref[q] = v PROVE Homed(v, to)
    OBVIOUS
  <2>1. v = w \/ Away(v)
    BY <1>2, <1>3 DEF Follows, Its
  <2>2. v = w => Moves(q, v)
    BY <1>2, PlaceAssumption
  <2>. QED  BY <1>2, <1>3, <2>1, <2>2 DEF Homed, Key
<1>9. RefHome'
  <2> SUFFICES ASSUME NEW p \in Spots, NEW v \in Worktrees, ref'[p] = v
               PROVE  Homed(v, p)' \/ (p \in Places /\ Moves(p, v)')
    BY DEF RefHome
  <2>1. CASE ref[p] = v
    BY <1>6, <2>1 DEF KeptInv, RefHome
  <2>2. CASE ref[p] # v
    BY <1>2, <1>4, <1>6, <1>8, <2>2, PlaceAssumption
  <2>. QED  BY <2>1, <2>2
<1>10. RecHome'
  <2> SUFFICES ASSUME NEW p \in Places, moving[p] # None PROVE Follows(p)'
    BY DEF RecHome
  <2>1. Follows(p)
    BY DEF KeptInv, RecHome
  <2>2. \A v \in Worktrees : ref'[p] = v => ref[p] = v
    BY <1>4, <1>5, PlaceAssumption
  <2>. QED  BY <2>1, <2>2 DEF Follows, Its, Away, Moves
<1>11. BringInv'
  <2> SUFFICES ASSUME NEW u \in Tasks, NEW h \in Fibers, task'[u] = h, h.rec # None
               PROVE  Brings(h)'
    BY DEF BringInv
  <2>1. \A v \in Worktrees : Away(v) => Away(v)'
    BY DEF Away
  <2>2. CASE u = t
    <3>1. w = None => \A v \in Worktrees : ref'[q] = v => Away(v)'
      BY <1>3, <1>4, <2>1, PlaceAssumption
    <3>. QED  BY <1>3, <2>2, <3>1 DEF Brings, Early
  <2>3. CASE u # t
    <3>1. \A v \in Tasks \ {t} : Working(v) => task[v].rec.from # q
      BY <1>2 DEF IInv, OneWorker
    <3>2. \A p \in Places \ {q} : w # None => ~Moves(p, w)
      BY <1>2
    <3>. QED  BY <1>2, <1>5, <2>1, <2>3, <3>1, <3>2, OthersBring
  <2>. QED  BY <2>2, <2>3
<1>. QED  BY <1>4, <1>7, <1>9, <1>10, <1>11 DEF KeptInv

LEMMA AfterRefIs ==
    ASSUME IInv, NEW t \in Tasks, NEW f \in Fibers, task[t] = f,
           NEW captured \in BOOLEAN, AfterRef(t, captured)
    PROVE  /\ \A u \in Tasks \ {t} : task'[u] = task[u]
           /\ \E g \in Fibers : /\ task'[t] = g /\ g.rec = f.rec
                                /\ g.at \in {"wipefrom", "forget"}
                                /\ g.captured = captured
<1>1. PICK step \in {"wipefrom", "forget"} :
         task' = [task EXCEPT ![t].captured = captured, ![t].at = step]
  BY DEF AfterRef
<1>2. /\ \A u \in Tasks \ {t} : task'[u] = task[u]
      /\ task'[t] = [f EXCEPT !.captured = captured, !.at = step]
  BY <1>1 DEF IInv, FiberInv
<1>. QED  BY <1>2 DEF Fibers, Steps

LEMMA RefKept ==
    ASSUME OneFiber, IInv, IInv', FoundInv, KeptInv, NEW t \in Tasks,
           RefFollows(t) \/ RefDrops(t) \/ RefFails(t)
    PROVE  KeptInv'
<1>1. PICK f \in Fibers : task[t] = f
  BY DEF IInv, FiberInv
<1> DEFINE q == f.rec.from
           to == f.rec.to
<1>2. f.at \in {"ref", "refdrop"} /\ UNCHANGED <<entry, rows, moving, born>>
  BY <1>1 DEF RefFollows, RefDrops, RefFails, At, disks, kept
<1>3. f.at \in AtWork
  BY <1>2 DEF AtWork, InHand, Steps
<1>4. q \in Spots /\ to \in Spots
  BY <1>1, <1>3, AtHand DEF Spots
<1>5. ASSUME NEW captured \in BOOLEAN, AfterRef(t, captured), captured => ref'[q] = None,
             ref' \in {ref, [ref EXCEPT ![to] = ref[q]], [ref EXCEPT ![q] = None]}
      PROVE  KeptInv'
  <2>1. /\ \A u \in Tasks \ {t} : task'[u] = task[u]
        /\ \E g \in Fibers : /\ task'[t] = g /\ g.rec = f.rec
                             /\ g.at \in {"wipefrom", "forget"}
                             /\ g.captured = captured
    BY <1>1, <1>5, AfterRefIs
  <2>2. PICK g \in Fibers : /\ task'[t] = g /\ g.rec = f.rec
                            /\ g.at \in {"wipefrom", "forget"}
                            /\ g.captured = captured
    BY <2>1
  <2>. QED  BY <1>1, <1>2, <1>5, <2>1, <2>2, CaptureKept
<1>6. CASE RefFails(t)
  BY <1>5, <1>6 DEF RefFails, kept
<1>7. CASE RefDrops(t)
  <2>0. (ref[q] \in {None, ref[to]}) \in BOOLEAN
    OBVIOUS
  <2>1. PICK captured \in BOOLEAN : captured = (ref[q] \in {None, ref[to]})
    BY <2>0, Zenon
  <2>2. /\ AfterRef(t, captured)
        /\ ref' = IF ref[q] = ref[to] THEN [ref EXCEPT ![q] = None] ELSE ref
    BY <1>1, <1>7, <2>1, Zenon DEF RefDrops
  <2>3. captured => ref'[q] = None
    BY <1>4, <2>1, <2>2 DEF KeptInv
  <2>. QED  BY <1>5, <2>2, <2>3
<1>8. CASE RefFollows(t)
  <2>1. CASE ref[q] = None /\ AfterRef(t, TRUE) /\ UNCHANGED ref
    BY <1>5, <2>1
  <2>2. CASE AfterRef(t, FALSE) /\ UNCHANGED ref
    BY <1>5, <2>2
  <2>3. CASE ref' = [ref EXCEPT ![to] = ref[q]] /\ Go(t, "refdrop")
    <3>1. PICK g \in Fibers : task'[t] = g
      BY DEF IInv, FiberInv
    <3>2. \A u \in Tasks \ {t} : task'[u] = task[u]
      BY <2>3 DEF Go, IInv, FiberInv
    <3>3. g.at = "refdrop" /\ g.rec = f.rec
      BY <1>1, <2>3, <3>1 DEF Go, IInv, FiberInv, Fibers
    <3>. QED  BY <1>1, <1>2, <2>3, <3>1, <3>2, <3>3, CaptureKept
  <2>. QED  BY <1>1, <1>8, <2>1, <2>2, <2>3 DEF RefFollows
<1>. QED  BY <1>6, <1>7, <1>8

--------------------------------------------------------------------------------
(* The end of a record, and its resume.                                        *)

\* Whose record ends is where its rows are, and its capture if that followed.
LEMMA ForgetKept ==
    ASSUME OneFiber, IInv, IInv', FoundInv, KeptInv, NEW t \in Tasks, Forget(t)
    PROVE  KeptInv' /\ HomesStay
<1>1. PICK f \in Fibers : task[t] = f
  BY DEF IInv, FiberInv
<1> DEFINE q == f.rec.from
           to == f.rec.to
           w == f.rec.link
           row == moving[q]
<1>2. /\ f.at = "forget" /\ PutDown(t) /\ UNCHANGED <<entry, rows, ref, born>>
      /\ UNCHANGED moving \/ (f.captured /\ moving' = [moving EXCEPT ![q] = None])
  BY <1>1 DEF Forget, At, disks, kept
<1>3. CASE UNCHANGED moving
  BY <1>2, <1>3, DownKept, SameHomes
<1>4. CASE f.captured /\ moving' = [moving EXCEPT ![q] = None]
  <2>1. f.at \in AtWork
    BY <1>2 DEF AtWork, InHand, Steps
  <2>2. /\ q \in Places /\ q \in Spots /\ Working(t) /\ w \in Worktrees \cup {None}
        /\ row # None /\ row.link = w /\ row.to = to
        /\ (w # None => \A p \in Places : Moves(p, w) <=> p = q)
        /\ Follows(q) /\ Brings(f)
    BY <1>1, <2>1, AtHand, BringsNow DEF Spots, Like, Moves
  <2>3. moving'[q] = None /\ \A p \in Places \ {q} : moving'[p] = moving[p]
    BY <1>4, <2>2 DEF IInv, RecordInv
  <2>4. \A v \in Worktrees \ {w} : /\ \A p \in Places : Moves(p, v)' <=> Moves(p, v)
                                   /\ \A p \in Spots : Homed(v, p)' <=> Homed(v, p)
    <3> SUFFICES ASSUME NEW v \in Worktrees \ {w}
                 PROVE  /\ \A p \in Places : Moves(p, v)' <=> Moves(p, v)
                        /\ \A p \in Spots : Homed(v, p)' <=> Homed(v, p)
      OBVIOUS
    <3>1. \A p \in Places : Moves(p, v)' <=> Moves(p, v)
      BY <2>2, <2>3 DEF Moves
    <3>2. \A p \in Places : Moves(p, v) => moving'[p] = moving[p]
      BY <2>2, <2>3 DEF Moves
    <3>. QED  BY <1>2, <3>1, <3>2, HomedStays
  <2>5. ASSUME w # None, NEW p \in Spots,
               Homed(w, p) \/ (p \in Places /\ Moves(p, w) /\ ref[p] = w)
        PROVE  Homed(w, p)'
    <3>1. w \in Worktrees /\ \A s \in Places : ~Moves(s, w)'
      BY <2>2, <2>3, <2>5 DEF Moves
    <3>2. CASE Away(w)
      BY <1>2, <3>2 DEF Homed, Away
    <3>3. CASE ~Away(w) /\ row.carried
      <4>1. entry[w] = to /\ ref[q] # w
        BY <1>2, <1>4, <2>2, <2>5, <3>1, <3>3 DEF Follows, Brings, Away
      <4>2. p = to
        BY <2>2, <2>5, <3>3, <4>1 DEF Homed, Key
      <4>. QED  BY <1>2, <3>1, <4>1, <4>2 DEF Homed
    <3>4. CASE ~Away(w) /\ ~row.carried
      <4>1. entry[w] = q
        BY <1>2, <2>2, <2>5, <3>1, <3>4 DEF Brings, Away
      <4>2. p = q
        BY <2>2, <2>5, <3>4, <4>1 DEF Homed, Key
      <4>. QED  BY <1>2, <3>1, <4>1, <4>2 DEF Homed
    <3>. QED  BY <3>2, <3>3, <3>4
  <2>6. RowHome'
    <3> SUFFICES ASSUME NEW p \in Spots, NEW v \in Worktrees, rows[p] = v
                 PROVE  Homed(v, p)'
      BY <1>2 DEF RowHome
    <3>1. Homed(v, p) /\ v # None
      BY PlaceAssumption DEF KeptInv, RowHome
    <3>. QED  BY <2>4, <2>5, <3>1
  <2>7. RefHome'
    <3> SUFFICES ASSUME NEW p \in Spots, NEW v \in Worktrees, ref[p] = v
                 PROVE  Homed(v, p)' \/ (p \in Places /\ Moves(p, v)')
      BY <1>2 DEF RefHome
    <3>1. (Homed(v, p) \/ (p \in Places /\ Moves(p, v))) /\ v # None
      BY PlaceAssumption DEF KeptInv, RefHome
    <3>2. CASE v = w
      <4>1. Homed(w, p)'
        BY <2>5, <3>1, <3>2
      <4>. QED  BY <3>2, <4>1
    <3>3. CASE v # w
      BY <2>4, <3>1, <3>3
    <3>. QED  BY <3>2, <3>3
  <2>8. RecHome'
    <3> SUFFICES ASSUME NEW p \in Places, moving'[p] # None PROVE Follows(p)'
      BY DEF RecHome
    <3>1. moving'[p] = moving[p] /\ Follows(p)
      BY <2>3 DEF KeptInv, RecHome
    <3>. QED  BY <1>2, <3>1 DEF Follows, Its, Away, Moves
  <2>9. BringInv'
    <3> SUFFICES ASSUME NEW u \in Tasks, NEW g \in Fibers, task'[u] = g, g.rec # None
                 PROVE  Brings(g)'
      BY DEF BringInv
    <3>1. u # t /\ \A v \in Tasks \ {t} : task'[v] = task[v]
      BY <1>2, PutDownRests
    <3>2. \A v \in Tasks \ {t} : Working(v) => task[v].rec.from # q
      BY <1>1, <2>2 DEF IInv, OneWorker
    <3>3. \A v \in Worktrees : Away(v) => Away(v)'
      BY <1>2 DEF Away
    <3>4. \A p \in Places \ {q} : w # None => ~Moves(p, w)
      BY <2>2
    <3>. QED  BY <1>2, <2>2, <2>3, <3>1, <3>2, <3>3, <3>4, OthersBring
  <2>10. HomesStay
    <3>1. \A v \in Worktrees, p \in Spots : Homed(v, p) => Homed(v, p)'
      BY <2>4, <2>5, PlaceAssumption
    <3>. QED  BY <1>2, <2>3, <3>1 DEF HomesStay, Its, Away
  <2>. QED  BY <1>2, <2>6, <2>7, <2>8, <2>9, <2>10 DEF KeptInv
<1>. QED  BY <1>2, <1>3, <1>4

\* It goes on with the carry when the worktree is where it was to go; what nothing
\* holds at the id left, when no worktree is listed there, is of none at a place.
LEMMA JudgeKept ==
    ASSUME OneFiber, IInv, FoundInv, KeptInv, NEW t \in Tasks, Judge(t)
    PROVE  KeptInv'
<1>1. PICK f \in Fibers : task[t] = f
  BY DEF IInv, FiberInv
<1> DEFINE r == f.rec
           q == f.rec.from
           w == f.rec.link
           row == moving[q]
           step == CASE Landed(r) -> "carry"
                     [] AtSource(r) /\ r.partial /\ ~Listed(r.to)
                        /\ Holds(r.to, r.link) -> "wipeto"
                     [] OTHER -> "forget"
<1>2. /\ f.at \in {"judge", "taken"} /\ Go(t, step)
      /\ UNCHANGED <<entry, rows, ref, moving>>
  BY <1>1 DEF Judge, At, disks, kept
<1>3. f.at \in AtWork /\ step \in AtWork
  BY <1>2 DEF AtWork, InHand, Steps
<1>4. /\ q \in Places /\ q \in Spots /\ r.to \in Spots /\ q # r.to
      /\ w \in Worktrees \cup {None} /\ (w # None => Sits(r))
      /\ row.link = w /\ row.to = r.to
      /\ w # None => Moves(q, w)
      /\ Brings(f) /\ Follows(q)
  BY <1>1, <1>3, AtHand, BringsNow DEF Spots, Like
<1>5. row.carried = r.carried
  BY <1>2, <1>4 DEF Brings
<1>6. w # None /\ ~Away(w) => /\ entry[w] \in {q, r.to}
                              /\ row.carried => entry[w] = r.to
  BY <1>4 DEF Sits, Away, Follows
<1>7. w # None /\ entry[w] = r.to => Landed(r)
  <2> SUFFICES ASSUME w # None, entry[w] = r.to PROVE Landed(r)
    OBVIOUS
  <2>1. WholeAt(w, r.to)
    BY <1>4 DEF Sits, Renamed
  <2>2. Holds(r.to, w) /\ Listed(r.to)
    BY <1>4, <2>1, HeldIsFolder DEF Listed
  <2>3. ~(Listed(q) /\ Holds(q, w))
    BY <1>4, ListedHolds
  <2>. QED  BY <2>2, <2>3 DEF Landed, AtSource, Mine
<1>8. ASSUME NEW g \in Fibers, g.at = step, g.rec = r PROVE Brings(g)
  <2>1. CASE Landed(r)
    <3>1. step = "carry"
      BY <2>1 DEF Landed
    <3>2. w # None => entry[w] = r.to
      <4>1. w # None => Holds(r.to, w) /\ Listed(r.to)
        BY <2>1 DEF Landed, Mine
      <4>. QED  BY <1>4, <4>1, ListedHolds
    <3>3. ASSUME w = None, NEW v \in Worktrees,
                 (rows[q] = v /\ ~row.carried) \/ ref[q] = v
          PROVE  Away(v)
      <4>1. ~Listed(q)
        BY <2>1, <3>3 DEF Landed, AtSource, Mine
      <4>2. Its(q, v)
        BY <1>4, <3>3 DEF Follows
      <4>. QED  BY <1>4, <3>3, <4>1, <4>2, PlaceAssumption DEF Its, Listed
    <3>. QED  BY <1>5, <1>8, <3>1, <3>2, <3>3 DEF Brings, Early
  <2>2. CASE ~Landed(r) /\ step = "wipeto"
    BY <1>8, <2>2 DEF Brings, Early
  <2>3. CASE ~Landed(r) /\ step = "forget"
    <3>1. w # None => /\ ~row.carried => entry[w] \in {q, Nested}
                      /\ row.carried => Away(w)
      BY <1>6, <1>7, <2>3 DEF Away
    <3>. QED  BY <1>8, <2>3, <3>1 DEF Brings, Early
  <2>. QED  BY <2>1, <2>2, <2>3
<1>. HIDE DEF step
<1>. QED  BY <1>1, <1>2, <1>3, <1>8, GoKept

LEMMA WipeKept ==
    ASSUME IInv, FoundInv, KeptInv, NEW t \in Tasks, Wipe(t)
    PROVE  KeptInv'
<1>1. PICK f \in Fibers : task[t] = f
  BY DEF IInv, FiberInv
<1> DEFINE q == f.rec.from
           w == f.rec.link
<1>2. /\ f.at \in {"wipefrom", "wipeto"} /\ UNCHANGED <<entry, rows, ref, moving>>
      /\ UNCHANGED task \/ Go(t, "forget")
  BY <1>1 DEF Wipe, At, kept
<1>3. f.at \in AtWork /\ "forget" \in AtWork
  BY <1>2 DEF AtWork, InHand, Steps
<1>4. /\ Brings(f) /\ Follows(q) /\ Fine(f) /\ q # f.rec.to /\ q # Nested
      /\ w # None => Moves(q, w) /\ w \in Worktrees
      /\ moving[q].to = f.rec.to
  BY <1>1, <1>3, AtHand, BringsNow, PlaceAssumption DEF Spots, Like
<1>5. ASSUME NEW g \in Fibers, g.at = "forget", g.rec = f.rec, g.captured = f.captured
      PROVE  Brings(g)
  <2>1. CASE f.at = "wipefrom"
    BY <1>4, <1>5, <2>1 DEF Brings, Early
  <2>2. CASE f.at = "wipeto"
    <3>1. w # None => entry[w] = q /\ ~moving[q].carried
      BY <1>4, <2>2 DEF Fine, Follows
    <3>. QED  BY <1>5, <3>1 DEF Brings, Early
  <2>. QED  BY <1>2, <2>1, <2>2
<1>6. CASE UNCHANGED task
  BY <1>2, <1>6, StillKept
<1>7. CASE Go(t, "forget")
  BY <1>1, <1>2, <1>3, <1>5, <1>7, GoKept
<1>. QED  BY <1>2, <1>6, <1>7

--------------------------------------------------------------------------------
(* The other steps, and the theorem.                                           *)

\* Before git lists the worktree elsewhere, nothing is carried.
LEMMA EarlyKept ==
    ASSUME Sound, IInv, FoundInv, KeptInv, NEW t \in Tasks,
           GitRenames(t) \/ GitFails(t) \/ PutIn(t)
    PROVE  KeptInv'
<1>1. PICK f \in Fibers : task[t] = f
  BY DEF IInv, FiberInv
<1> DEFINE r == f.rec
           q == f.rec.from
           w == f.rec.link
           step == IF MovedOnDisk(r) THEN "relink" ELSE "forget"
<1>2. /\ f.at \in {"claimed", "renamed", "copying"}
      /\ UNCHANGED <<entry, rows, ref, moving>>
      /\ \/ Go(t, "renamed") \/ Go(t, "placed")
         \/ f.at \in {"claimed", "renamed"} /\ Go(t, step)
  BY <1>1 DEF GitRenames, GitFails, PutIn, At, disks, kept
<1>3. f.at \in AtWork /\ {"renamed", "placed", "relink", "forget"} \subseteq AtWork
  BY <1>2 DEF AtWork, InHand, Steps
<1>4. Brings(f) /\ Fine(f) /\ q \in Spots /\ r.to \in Spots /\ w \in Worktrees \cup {None}
  BY <1>1, <1>3, AtHand, BringsNow DEF Spots
<1>5. moving[q].carried = r.carried /\ ~moving[q].carried
  BY <1>2, <1>4 DEF Brings, Early
<1>6. ASSUME NEW g \in Fibers, g.rec = r, g.at \in {"renamed", "placed", "relink"}
      PROVE  Brings(g)
  BY <1>5, <1>6 DEF Brings, Early
<1>7. CASE Go(t, "renamed") \/ Go(t, "placed")
  BY <1>1, <1>2, <1>3, <1>6, <1>7, GoKept
<1>8. CASE f.at \in {"claimed", "renamed"} /\ Go(t, step) /\ MovedOnDisk(r)
  BY <1>1, <1>2, <1>3, <1>6, <1>8, GoKept
<1>9. CASE f.at \in {"claimed", "renamed"} /\ Go(t, step) /\ ~MovedOnDisk(r)
  <2>1. w # None => entry[w] = q
    BY <1>4, <1>9, HeldIsFolder DEF Fine, Renamed, MovedOnDisk
  <2>2. ASSUME NEW g \in Fibers, g.rec = r, g.at = "forget" PROVE Brings(g)
    BY <1>5, <2>1, <2>2 DEF Brings, Early
  <2>. QED  BY <1>1, <1>2, <1>3, <1>9, <2>2, GoKept
<1>. QED  BY <1>2, <1>7, <1>8, <1>9

LEMMA LookKept ==
    ASSUME Sound, IInv, FoundInv, KeptInv, NEW t \in Tasks, Look(t)
    PROVE  KeptInv'
<1>1. PICK f \in Fibers : task[t] = f
  BY DEF IInv, FiberInv
<1>2. PICK s \in f.todo :
         LET row == moving[s.from]
             pass == row # None => Live(t, row)
         IN task' = [task EXCEPT ![t].todo = @ \ {s},
                       ![t].rec = IF pass THEN None ELSE row,
                       ![t].at = IF pass THEN "next" ELSE "dead"]
  BY <1>1 DEF Look, Sound
<1>3. UNCHANGED <<entry, rows, ref, moving>>
  BY DEF Look, disks, kept
<1>4. s.from \in Places
  BY DEF Fibers, Records
<1>5. PICK todo, rec, at :
         /\ task' = [task EXCEPT ![t].todo = todo, ![t].rec = rec, ![t].at = at]
         /\ rec = None \/ (rec = moving[s.from] /\ rec # None /\ at = "dead")
  BY <1>2
<1>6. /\ \A u \in Tasks \ {t} : task'[u] = task[u]
      /\ task'[t] = [f EXCEPT !.todo = todo, !.rec = rec, !.at = at]
  BY <1>1, <1>5 DEF IInv, FiberInv
<1>7. ASSUME NEW g \in Fibers, task'[t] = g, g.rec # None PROVE Brings(g)
  <2>0. task'[t].rec = rec /\ task'[t].at = at
    BY <1>6 DEF Fibers
  <2>1. g.rec = moving[s.from] /\ g.at = "dead"
    BY <1>5, <1>7, <2>0
  <2>2. g.rec.from = s.from
    BY <1>4, <1>7, <2>1, KnownRow
  <2>. QED  BY <2>1, <2>2 DEF Brings, Early
<1>. QED  BY <1>3, <1>6, <1>7, StillKept

\* Nothing in hand, before and after.
LEMMA EmptyKept ==
    ASSUME IInv, IInv', KeptInv, NEW t \in Tasks,
           \/ ClaimWaits(t) \/ ClaimRefused(t) \/ Resume(t) \/ Looked(t)
           \/ \E w \in Worktrees, p \in Places : Ask(t, w, p) \/ CreateLooks(t, w, p)
    PROVE  KeptInv'
<1>1. PICK f \in Fibers : task[t] = f
  BY DEF IInv, FiberInv
<1>2. /\ UNCHANGED <<entry, rows, ref, moving>>
      /\ \A u \in Tasks \ {t} : task'[u] = task[u]
  BY DEF ClaimWaits, ClaimRefused, Resume, Looked, Ask, CreateLooks, disks, kept, IInv,
     FiberInv
<1>3. task'[t].at \in {"idle", "asked", "again", "next", "adding"}
  <2>1. CASE ClaimWaits(t) \/ Resume(t)
    BY <1>1, <2>1 DEF ClaimWaits, Resume, IInv, FiberInv, Fibers
  <2>2. CASE ClaimRefused(t)
    BY <1>1, <2>2 DEF ClaimRefused, IInv, FiberInv, Fibers, Idle
  <2>3. CASE Looked(t)
    <3>1. task'[t] \in {Idle, [f EXCEPT !.at = "again"]}
      BY <1>1, <2>3 DEF Looked, IInv, FiberInv
    <3>. QED  BY <3>1 DEF Fibers, Idle
  <2>4. ASSUME NEW w \in Worktrees, NEW p \in Places, Ask(t, w, p)
        PROVE  task'[t].at = "asked"
    <3>1. PICK mv : task'[t] = [Idle EXCEPT !.at = "asked", !.move = mv]
      BY <2>4 DEF Ask, IInv, FiberInv
    <3>. QED  BY <3>1 DEF Idle
  <2>5. ASSUME NEW w \in Worktrees, NEW p \in Places, CreateLooks(t, w, p)
        PROVE  task'[t].at = "adding"
    <3>1. PICK mv : task'[t] = [f EXCEPT !.at = "adding", !.move = mv]
      BY <1>1, <2>5 DEF CreateLooks, IInv, FiberInv
    <3>. QED  BY <3>1 DEF Fibers
  <2>. QED  BY <2>1, <2>2, <2>3, <2>4, <2>5
<1>4. task'[t].rec = None
  BY <1>3 DEF IInv, FiberInv, Shaped, InHand, Steps
<1>. QED  BY <1>2, <1>4, StillKept

\* A worktree made was nowhere, so nothing was kept of it: it was no record's.
LEMMA AddsKept ==
    ASSUME IInv, FoundInv, KeptInv, NEW w \in Worktrees, NEW p \in Places, Unmade(w),
           Adds(w, p), UNCHANGED <<rows, ref, moving>>,
           \A u \in Tasks, f \in Fibers : task'[u] = f /\ f.rec # None => task[u] = f
    PROVE  KeptInv' /\ HomesStay
<1>1. /\ entry[w] = None /\ \A v \in Worktrees \ {w} : entry'[v] = entry[v]
      /\ None \notin Spots /\ None # Nested
  BY PlaceAssumption DEF Unmade, Adds, FoundInv, DiskInv, Spots
<1>2. \A q \in Places : ~Moves(q, w)
  <2> SUFFICES ASSUME NEW q \in Places, Moves(q, w) PROVE FALSE
    OBVIOUS
  <2>1. Sits(moving[q]) /\ moving[q].from = q /\ moving[q].to \in Places
        /\ moving[q].link = w
    BY KnownRow, PlaceAssumption DEF Moves
  <2>. QED  BY <1>1, <2>1 DEF Sits, Spots
<1>3. \A s \in Spots : ~Homed(w, s)
  BY <1>1, <1>2 DEF Homed, Away
<1>4. \A s \in Spots : rows[s] # w /\ ref[s] # w
  BY <1>2, <1>3 DEF KeptInv, RowHome, RefHome
<1>5. \A v \in Worktrees \ {w} : \A s \in Spots : Homed(v, s)' <=> Homed(v, s)
  BY <1>1, HomedStays DEF Moves
<1>6. RowHome' /\ RefHome'
  BY <1>4, <1>5 DEF KeptInv, RowHome, RefHome, Moves
<1>7. RecHome'
  <2> SUFFICES ASSUME NEW q \in Places, moving[q] # None PROVE Follows(q)'
    BY DEF RecHome
  <2>1. Follows(q) /\ q \in Spots
    BY DEF KeptInv, RecHome, Spots
  <2>2. \A v \in Worktrees : v # w => (Its(q, v)' <=> Its(q, v))
    BY <1>1 DEF Its, Away
  <2>. QED  BY <1>1, <1>2, <1>4, <2>1, <2>2 DEF Follows, Moves
<1>8. \A v \in Worktrees : Away(v) => Away(v)'
  BY <1>1 DEF Away
<1>9. BringInv'
  <2> SUFFICES ASSUME NEW u \in Tasks, NEW f \in Fibers, task'[u] = f, f.rec # None
               PROVE  Brings(f)'
    BY DEF BringInv
  <2>1. task[u] = f
    OBVIOUS
  <2>2. ASSUME f.at # "dead" PROVE f.rec.link # None => f.rec.link \in Worktrees \ {w}
    <3>1. f.at \in AtWork
      BY <2>1, <2>2 DEF IInv, FiberInv, Shaped, AtWork
    <3>. QED  BY <1>2, <2>1, <3>1, AtHand DEF Moves, Like
  <2>. QED  BY <1>1, <1>8, <2>1, <2>2, BringStays
<1>10. HomesStay
  <2>1. ASSUME NEW v \in Worktrees, NEW q \in Places, v # w, Its(q, v)
        PROVE  Its(q, v)'
    BY <1>1, <2>1 DEF Its, Away
  <2>2. \A q \in Places : q \in Spots
    BY DEF Spots
  <2>. QED  BY <1>3, <1>5, <1>8, <2>1, <2>2 DEF HomesStay
<1>. QED  BY <1>6, <1>7, <1>9, <1>10 DEF KeptInv

LEMMA MadeKept ==
    ASSUME IInv, IInv', FoundInv, KeptInv,
           \/ \E t \in Tasks : CreateAdds(t)
           \/ \E p \in Places : Make(p)
    PROVE  KeptInv' /\ HomesStay
<1>1. ASSUME NEW t \in Tasks, CreateAdds(t) PROVE KeptInv' /\ HomesStay
  <2>1. PICK f \in Fibers : task[t] = f
    BY DEF IInv, FiberInv
  <2>2. /\ f.at = "adding" /\ UNCHANGED <<rows, ref, moving>>
        /\ \A u \in Tasks \ {t} : task'[u] = task[u]
    BY <1>1, <2>1 DEF CreateAdds, At, kept, Go, IInv, FiberInv
  <2>3. task'[t].at \in {"made", "idle"}
    BY <1>1, <2>1 DEF CreateAdds, Go, Idle, IInv, FiberInv, Fibers
  <2>4. task'[t].rec = None
    BY <2>3 DEF IInv, FiberInv, Shaped, InHand, Steps
  <2>5. f.move.link \in Worktrees /\ f.move.to \in Places
    BY <2>1, <2>2 DEF IInv, FiberInv, Shaped, Asked
  <2>6. CASE UNCHANGED disks
    BY <2>2, <2>4, <2>6, StillKept, SameHomes DEF disks
  <2>7. CASE Unmade(f.move.link) /\ Adds(f.move.link, f.move.to)
    BY <2>2, <2>4, <2>5, <2>7, AddsKept
  <2>. QED  BY <1>1, <2>1, <2>6, <2>7 DEF CreateAdds
<1>2. ASSUME NEW p \in Places, Make(p) PROVE KeptInv' /\ HomesStay
  <2>1. UNCHANGED <<rows, ref, moving, task>>
    BY <1>2 DEF Make, kept
  <2>2. ASSUME NEW w \in Worktrees, Unmade(w), Adds(w, p) PROVE KeptInv' /\ HomesStay
    BY <2>1, <2>2, AddsKept
  <2>3. CASE UNCHANGED entry
    BY <2>1, <2>3, StillKept, SameHomes
  <2>. QED  BY <1>2, <2>2, <2>3 DEF Make
<1>. QED  BY <1>1, <1>2

\* What one removed from there left goes.
LEMMA CleansKept ==
    ASSUME IInv, IInv', FoundInv, KeptInv, NEW t \in Tasks, CreateForgets(t)
    PROVE  KeptInv'
<1>1. PICK f \in Fibers : task[t] = f
  BY DEF IInv, FiberInv
<1>2. /\ f.at = "made" /\ UNCHANGED <<entry, ref, moving>>
      /\ rows' = [rows EXCEPT ![f.move.to] = None]
      /\ \A u \in Tasks \ {t} : task'[u] = task[u]
      /\ task'[t] = Idle
  BY <1>1 DEF CreateForgets, At, disks, kept, IInv, FiberInv
<1>3. /\ \A p \in Spots : rows'[p] \in {None, rows[p]}
      /\ rows' \in [Spots -> Worktrees \cup {None}]
  BY <1>2 DEF KeptInv
<1>4. \A p \in Spots, w \in Worktrees : rows'[p] = w => rows[p] = w
  BY <1>3, PlaceAssumption
<1>5. \A w \in Worktrees, p \in Spots : Homed(w, p)' <=> Homed(w, p)
  BY <1>2, HomedStays DEF Moves
<1>6. RowHome' /\ RefHome'
  BY <1>2, <1>4, <1>5 DEF KeptInv, RowHome, RefHome, Moves
<1>7. RecHome'
  <2>1. \A q \in Places : q \in Spots
    BY DEF Spots
  <2>. QED  BY <1>2, <1>4, <2>1 DEF KeptInv, RecHome, Follows, Its, Away, Moves
<1>8. BringInv'
  <2> SUFFICES ASSUME NEW u \in Tasks, NEW g \in Fibers, task'[u] = g, g.rec # None
               PROVE  Brings(g)'
    BY DEF BringInv
  <2>1. task[u] = g /\ g.rec.from \in Spots
    BY <1>2, RecOf, IdleRests DEF Spots
  <2>2. \A w \in Worktrees : Away(w) => Away(w)'
    BY <1>2 DEF Away
  <2>. QED  BY <1>2, <1>3, <2>1, <2>2, BringStays
<1>. QED  BY <1>2, <1>3, <1>6, <1>7, <1>8 DEF KeptInv

\* A fact kept of a worktree is kept where git lists it: no record that is under way
\* has carried that id's yet, nor has the capture's end to come.
LEMMA NoteKept ==
    ASSUME IInv, IInv', FoundInv, KeptInv, NEW w \in Worktrees, Note(w)
    PROVE  KeptInv'
<1> DEFINE p == entry[w]
<1>1. /\ p \in Places /\ p \in Spots /\ UNCHANGED <<entry, moving, task>>
      /\ \/ /\ \A q \in Named(p) : moving[q].link # w /\ moving[q].carried
            /\ rows' = [rows EXCEPT ![p] = w] /\ UNCHANGED ref
         \/ /\ Named(p) = {}
            /\ ref' = [ref EXCEPT ![p] = w] /\ UNCHANGED rows
  BY DEF Note, disks, Spots
<1>2. \A q \in Places : ~Moves(q, w)
  <2> SUFFICES ASSUME NEW q \in Places, Moves(q, w) PROVE FALSE
    OBVIOUS
  <2>1. /\ Sits(moving[q]) /\ moving[q].from = q /\ moving[q].to \in Places
        /\ moving[q].link = w /\ moving[q] # None
    BY KnownRow, PlaceAssumption DEF Moves
  <2>2. p \in {q, moving[q].to}
    BY <1>1, <2>1, PlaceAssumption DEF Sits, Spots
  <2>3. q \in Named(p)
    BY <2>1, <2>2 DEF Named
  <2>. QED  BY <1>1, <2>1, <2>3
<1>3. /\ \A s \in Spots \ {p} : rows'[s] = rows[s] /\ ref'[s] = ref[s]
      /\ rows'[p] \in {rows[p], w} /\ ref'[p] \in {ref[p], w}
      /\ rows' \in [Spots -> Worktrees \cup {None}]
      /\ ref' \in [Spots -> Worktrees \cup {None}]
  BY <1>1 DEF KeptInv
<1>4. moving[p] # None => ref'[p] = ref[p] /\ moving[p].carried
  <2>1. moving[p] # None => p \in Named(p)
    BY <1>1 DEF Named
  <2>. QED  BY <1>1, <2>1
<1>5. Homed(w, p)
  BY <1>2 DEF Homed
<1>6. \A v \in Worktrees, s \in Spots : Homed(v, s)' <=> Homed(v, s)
  BY <1>1, HomedStays DEF Moves
<1>7. RowHome' /\ RefHome'
  <2>1. ASSUME NEW s \in Spots, NEW v \in Worktrees, rows'[s] = v PROVE Homed(v, s)'
    <3>1. rows[s] = v \/ (s = p /\ v = w)
      BY <1>3, <2>1
    <3>. QED  BY <1>5, <1>6, <3>1 DEF KeptInv, RowHome
  <2>2. ASSUME NEW s \in Spots, NEW v \in Worktrees, ref'[s] = v
        PROVE  Homed(v, s)' \/ (s \in Places /\ Moves(s, v)')
    <3>1. ref[s] = v \/ (s = p /\ v = w)
      BY <1>3, <2>2
    <3>. QED  BY <1>1, <1>5, <1>6, <3>1 DEF KeptInv, RefHome, Moves
  <2>. QED  BY <2>1, <2>2 DEF RowHome, RefHome
<1>8. RecHome'
  <2> SUFFICES ASSUME NEW q \in Places, moving[q] # None PROVE Follows(q)'
    BY <1>1 DEF RecHome
  <2>1. Follows(q) /\ q \in Spots
    BY DEF KeptInv, RecHome, Spots
  <2>2. ref'[q] = ref[q] /\ (rows'[q] = rows[q] \/ moving[q].carried)
    BY <1>3, <1>4, <2>1
  <2>. QED  BY <1>1, <2>1, <2>2 DEF Follows, Its, Away, Moves
<1>9. BringInv'
  <2> SUFFICES ASSUME NEW u \in Tasks, NEW f \in Fibers, task[u] = f, f.rec # None
               PROVE  Brings(f)'
    BY <1>1 DEF BringInv
  <2>1. ASSUME f.at # "dead"
        PROVE  /\ rows'[f.rec.from] = rows[f.rec.from] \/ moving[f.rec.from].carried
               /\ ref'[f.rec.from] = ref[f.rec.from]
    <3>1. f.at \in AtWork
      BY <2>1 DEF IInv, FiberInv, Shaped, AtWork
    <3>2. moving[f.rec.from] # None /\ f.rec.from \in Spots
      BY <3>1, AtHand DEF Spots
    <3>. QED  BY <1>3, <1>4, <3>2
  <2>2. \A v \in Worktrees : Away(v) => Away(v)'
    BY <1>1 DEF Away
  <2>. QED  BY <1>1, <2>1, <2>2, BringStays
<1>. QED  BY <1>3, <1>7, <1>8, <1>9 DEF KeptInv

LEMMA StopsKept ==
    ASSUME KeptInv, UNCHANGED vars \/ Rest \/ \E p \in Procs : Crash(p)
    PROVE  KeptInv'
<1>1. UNCHANGED <<entry, rows, ref, moving>>
  BY DEF vars, Rest, Crash, disks, kept
<1>2. \A u \in Tasks : task'[u] = task[u] \/ task'[u] = Idle
  BY DEF vars, Rest, Crash
<1>. QED  BY <1>1, <1>2, IdleRests, StillKept

LEMMA GoesKept ==
    ASSUME Sound, IInv, IInv', FoundInv, KeptInv, NEW t \in Tasks, Goes(t) \/ Resume(t)
    PROVE  KeptInv'
<1> OneFiber
  BY DEF Sound
<1>1. ASSUME RelinkFails(t) \/ PutInDies(t) \/ CarryFails(t) PROVE KeptInv'
  <2>1. PutDown(t) /\ UNCHANGED <<entry, rows, ref, moving>>
    BY <1>1 DEF RelinkFails, PutInDies, CarryFails, disks, kept
  <2>. QED  BY <2>1, DownKept
<1>2. CASE ClaimStep(t)
  BY <1>2, ClaimKept, EmptyKept DEF ClaimStep
<1>3. CASE GitStep(t)
  BY <1>1, <1>3, EarlyKept, RecordsKept, RelinkKept DEF GitStep
<1>4. CASE CopyStep(t)
  BY <1>1, <1>4, CrossKept, EarlyKept, RecordsKept, NoUndo DEF CopyStep
<1>5. CASE CarryStep(t)
  BY <1>1, <1>5, CarryKept, RefKept, WipeKept, ForgetKept DEF CarryStep
<1>6. CASE ResumeStep(t) \/ Resume(t)
  BY <1>6, LookKept, EmptyKept, TakeOverKept, JudgeKept DEF ResumeStep
<1>7. CASE CreateStep(t)
  BY <1>7, MadeKept, CleansKept DEF CreateStep
<1>. QED  BY <1>2, <1>3, <1>4, <1>5, <1>6, <1>7 DEF Goes

LEMMA NextKept ==
    Sound /\ IInv /\ FoundInv /\ KeptInv /\ [Next]_vars => IInv' /\ FoundInv' /\ KeptInv'
<1> SUFFICES ASSUME Sound, IInv, FoundInv, KeptInv, [Next]_vars
             PROVE  IInv' /\ FoundInv' /\ KeptInv'
  OBVIOUS
<1>1. IInv' /\ FoundInv'
  BY NextFinds
<1>2. ASSUME NEW t \in Tasks, Goes(t) \/ Resume(t) PROVE KeptInv'
  BY <1>1, <1>2, GoesKept
<1>3. ASSUME NEW t \in Tasks, NEW w \in Worktrees, NEW p \in Places,
             Ask(t, w, p) \/ CreateLooks(t, w, p)
      PROVE  KeptInv'
  BY <1>1, <1>3, EmptyKept
<1>4. ASSUME NEW p \in Places, Make(p) PROVE KeptInv'
  BY <1>1, <1>4, MadeKept
<1>5. ASSUME NEW w \in Worktrees, Note(w) PROVE KeptInv'
  BY <1>1, <1>5, NoteKept
<1>6. CASE UNCHANGED vars \/ Rest \/ \E p \in Procs : Crash(p)
  BY <1>1, <1>6, StopsKept
<1>. QED  BY <1>1, <1>2, <1>3, <1>4, <1>5, <1>6 DEF Next

LEMMA InitKept == Init => KeptInv
<1> SUFFICES ASSUME Init PROVE KeptInv
  OBVIOUS
<1>1. /\ \A p \in Places : moving[p] = None
      /\ \A t \in Tasks : task[t] = Idle
      /\ entry = Home /\ ref = rows
  BY DEF Init
<1>2. ASSUME NEW p \in Spots
      PROVE  /\ rows[p] \in Worktrees \cup {None}
             /\ \A w \in Worktrees : rows[p] = w => entry[w] = p
  <2>1. CASE \E w \in Worktrees : Home[w] = p
    <3>1. PICK w \in Worktrees : w = CHOOSE v \in Worktrees : Home[v] = p
      BY <2>1
    <3>2. Home[w] = p /\ disk[p] = [of |-> w, whole |-> TRUE]
      BY <2>1, <3>1 DEF Init
    <3>3. disk[p] # None /\ disk[p].of = w
      <4>1. WholeAt(w, p)
        BY <3>2, PlaceAssumption DEF WholeAt
      <4>. QED  BY <4>1, HeldIsFolder
    <3>4. rows[p] = w
      BY <3>3 DEF Init
    <3>. QED  BY <1>1, <3>2, <3>4
  <2>2. CASE ~\E w \in Worktrees : Home[w] = p
    <3>1. disk[p] = None
      BY <2>2 DEF Init
    <3>2. rows[p] = None
      BY <3>1 DEF Init
    <3>. QED  BY <3>2, PlaceAssumption
  <2>. QED  BY <2>1, <2>2
<1>3. rows \in [Spots -> Worktrees \cup {None}]
  BY <1>2 DEF Init
<1>4. RowHome /\ RefHome
  BY <1>1, <1>2 DEF RowHome, RefHome, Homed, Moves
<1>5. RecHome /\ BringInv
  BY <1>1, IdleRests DEF RecHome, BringInv
<1>. QED  BY <1>1, <1>3, <1>4, <1>5 DEF KeptInv

LEMMA KeptSoFar == IInv /\ FoundInv /\ KeptInv => RowsFollow /\ CaptureFollows
<1> SUFFICES ASSUME IInv, FoundInv, KeptInv PROVE RowsFollow /\ CaptureFollows
  OBVIOUS
<1>1. ASSUME NEW p \in Spots, NEW w \in Worktrees,
             Homed(w, p) \/ (p \in Places /\ Moves(p, w))
      PROVE  entry[w] \in {p, Nested} \/ NamedFor(w, p)
  <2>1. CASE Away(w) \/ entry[w] = p
    BY <2>1 DEF Away
  <2>2. ASSUME NEW q \in Places, Moves(q, w), p \in {q, Key(q)} PROVE NamedFor(w, p)
    <3>1. moving[q] # None /\ moving[q].link = w /\ p \in {q, moving[q].to}
      BY <2>2 DEF Moves, Key
    <3>. QED  BY <3>1 DEF NamedFor, Named
  <2>. QED  BY <1>1, <2>1, <2>2 DEF Homed
<1>2. RowsFollow
  BY <1>1 DEF RowsFollow, KeptInv, RowHome
<1>3. CaptureFollows
  BY <1>1 DEF CaptureFollows, KeptInv, RefHome
<1>. QED  BY <1>2, <1>3

(* Whatever moves, crashes, fails and is resumed, and whatever is made in between,*)
(* what the store keeps of a worktree and its capture are under the id of where  *)
(* git lists it, or under an id that a kept record of its move names, which a    *)
(* resume carries on from (moving.ts 424-463, kept.ts); no other worktree's is   *)
(* put over them.                                                                *)
THEOREM WhatIsKeptFollows ==
    ASSUME Sound PROVE Spec => [](RowsFollow /\ CaptureFollows)
<1>1. Init => IInv /\ FoundInv /\ KeptInv
  BY InitHolds, InitFinds, InitKept
<1>2. IInv /\ FoundInv /\ KeptInv /\ [Next]_vars => (IInv /\ FoundInv /\ KeptInv)'
  BY NextKept
<1>3. IInv /\ FoundInv /\ KeptInv => RowsFollow /\ CaptureFollows
  BY KeptSoFar
<1>. QED  BY <1>1, <1>2, <1>3, PTL DEF Spec

--------------------------------------------------------------------------------
(* An id of a folder that left leads to where its worktree is.                 *)

\* No move under way goes over two places from one of which a recorded move leads
\* to the other and on: the claim of both cuts the chain of what came before it
\* short by one (kept.ts 43-52), and the id it began with leads to this folder.
Unlooped ==
    \A q \in Places : moving[q] # None /\ ~moving[q].carried =>
        \A a, b \in {q, moving[q].to} :
            a # b /\ wtMoves[a] # None /\ wtMoves[a].to = b => ~Onward(wtMoves, a)

\* The recorded moves lead on in the order they were made, those of one worktree
\* to each other, unless git nested it.
Leads(x) == wtMoves[x] # None
ChainInv ==
    /\ wtMoves \in [Places -> Rows \cup {None}]
    /\ left \in [Places -> Worktrees \cup {None}]
    /\ \A x \in Places : Leads(x) =>
          /\ left[x] # None
          /\ Leads(wtMoves[x].to) =>
                /\ wtMoves[wtMoves[x].to].row > wtMoves[x].row
                /\ left[wtMoves[x].to] = left[x] \/ Away(left[x])
    /\ \E n \in Nat : \A x \in Places : Leads(x) => wtMoves[x].row <= n

\* Where they end is the id its worktree's rows are under.
EndsAt(x, p) == Leads(x) /\ wtMoves[x].to = p /\ ~Leads(p)
EndHome == \A x, p \in Places : EndsAt(x, p) => Homed(left[x], p)
EndFollows == \A x, q \in Places :
    EndsAt(x, q) /\ moving[q] # None /\ ~moving[q].carried => Its(q, left[x])
EndBrings(f) == f.at = "carry" /\ f.rec.link = None /\ ~f.rec.carried =>
                    \A x \in Places : EndsAt(x, f.rec.from) => Away(left[x])

EndInv == /\ ChainInv /\ EndHome /\ EndFollows
          /\ \A t \in Tasks, f \in Fibers : task[t] = f /\ f.rec # None => EndBrings(f)

--------------------------------------------------------------------------------
(* The recorded moves, as kept.ts reads and writes them.                       *)

Recorded == [Places -> Rows \cup {None}]

LEMMA RowOf ==
    ASSUME NEW M \in Recorded, NEW p \in Places, M[p] # None
    PROVE  M[p] \in Rows /\ M[p].to \in Places /\ M[p].row \in Nat
  BY DEF Recorded, Rows

\* Where a chain of moves ends there is one answer: its last move's destination.
LEMMA PlacedIs ==
    ASSUME NEW M \in Recorded
    PROVE  \A p \in Places :
              Placed(M)[p] = IF M[p] = None THEN p
                             ELSE IF Onward(M, p) THEN Placed(M)[M[p].to]
                             ELSE M[p].to
<1> DEFINE On1(p) == M[p] # None /\ Onward(M, p)
           Closed(S) == \A s \in S : On1(s) => M[s].to \in S
           Ends(p) == {e \in Places : ~On1(e) /\ \A S \in SUBSET Places :
                                         p \in S /\ Closed(S) => e \in S}
           Last(p) == CHOOSE e \in Places : e \in Ends(p)
           g == [p \in Places |-> IF M[Last(p)] = None THEN Last(p) ELSE M[Last(p)].to]
<1>1. ASSUME NEW p \in Places, On1(p) PROVE g[p] = g[M[p].to]
  <2>1. M[p].to \in Places
    BY <1>1, RowOf
  <2>2. ASSUME NEW e \in Places PROVE e \in Ends(p) <=> e \in Ends(M[p].to)
    <3>1. ASSUME e \in Ends(p) PROVE e \in Ends(M[p].to)
      <4> SUFFICES ASSUME NEW S \in SUBSET Places, M[p].to \in S, Closed(S)
                   PROVE  e \in S
        BY <3>1
      <4>1. S \cup {p} \in SUBSET Places /\ Closed(S \cup {p}) /\ p \in S \cup {p}
        OBVIOUS
      <4>2. e \in S \cup {p} /\ e # p
        BY <1>1, <3>1, <4>1
      <4>. QED  BY <4>2
    <3>2. ASSUME e \in Ends(M[p].to) PROVE e \in Ends(p)
      BY <1>1, <3>2
    <3>. QED  BY <3>1, <3>2
  <2>3. Last(p) = Last(M[p].to)
    <3>1. Ends(p) = Ends(M[p].to)
      BY <2>2
    <3>. QED  BY <3>1
  <2>. HIDE DEF Ends, Last
  <2>. QED  BY <2>1, <2>3
<1>2. ASSUME NEW p \in Places, ~On1(p)
      PROVE  g[p] = IF M[p] = None THEN p ELSE M[p].to
  <2>1. {p} \in SUBSET Places /\ Closed({p})
    BY <1>2
  <2>2. Ends(p) = {p}
    BY <1>2, <2>1
  <2>3. Last(p) = p
    BY <2>2
  <2>. HIDE DEF Ends, Last
  <2>. QED  BY <2>3
<1>3. g = [p \in Places |-> IF M[p] = None THEN p
                            ELSE IF Onward(M, p) THEN g[M[p].to] ELSE M[p].to]
  <2>1. \A p \in Places : g[p] = IF M[p] = None THEN p
                                 ELSE IF Onward(M, p) THEN g[M[p].to] ELSE M[p].to
    <3>. HIDE DEF g
    <3>. QED  BY <1>1, <1>2
  <2>. HIDE DEF Ends, Last
  <2>. QED  BY <2>1
<1>. HIDE DEF g
<1>4. Placed(M) = CHOOSE h : h = [p \in Places |-> IF M[p] = None THEN p
                                     ELSE IF Onward(M, p) THEN h[M[p].to] ELSE M[p].to]
  BY Zenon DEF Placed
<1>5. Placed(M) = [p \in Places |-> IF M[p] = None THEN p
                       ELSE IF Onward(M, p) THEN Placed(M)[M[p].to] ELSE M[p].to]
  <2>1. \E h : h = [p \in Places |-> IF M[p] = None THEN p
                       ELSE IF Onward(M, p) THEN h[M[p].to] ELSE M[p].to]
    BY <1>3
  <2>. QED  BY <1>4, <2>1, Zenon
<1>. QED  BY <1>5

LEMMA LeastNat ==
    ASSUME NEW T \in SUBSET Nat, T # {}
    PROVE  \E x \in T : \A y \in T : x <= y
<1>1. PICK x \in T : \A y \in T : ~(<<y, x>> \in OpToRel(<, Nat))
  BY NatLessThanWellFounded, WFMin
<1>2. ASSUME NEW y \in T PROVE x <= y
  <2>1. y < x => <<y, x>> \in {ss \in Nat \X Nat : ss[1] < ss[2]}
    OBVIOUS
  <2>2. ~(<<y, x>> \in {ss \in Nat \X Nat : ss[1] < ss[2]})
    BY <1>1, Zenon DEF OpToRel
  <2>. QED  BY <2>1, <2>2
<1>. QED  BY <1>2

LEMMA MaxIs ==
    ASSUME NEW S \in SUBSET Nat, S # {}, NEW n \in Nat, \A s \in S : s <= n
    PROVE  Max(S) \in S /\ \A s \in S : s <= Max(S)
<1> DEFINE T == {m \in Nat : \A s \in S : s <= m}
<1>1. PICK m \in T : \A y \in T : m <= y
  BY LeastNat
<1>2. m \in S
  <2> SUFFICES ASSUME m \notin S PROVE FALSE
    OBVIOUS
  <2>1. \A s \in S : s <= m - 1 /\ m - 1 \in Nat
    OBVIOUS
  <2>2. m - 1 \in T
    BY <2>1
  <2>. QED  BY <1>1, <2>2
<1>3. \E x \in S : \A y \in S : x >= y
  BY <1>2
<1>. QED  BY <1>3 DEF Max

\* What is recorded of the places a folder is now at goes, and of the others stays
\* as it was, pointed one move on where it led to one of those and on.
LEMMA ClaimedIs ==
    ASSUME NEW M \in Recorded, NEW P \in SUBSET Places
    PROVE  /\ Claimed(M, P) \in Recorded
           /\ \A x \in P : Claimed(M, P)[x] = None
           /\ \A x \in Places \ P :
                 /\ M[x] = None <=> Claimed(M, P)[x] = None
                 /\ M[x] # None =>
                       /\ Claimed(M, P)[x].row = M[x].row
                       /\ Claimed(M, P)[x].to =
                             IF M[x].to \in P /\ Onward(M, x) THEN M[M[x].to].to
                             ELSE M[x].to
<1> DEFINE past(x) == IF M[x] # None /\ M[x].to \in P /\ Onward(M, x)
                      THEN [M[x] EXCEPT !.to = M[M[x].to].to] ELSE M[x]
<1>1. ASSUME NEW x \in Places
      PROVE  /\ M[x] = None => past(x) = None
             /\ M[x] # None =>
                   /\ past(x) \in Rows /\ past(x) # None /\ past(x).row = M[x].row
                   /\ past(x).to = IF M[x].to \in P /\ Onward(M, x) THEN M[M[x].to].to
                                   ELSE M[x].to
  <2>1. CASE M[x] # None /\ M[x].to \in P /\ Onward(M, x)
    <3>1. M[x] \in Rows /\ M[x].to \in Places /\ M[M[x].to].to \in Places
      BY <2>1, RowOf DEF Onward
    <3>2. past(x) \in Rows /\ past(x).to = M[M[x].to].to /\ past(x).row = M[x].row
      BY <2>1, <3>1 DEF Rows
    <3>. QED  BY <2>1, <3>2, RowAssumption
  <2>2. CASE ~(M[x] # None /\ M[x].to \in P /\ Onward(M, x))
    BY <2>2, RowOf
  <2>. QED  BY <2>1, <2>2
<1>2. Claimed(M, P) = [x \in Places |-> IF x \in P THEN None ELSE past(x)]
  BY DEF Claimed
<1>. HIDE DEF past
<1>3. \A x \in Places : past(x) \in Rows \cup {None}
  BY <1>1
<1>. QED  BY <1>1, <1>2, <1>3 DEF Recorded

\* A move is recorded last, at the place it left.
LEMMA RecordMoveIs ==
    ASSUME NEW M \in Recorded, NEW from \in Places, NEW to \in Places,
           NEW n \in Nat, \A x \in Places : M[x] # None => M[x].row <= n
    PROVE  /\ RecordMove(M, from, to) \in Recorded
           /\ \A x \in Places \ {from} :
                 RecordMove(M, from, to)[x] = Claimed(M, {from, to})[x]
           /\ RecordMove(M, from, to)[from] # None
           /\ RecordMove(M, from, to)[from].to = to
           /\ \A x \in Places \ {from} : RecordMove(M, from, to)[x] # None =>
                 RecordMove(M, from, to)[x].row < RecordMove(M, from, to)[from].row
<1> DEFINE C == Claimed(M, {from, to})
           S == RowsOf(C) \cup {0}
           R == RecordMove(M, from, to)
           new == [to |-> to, row |-> Max(S) + 1]
<1>1. C \in Recorded /\ \A x \in Places : C[x] # None => C[x].row <= n /\ C[x].row \in Nat
  BY ClaimedIs, RowOf
<1>. HIDE DEF C
<1>2. S \in SUBSET Nat /\ S # {} /\ \A s \in S : s <= n
  BY <1>1 DEF RowsOf
<1>3. Max(S) \in Nat /\ \A s \in S : s <= Max(S)
  BY <1>2, MaxIs
<1>4. new \in Rows /\ new # None
  BY <1>3, RowAssumption DEF Rows
<1>5. R = [C EXCEPT ![from] = new]
  BY DEF RecordMove, C
<1>6. R \in Recorded /\ R[from] = new /\ \A x \in Places \ {from} : R[x] = C[x]
  BY <1>1, <1>4, <1>5 DEF Recorded
<1>7. \A x \in Places : C[x] # None => C[x].row \in S
  BY DEF RowsOf
<1>8. \A x \in Places : C[x] # None => C[x].row < new.row
  BY <1>1, <1>3, <1>7
<1>. HIDE DEF new, R
<1>9. new.to = to
  BY DEF new
<1>. QED  BY <1>4, <1>6, <1>8, <1>9 DEF R, C

--------------------------------------------------------------------------------
(* Where the chains end.                                                       *)

LEMMA LeadsTo ==
    ASSUME ChainInv, NEW x \in Places, Leads(x)
    PROVE  /\ wtMoves \in Recorded /\ wtMoves[x].to \in Places /\ wtMoves[x].row \in Nat
           /\ left[x] \in Worktrees
           /\ Onward(wtMoves, x) <=> Leads(wtMoves[x].to)
           /\ Leads(wtMoves[x].to) => /\ wtMoves[x].to # x
                                      /\ wtMoves[x].row < wtMoves[wtMoves[x].to].row
                                      /\ wtMoves[wtMoves[x].to].row \in Nat
                                      /\ \/ left[wtMoves[x].to] = left[x]
                                         \/ Away(left[x])
<1>1. wtMoves \in Recorded
  BY DEF ChainInv, Recorded
<1>2. wtMoves[x].to \in Places /\ wtMoves[x].row \in Nat
  BY <1>1, RowOf DEF Leads
<1>3. Leads(wtMoves[x].to) => wtMoves[wtMoves[x].to].row \in Nat
  BY <1>1, <1>2, RowOf DEF Leads
<1>4. /\ left[x] \in Worktrees
      /\ Leads(wtMoves[x].to) => /\ wtMoves[wtMoves[x].to].row > wtMoves[x].row
                                 /\ \/ left[wtMoves[x].to] = left[x]
                                    \/ Away(left[x])
  BY <1>2 DEF ChainInv
<1>. QED  BY <1>1, <1>2, <1>3, <1>4 DEF Onward, Leads

\* The rows of a chain grow and are bounded, so it has an end, of the same worktree.
LEMMA PlacedEnds ==
    ASSUME ChainInv, NEW x \in Places, Leads(x)
    PROVE  \E y \in Places : /\ EndsAt(y, Placed(wtMoves)[x])
                             /\ left[y] = left[x] \/ Away(left[x])
<1> DEFINE Good(z) == \E y \in Places : /\ EndsAt(y, Placed(wtMoves)[z])
                                        /\ left[y] = left[z] \/ Away(left[z])
           B == {z \in Places : Leads(z) /\ ~Good(z)}
<1>0. wtMoves \in Recorded
  BY DEF ChainInv, Recorded
<1>1. \A z \in B : wtMoves[z].to \in B /\ wtMoves[z].row < wtMoves[wtMoves[z].to].row
  <2> SUFFICES ASSUME NEW z \in B
               PROVE  /\ wtMoves[z].to \in B
                      /\ wtMoves[z].row < wtMoves[wtMoves[z].to].row
    OBVIOUS
  <2> DEFINE to == wtMoves[z].to
  <2>1. /\ to \in Places
        /\ Placed(wtMoves)[z] = IF Leads(to) THEN Placed(wtMoves)[to] ELSE to
    BY <1>0, LeadsTo, PlacedIs DEF Leads
  <2>2. Leads(to)
    BY <2>1 DEF EndsAt
  <2>3. left[to] = left[z] \/ Away(left[z])
    BY <2>2, LeadsTo
  <2>4. ~Good(to)
    <3> SUFFICES ASSUME NEW y \in Places, EndsAt(y, Placed(wtMoves)[to]),
                        left[y] = left[to] \/ Away(left[to])
                 PROVE  FALSE
      OBVIOUS
    <3>1. left[y] = left[z] \/ Away(left[z])
      BY <2>3
    <3>. QED  BY <2>1, <2>2, <3>1
  <2>. QED  BY <2>1, <2>2, <2>4, LeadsTo
<1>2. PICK n \in Nat : \A z \in Places : Leads(z) => wtMoves[z].row <= n
  BY DEF ChainInv
<1>3. B = {}
  <2> SUFFICES ASSUME B # {} PROVE FALSE
    OBVIOUS
  <2> DEFINE T == {n - wtMoves[z].row : z \in B}
  <2>1. \A z \in B : wtMoves[z].row \in Nat /\ wtMoves[z].row <= n
    BY <1>2, LeadsTo
  <2>. HIDE DEF B
  <2>2. T \in SUBSET Nat /\ T # {}
    BY <2>1
  <2>3. PICK m \in T : \A k \in T : m <= k
    BY <2>2, LeastNat
  <2>4. PICK z \in B : m = n - wtMoves[z].row
    BY <2>3
  <2>5. n - wtMoves[wtMoves[z].to].row \in T
    BY <1>1
  <2>6. /\ wtMoves[z].row \in Nat /\ wtMoves[wtMoves[z].to].row \in Nat
        /\ wtMoves[z].row < wtMoves[wtMoves[z].to].row
    BY <1>1, <2>1
  <2>7. n - wtMoves[z].row <= n - wtMoves[wtMoves[z].to].row
    <3>. HIDE DEF T
    <3>. QED  BY <2>3, <2>4, <2>5
  <2>. QED  BY <2>6, <2>7
<1>. QED  BY <1>3

LEMMA EndsSoFar == IInv /\ FoundInv /\ EndInv => OldIdLeads
<1> SUFFICES ASSUME IInv, FoundInv, EndInv, NEW p \in Places,
                    NEW now, now = Placed(wtMoves)[p], now # p
             PROVE  entry[left[p]] \in {now, Nested} \/ NamedFor(left[p], now)
  BY DEF OldIdLeads
<1>0. ChainInv /\ wtMoves \in Recorded
  BY DEF EndInv, ChainInv, Recorded
<1>1. Leads(p)
  BY <1>0, PlacedIs DEF Leads
<1>2. PICK y \in Places : EndsAt(y, now) /\ (left[y] = left[p] \/ Away(left[p]))
  BY <1>0, <1>1, PlacedEnds
<1>3. now \in Places /\ left[p] \in Worktrees
  BY <1>0, <1>1, <1>2, LeadsTo DEF EndsAt
<1>4. CASE Away(left[p])
  BY <1>4 DEF Away
<1>5. CASE Homed(left[p], now)
  BY <1>5 DEF Homed, Away, Key, Moves, NamedFor, Named
<1>. QED  BY <1>2, <1>3, <1>4, <1>5 DEF EndInv, EndHome

\* A step that leaves every worktree's rows under their id leaves each chain's end
\* where it has to be, when every chain after it ends where one did before.
LEMMA EndsStay ==
    ASSUME EndInv, UNCHANGED left, HomesStay, ChainInv',
           \A x, p \in Places : EndsAt(x, p)' =>
              \E y \in Places : EndsAt(y, p) /\ (left[y] = left[x] \/ Away(left[x])),
           \A u \in Tasks, f \in Fibers : task'[u] = f /\ f.rec # None =>
              /\ f.rec.from \in Places
              /\ task[u] = f \/ EndBrings(f)
    PROVE  EndInv'
<1>1. \A x, p \in Places : EndsAt(x, p) => left[x] \in Worktrees
  BY LeadsTo DEF EndInv, EndsAt
<1>2. \A x, p \in Places : EndsAt(x, p)' => left'[x] = left[x] /\ left[x] \in Worktrees
  <2> SUFFICES ASSUME NEW x \in Places, NEW p \in Places, EndsAt(x, p)'
               PROVE  left'[x] = left[x] /\ left[x] \in Worktrees
    OBVIOUS
  <2>1. left'[x] # None /\ left'[x] \in Worktrees \cup {None}
    BY DEF ChainInv, EndsAt, Leads
  <2>. QED  BY <2>1
<1>3. EndHome'
  <2> SUFFICES ASSUME NEW x \in Places, NEW p \in Places, EndsAt(x, p)'
               PROVE  Homed(left[x], p)'
    BY DEF EndHome
  <2>1. PICK y \in Places : EndsAt(y, p) /\ (left[y] = left[x] \/ Away(left[x]))
    OBVIOUS
  <2>2. Homed(left[y], p) /\ p \in Spots
    BY <2>1 DEF EndInv, EndHome, Spots
  <2>3. Homed(left[x], p)
    BY <2>1, <2>2 DEF Homed
  <2>. QED  BY <1>2, <2>2, <2>3 DEF HomesStay
<1>4. EndFollows'
  <2> SUFFICES ASSUME NEW x \in Places, NEW q \in Places, EndsAt(x, q)',
                      moving'[q] # None, ~moving'[q].carried
               PROVE  Its(q, left[x])'
    BY DEF EndFollows
  <2>1. PICK y \in Places : EndsAt(y, q) /\ (left[y] = left[x] \/ Away(left[x]))
    OBVIOUS
  <2>2. /\ Homed(left[y], q)
        /\ moving[q] # None /\ ~moving[q].carried => Its(q, left[y])
    BY <2>1 DEF EndInv, EndHome, EndFollows
  <2>3. /\ Homed(left[x], q)
        /\ moving[q] # None /\ ~moving[q].carried => Its(q, left[x])
    BY <2>1, <2>2 DEF Homed, Its
  <2>. QED  BY <1>2, <2>3 DEF HomesStay
<1>5. ASSUME NEW u \in Tasks, NEW f \in Fibers, task'[u] = f, f.rec # None
      PROVE  EndBrings(f)'
  <2> SUFFICES ASSUME f.at = "carry", f.rec.link = None, ~f.rec.carried,
                      NEW x \in Places, EndsAt(x, f.rec.from)'
               PROVE  Away(left[x])'
    BY DEF EndBrings
  <2>1. f.rec.from \in Places /\ EndBrings(f)
    BY <1>5 DEF EndInv
  <2>2. PICK y \in Places : EndsAt(y, f.rec.from) /\ (left[y] = left[x] \/ Away(left[x]))
    BY <2>1
  <2>3. Away(left[x])
    BY <2>1, <2>2 DEF EndBrings
  <2>. QED  BY <1>2, <2>1, <2>3 DEF HomesStay
<1>. QED  BY <1>3, <1>4, <1>5 DEF EndInv

\* Of a step that leaves the recorded moves.
LEMMA ChainsKeep ==
    ASSUME EndInv, UNCHANGED <<wtMoves, left>>, HomesStay,
           \A u \in Tasks, f \in Fibers : task'[u] = f /\ f.rec # None =>
              task[u] = f \/ EndBrings(f)
    PROVE  EndInv'
<1>1. \A x \in Places : Leads(x) => left[x] \in Worktrees
  BY LeadsTo DEF EndInv
<1>2. \A w \in Worktrees : Away(w) => Away(w)'
  BY DEF HomesStay
<1>3. ChainInv'
  <2>1. \A x \in Places : Leads(x)' <=> Leads(x)
    BY DEF Leads
  <2>2. ASSUME NEW x \in Places, Leads(x)
        PROVE  /\ left[x] # None
               /\ Leads(wtMoves[x].to) => /\ wtMoves[wtMoves[x].to].row > wtMoves[x].row
                                          /\ \/ left[wtMoves[x].to] = left[x]
                                             \/ Away(left[x])'
    BY <1>1, <1>2, <2>2 DEF EndInv, ChainInv
  <2>3. \E n \in Nat : \A x \in Places : Leads(x) => wtMoves[x].row <= n
    BY DEF EndInv, ChainInv
  <2>. QED  BY <2>1, <2>2, <2>3 DEF EndInv, ChainInv, Leads, Away
<1>4. \A x, p \in Places : EndsAt(x, p)' <=> EndsAt(x, p)
  BY DEF EndsAt, Leads
<1>5. \A f \in Fibers : f.rec # None => f.rec.from \in Places
  BY RecOf
<1>. QED  BY <1>3, <1>4, <1>5, EndsStay

\* Only one worker has changed, and goes on to no carry of what no worktree is.
LEMMA ChainsGo ==
    ASSUME IInv, EndInv, UNCHANGED <<wtMoves, left>>, HomesStay, NEW t \in Tasks,
           \A u \in Tasks \ {t} : task'[u] = task[u],
           \/ task'[t].at # "carry" \/ task'[t].rec = None
           \/ task'[t].rec.link # None \/ task'[t].rec.carried
    PROVE  EndInv'
<1>1. \A f \in Fibers : task'[t] = f /\ f.rec # None => EndBrings(f)
  BY DEF EndBrings
<1>. QED  BY <1>1, ChainsKeep

\* What was taken to leave the place a carry is of is the worktree listed where the
\* move goes, which is the record's.
LEMMA CarryHomes ==
    ASSUME OneFiber, IInv, IInv', FoundInv, KeptInv, EndInv, NEW t \in Tasks,
           NEW f \in Fibers, task[t] = f, Carry(t), ~f.rec.carried,
           NEW v, v = CHOOSE w \in Worktrees : entry[w] = f.rec.to
    PROVE  /\ v \in Worktrees /\ Homed(v, f.rec.to)'
           /\ \A x \in Places : EndsAt(x, f.rec.from) =>
                 left[x] = v \/ Away(left[x])
<1> DEFINE r == f.rec
           q == f.rec.from
           to == f.rec.to
           w == f.rec.link
           row == moving[q]
<1>1. /\ f.at = "carry" /\ Listed(to) /\ UNCHANGED entry
      /\ moving' = [moving EXCEPT ![q] =
                       IF @ = None THEN None ELSE [@ EXCEPT !.carried = TRUE]]
  BY DEF Carry, At, disks
<1>2. f.at \in AtWork
  BY <1>1 DEF AtWork, InHand, Steps
<1>3. /\ q \in Places /\ to \in Places /\ to \in Spots /\ to # q /\ to # Nested
      /\ row # None /\ row \in Records /\ row.to = to /\ row.link = w
      /\ w \in Worktrees \cup {None} /\ (w # None => Moves(q, w))
  BY <1>2, AtHand, PlaceAssumption DEF Spots, Like, Moves
<1>4. /\ row.carried = r.carried /\ (w # None => entry[w] \in {to, Nested})
  BY <1>1, <1>2, BringsNow DEF Brings
<1>5. v \in Worktrees /\ entry[v] = to
  BY <1>1 DEF Listed
<1>6. \A p \in Places : moving[p] # None => p # to /\ (moving[p].to = to => p = q)
  BY <1>3 DEF FoundInv, RowsInv
<1>7. \A u \in Worktrees : entry[u] = to => u = v
  <2> SUFFICES ASSUME NEW u \in Worktrees, entry[u] = to PROVE u = v
    OBVIOUS
  <2>1. WholeAt(u, to) /\ WholeAt(v, to)
    BY <1>3, <1>5, <1>6, ListedIs DEF Moves
  <2>. QED  BY <1>3, <2>1, HeldIsFolder
<1>8. /\ moving'[q] # None /\ moving'[q].carried /\ moving'[q].to = to
      /\ moving'[q].link = w
      /\ \A p \in Places \ {q} : moving'[p] = moving[p]
  <2>1. PICK m \in Records : m = [row EXCEPT !.carried = TRUE]
    BY <1>3 DEF Records
  <2>2. m # None /\ m.carried /\ m.to = to /\ m.link = w
    BY <1>3, <2>1, NoneAssumption DEF Records
  <2>. QED  BY <1>1, <1>3, <2>1, <2>2 DEF IInv, RecordInv
<1>9. Homed(v, to)'
  <2>1. CASE \A p \in Places : ~Moves(p, v)
    <3>1. \A p \in Places : ~Moves(p, v)'
      BY <1>3, <1>8, <2>1 DEF Moves
    <3>. QED  BY <1>1, <1>5, <3>1 DEF Homed
  <2>2. ASSUME NEW p \in Places, Moves(p, v) PROVE Homed(v, to)'
    <3>1. /\ moving[p] # None /\ moving[p].link = v /\ v # None
          /\ Sits(moving[p]) /\ moving[p].from = p
      BY <1>5, <2>2, KnownRow, PlaceAssumption DEF Moves
    <3>2. p = q
      BY <1>3, <1>5, <1>6, <3>1 DEF Sits
    <3>. QED  BY <1>3, <1>8, <3>1, <3>2 DEF Homed, Moves, Key
  <2>. QED  BY <2>1, <2>2
<1>10. ASSUME NEW x \in Places, EndsAt(x, q) PROVE left[x] = v \/ Away(left[x])
  <2>1. left[x] \in Worktrees /\ Its(q, left[x])
    BY <1>3, <1>4, <1>10, LeadsTo DEF EndInv, EndFollows, EndsAt
  <2>2. CASE w = None
    BY <1>1, <1>10, <2>2 DEF EndInv, EndBrings, Fibers, InHand, IInv, FiberInv, Shaped, Steps
  <2>3. CASE w # None
    BY <1>3, <1>4, <1>7, <2>1, <2>3 DEF Its, Away
  <2>. QED  BY <2>2, <2>3
<1>. QED  BY <1>5, <1>9, <1>10

\* Each chain leads on where it did, or past the two places to where that led.
LEMMA CarryLeads ==
    ASSUME ChainInv, NEW q \in Places, NEW to \in Places, q # to,
           wtMoves' = RecordMove(wtMoves, q, to),
           \A a, b \in {q, to} : Leads(a) /\ wtMoves[a].to = b => ~Leads(b)
    PROVE  /\ wtMoves' \in Recorded /\ Leads(q)' /\ wtMoves'[q].to = to /\ ~Leads(to)'
           /\ wtMoves'[q].row \in Nat
           /\ \A x \in Places \ {q, to} :
                 /\ Leads(x)' <=> Leads(x)
                 /\ Leads(x) =>
                       /\ wtMoves'[x].row = wtMoves[x].row
                       /\ wtMoves'[x].row < wtMoves'[q].row
                       /\ \E y \in Places :
                             /\ Leads(y) /\ wtMoves[y].to = wtMoves'[x].to
                             /\ wtMoves[x].row <= wtMoves[y].row
                             /\ left[y] = left[x] \/ Away(left[x])
                             /\ wtMoves[y].to \in {q, to} => ~Leads(wtMoves[y].to)
<1> DEFINE C == Claimed(wtMoves, {q, to})
<1>1. wtMoves \in Recorded /\ {q, to} \in SUBSET Places
  BY DEF ChainInv, Recorded
<1>2. PICK n \in Nat : \A x \in Places : wtMoves[x] # None => wtMoves[x].row <= n
  BY DEF ChainInv, Leads
<1>3. /\ wtMoves' \in Recorded /\ wtMoves'[q] # None /\ wtMoves'[q].to = to
      /\ \A x \in Places \ {q} :
            /\ wtMoves'[x] = C[x]
            /\ wtMoves'[x] # None => wtMoves'[x].row < wtMoves'[q].row
  <2> DEFINE R == RecordMove(wtMoves, q, to)
  <2>1. /\ R \in Recorded /\ R[q] # None /\ R[q].to = to
        /\ \A x \in Places \ {q} : R[x] = C[x]
        /\ \A x \in Places \ {q} : R[x] # None => R[x].row < R[q].row
    BY <1>1, <1>2, RecordMoveIs, Zenon
  <2>. HIDE DEF R, C
  <2>2. wtMoves' = R
    BY DEF R
  <2>. QED  BY <2>1, <2>2
<1>4. /\ C[to] = None
      /\ \A x \in Places \ {q, to} :
            /\ wtMoves[x] = None <=> C[x] = None
            /\ wtMoves[x] # None =>
                  /\ C[x].row = wtMoves[x].row
                  /\ C[x].to = IF wtMoves[x].to \in {q, to} /\ Onward(wtMoves, x)
                               THEN wtMoves[wtMoves[x].to].to ELSE wtMoves[x].to
  BY <1>1, ClaimedIs
<1>5. wtMoves'[q].row \in Nat
  BY <1>3, RowOf
<1>. HIDE DEF C
<1>6. ASSUME NEW x \in Places \ {q, to}, Leads(x)
      PROVE  \E y \in Places :
                /\ Leads(y) /\ wtMoves[y].to = wtMoves'[x].to
                /\ wtMoves[x].row <= wtMoves[y].row
                /\ left[y] = left[x] \/ Away(left[x])
                /\ wtMoves[y].to \in {q, to} => ~Leads(wtMoves[y].to)
  <2> DEFINE s == wtMoves[x].to
  <2>1. wtMoves'[x].to = IF s \in {q, to} /\ Leads(s) THEN wtMoves[s].to ELSE s
    BY <1>3, <1>4, <1>6, LeadsTo DEF Leads
  <2>2. /\ s \in Places /\ wtMoves[x].row \in Nat
        /\ Leads(s) => /\ wtMoves[x].row < wtMoves[s].row /\ wtMoves[s].row \in Nat
                       /\ left[s] = left[x] \/ Away(left[x])
    BY <1>6, LeadsTo
  <2>3. CASE s \in {q, to} /\ Leads(s)
    <3>1. wtMoves'[x].to = wtMoves[s].to /\ wtMoves[x].row <= wtMoves[s].row
      BY <2>1, <2>2, <2>3
    <3>2. wtMoves[s].to \in {q, to} => ~Leads(wtMoves[s].to)
      BY <2>3
    <3>. QED  BY <2>2, <2>3, <3>1, <3>2
  <2>4. CASE ~(s \in {q, to} /\ Leads(s))
    <3>1. wtMoves'[x].to = s /\ wtMoves[x].row <= wtMoves[x].row
      BY <2>1, <2>2, <2>4
    <3>. QED  BY <1>6, <2>2, <2>4, <3>1
  <2>. QED  BY <2>3, <2>4
<1>. QED  BY <1>3, <1>4, <1>5, <1>6 DEF Leads

\* The chains of the worktree carried end where it goes now, the others where they did.
LEMMA CarryEnds ==
    ASSUME OneFiber, Unlooped, IInv, IInv', FoundInv, KeptInv, EndInv,
           NEW t \in Tasks, Carry(t)
    PROVE  EndInv'
<1>1. PICK f \in Fibers : task[t] = f
  BY DEF IInv, FiberInv
<1> DEFINE r == f.rec
           q == f.rec.from
           to == f.rec.to
<1>2. /\ f.at = "carry" /\ Go(t, "ref") /\ UNCHANGED entry
      /\ \A u \in Tasks \ {t} : task'[u] = task[u]
      /\ task'[t].at = "ref" /\ task'[t].rec = r
  BY <1>1 DEF Carry, At, disks, Go, IInv, FiberInv, Fibers
<1>3. f.at \in AtWork
  BY <1>2 DEF AtWork, InHand, Steps
<1>4. CASE r.carried /\ UNCHANGED <<wtMoves, left, moving>>
  BY <1>2, <1>4, SameHomes, ChainsGo
<1>5. CASE /\ ~r.carried /\ wtMoves' = RecordMove(wtMoves, q, to)
           /\ left' = [left EXCEPT ![q] = CHOOSE w \in Worktrees : entry[w] = to]
           /\ moving' = [moving EXCEPT ![q] =
                            IF @ = None THEN None ELSE [@ EXCEPT !.carried = TRUE]]
  <2>1. /\ q \in Places /\ to \in Places /\ q # to /\ Working(t)
        /\ moving[q] # None /\ moving[q].to = to /\ moving[q] \in Records
    BY <1>1, <1>3, AtHand DEF Like
  <2>2. ~moving[q].carried
    BY <1>1, <1>2, <1>3, <1>5, BringsNow DEF Brings
  <2>3. PICK m \in Records : m = [moving[q] EXCEPT !.carried = TRUE]
    BY <2>1 DEF Records
  <2>4. /\ moving'[q] = m /\ m.carried
        /\ \A p \in Places \ {q} : moving'[p] = moving[p]
    BY <1>5, <2>1, <2>3 DEF IInv, RecordInv, Records
  <2>5. \A p \in Places : moving[p] # None => p # to
    BY <2>1 DEF FoundInv, RowsInv
  <2>0. PICK v : v = CHOOSE w \in Worktrees : entry[w] = to
    OBVIOUS
  <2>6. /\ v \in Worktrees /\ Homed(v, to)'
        /\ \A x \in Places : EndsAt(x, q) => left[x] = v \/ Away(left[x])
    BY <1>1, <1>5, <2>0, CarryHomes
  <2>7. \A w \in Worktrees, p \in Spots : Homed(w, p) /\ p # q => Homed(w, p)'
    BY <1>1, CarryKept
  <2>8. ChainInv /\ left \in [Places -> Worktrees \cup {None}]
    BY DEF EndInv, ChainInv
  <2>9. \A a, b \in {q, to} : Leads(a) /\ wtMoves[a].to = b => ~Leads(b)
    <3> SUFFICES ASSUME NEW a \in {q, to}, Leads(a), wtMoves[a].to \in {q, to},
                        Leads(wtMoves[a].to)
                 PROVE  FALSE
      OBVIOUS
    <3>1. wtMoves[a].to # a /\ Onward(wtMoves, a)
      BY <2>1, <2>8, LeadsTo
    <3>. QED  BY <2>1, <2>2, <3>1 DEF Unlooped, Leads
  <2>10. /\ wtMoves' \in Recorded /\ Leads(q)' /\ wtMoves'[q].to = to /\ ~Leads(to)'
         /\ wtMoves'[q].row \in Nat
         /\ \A x \in Places \ {q, to} :
               /\ Leads(x)' <=> Leads(x)
               /\ Leads(x) =>
                     /\ wtMoves'[x].row = wtMoves[x].row
                     /\ wtMoves'[x].row < wtMoves'[q].row
                     /\ \E y \in Places :
                           /\ Leads(y) /\ wtMoves[y].to = wtMoves'[x].to
                           /\ wtMoves[x].row <= wtMoves[y].row
                           /\ left[y] = left[x] \/ Away(left[x])
                           /\ wtMoves[y].to \in {q, to} => ~Leads(wtMoves[y].to)
    BY <1>5, <2>1, <2>8, <2>9, CarryLeads
  <2>11. /\ left' \in [Places -> Worktrees \cup {None}] /\ left'[q] = v
         /\ \A x \in Places \ {q} : left'[x] = left[x]
    BY <1>5, <2>0, <2>1, <2>6, <2>8
  <2>12. \A x \in Places : Leads(x) => left[x] \in Worktrees
    BY <2>8, LeadsTo
  <2>13. \A w : Away(w)' <=> Away(w)
    BY <1>2 DEF Away
  <2>14. ASSUME NEW x \in Places, Leads(x)', Leads(wtMoves[x].to)'
         PROVE  /\ wtMoves'[wtMoves'[x].to].row > wtMoves'[x].row
                /\ left'[wtMoves'[x].to] = left'[x] \/ Away(left'[x])
    <3>1. x \in Places \ {q, to} /\ Leads(x)
      BY <2>10, <2>14
    <3>2. PICK y \in Places :
             /\ Leads(y) /\ wtMoves[y].to = wtMoves'[x].to
             /\ wtMoves[x].row <= wtMoves[y].row
             /\ left[y] = left[x] \/ Away(left[x])
             /\ wtMoves[y].to \in {q, to} => ~Leads(wtMoves[y].to)
      BY <2>10, <3>1
    <3> DEFINE z == wtMoves[y].to
    <3>3. /\ z \in Places /\ wtMoves[y].row \in Nat
          /\ Leads(z) => /\ wtMoves[y].row < wtMoves[z].row /\ wtMoves[z].row \in Nat
                         /\ left[z] = left[y] \/ Away(left[y])
      BY <2>8, <3>2, LeadsTo
    <3>4. z # to /\ left'[x] = left[x] /\ wtMoves'[x].row = wtMoves[x].row
          /\ wtMoves[x].row \in Nat
      BY <2>8, <2>10, <2>11, <2>14, <3>1, <3>2, LeadsTo
    <3>5. CASE z = q
      <4>1. EndsAt(y, q)
        BY <3>2, <3>5 DEF EndsAt
      <4>2. left[y] = v \/ Away(left[y])
        BY <2>6, <4>1
      <4>. QED  BY <2>10, <2>11, <3>1, <3>2, <3>4, <3>5, <4>2
    <3>6. CASE z # q
      <4>1. z \in Places \ {q, to} /\ Leads(z) /\ wtMoves'[z].row = wtMoves[z].row
            /\ left'[z] = left[z]
        BY <2>10, <2>11, <2>14, <3>2, <3>3, <3>4, <3>6
      <4>. QED  BY <3>2, <3>3, <3>4, <4>1
    <3>. QED  BY <3>5, <3>6
  <2>15. ChainInv'
    <3>1. \A x \in Places : Leads(x)' => left'[x] # None
      BY <2>6, <2>10, <2>11, <2>12, PlaceAssumption
    <3>2. \A x \in Places : Leads(x)' => wtMoves'[x].row <= wtMoves'[q].row
      <4> SUFFICES ASSUME NEW x \in Places, Leads(x)'
                   PROVE  wtMoves'[x].row <= wtMoves'[q].row
        OBVIOUS
      <4>1. wtMoves'[x].row \in Nat
        BY <2>10, RowOf DEF Leads
      <4>. QED  BY <2>10, <4>1
    <3>. QED  BY <2>10, <2>11, <2>13, <2>14, <3>1, <3>2 DEF ChainInv, Recorded
  <2>16. ASSUME NEW x \in Places, NEW p \in Places, EndsAt(x, p)'
         PROVE  /\ p # q
                /\ \/ left'[x] = v /\ p = to
                   \/ \E y \in Places : /\ EndsAt(y, p)
                                        /\ left[y] = left'[x] \/ Away(left'[x])
    <3>1. Leads(x)' /\ wtMoves'[x].to = p /\ ~Leads(p)'
      BY <2>16 DEF EndsAt
    <3>2. p # q
      BY <2>10, <3>1
    <3>3. CASE x = q
      BY <2>10, <2>11, <3>1, <3>2, <3>3
    <3>4. CASE x # q
      <4>1. x \in Places \ {q, to} /\ Leads(x) /\ left'[x] = left[x]
        BY <2>10, <2>11, <3>1, <3>4
      <4>2. PICK y \in Places :
               /\ Leads(y) /\ wtMoves[y].to = p
               /\ left[y] = left[x] \/ Away(left[x])
               /\ p \in {q, to} => ~Leads(p)
        BY <2>10, <3>1, <4>1
      <4>3. ~Leads(p)
        BY <2>10, <3>1, <3>2, <4>2
      <4>4. EndsAt(y, p)
        BY <4>2, <4>3 DEF EndsAt
      <4>. QED  BY <3>2, <4>1, <4>2, <4>4
    <3>. QED  BY <3>3, <3>4
  <2>17. EndHome'
    <3> SUFFICES ASSUME NEW x \in Places, NEW p \in Places, EndsAt(x, p)',
                        NEW u, u = left'[x]
                 PROVE  Homed(u, p)'
      BY DEF EndHome, Homed, Away, Moves, Key
    <3>1. CASE u = v /\ p = to
      BY <2>6, <3>1
    <3>2. ASSUME NEW y \in Places, EndsAt(y, p), left[y] = u \/ Away(u)
          PROVE  Homed(u, p)'
      <4>1. PICK w \in Worktrees : w = left[y]
        BY <2>12, <3>2 DEF EndsAt
      <4>2. Homed(w, p) /\ p \in Spots /\ p # q
        BY <2>16, <3>2, <4>1 DEF EndInv, EndHome, Spots
      <4>3. Homed(w, p)'
        BY <2>7, <4>2
      <4>. QED  BY <2>13, <3>2, <4>1, <4>3 DEF Homed
    <3>. QED  BY <2>16, <3>1, <3>2
  <2>18. EndFollows'
    <3> SUFFICES ASSUME NEW x \in Places, NEW p \in Places, EndsAt(x, p)',
                        moving'[p] # None, ~moving'[p].carried
                 PROVE  Its(p, left[x])'
      BY DEF EndFollows
    <3>1. p # q /\ moving'[p] = moving[p]
      BY <2>4
    <3>2. PICK y \in Places : EndsAt(y, p) /\ (left[y] = left'[x] \/ Away(left'[x]))
      BY <2>5, <2>16, <3>1
    <3>3. Its(p, left[y])
      BY <3>1, <3>2 DEF EndInv, EndFollows
    <3>. QED  BY <1>2, <3>1, <3>2, <3>3 DEF Its, Away
  <2>19. ASSUME NEW u \in Tasks, NEW g \in Fibers, task'[u] = g, g.rec # None
         PROVE  EndBrings(g)'
    <3> SUFFICES ASSUME g.at = "carry", g.rec.link = None, ~g.rec.carried,
                        NEW x \in Places, EndsAt(x, g.rec.from)'
                 PROVE  Away(left[x])'
      BY DEF EndBrings
    <3>1. u # t /\ task[u] = g
      BY <1>2, <2>19
    <3>2. g.at \in AtWork
      BY DEF AtWork, InHand, Steps
    <3>3. g.rec.from \in Places /\ moving[g.rec.from] # None /\ Working(u)
      BY <3>1, <3>2, AtHand
    <3>4. g.rec.from # q /\ g.rec.from # to
      BY <1>1, <2>1, <2>5, <3>1, <3>3 DEF IInv, OneWorker
    <3>5. PICK y \in Places : /\ EndsAt(y, g.rec.from)
                              /\ left[y] = left'[x] \/ Away(left'[x])
      BY <2>16, <3>3, <3>4
    <3>6. Away(left[y])
      BY <3>1, <3>5, <2>19 DEF EndInv, EndBrings
    <3>. QED  BY <2>13, <3>5, <3>6 DEF Away
  <2>. QED  BY <2>15, <2>17, <2>18, <2>19 DEF EndInv
<1>. QED  BY <1>1, <1>4, <1>5 DEF Carry

\* The chains that led to a folder made go whole, and what left it is led past.
LEMMA CleanEnds ==
    ASSUME IInv, IInv', EndInv, NEW t \in Tasks, CreateForgets(t)
    PROVE  EndInv'
<1>1. PICK f \in Fibers : task[t] = f
  BY DEF IInv, FiberInv
<1> DEFINE p == f.move.to
           M == ForgetMovesInto(wtMoves, p)
<1>2. /\ f.at = "made" /\ UNCHANGED <<entry, moving, left>>
      /\ wtMoves' = Claimed(M, {p})
      /\ \A u \in Tasks \ {t} : task'[u] = task[u]
      /\ task'[t] = Idle
  BY <1>1 DEF CreateForgets, At, disks, IInv, FiberInv
<1>0. p \in Places
  BY <1>1, <1>2 DEF IInv, FiberInv, Shaped, Asked
<1>3. ChainInv /\ wtMoves \in Recorded
  BY DEF EndInv, ChainInv, Recorded
<1>4. \A x \in Places : /\ M[x] \in {None, wtMoves[x]}
                        /\ M[x] # None <=> Leads(x) /\ Placed(wtMoves)[x] # p
  BY <1>3, RowAssumption DEF ForgetMovesInto, Leads, Recorded
<1>5. M \in Recorded
  BY <1>3 DEF ForgetMovesInto, Recorded
<1>6. \A x \in Places : Leads(x) =>
         Placed(wtMoves)[x] = IF Leads(wtMoves[x].to) THEN Placed(wtMoves)[wtMoves[x].to]
                              ELSE wtMoves[x].to
  BY <1>3, LeadsTo, PlacedIs DEF Leads
<1>. HIDE DEF M
<1>7. ASSUME NEW x \in Places, M[x] # None
      PROVE  /\ Leads(x) /\ M[x] = wtMoves[x] /\ wtMoves[x].to \in Places
             /\ M[wtMoves[x].to] = None <=> ~Leads(wtMoves[x].to)
             /\ wtMoves[x].to = p => Leads(p)
             /\ wtMoves[x].to = p => Onward(M, x)
             /\ Leads(p) => wtMoves[p].to # p
  <2>1. Leads(x) /\ M[x] = wtMoves[x] /\ Placed(wtMoves)[x] # p /\ wtMoves[x].to \in Places
    BY <1>3, <1>4, <1>7, LeadsTo
  <2>2. M[wtMoves[x].to] = None <=> ~Leads(wtMoves[x].to)
    BY <1>4, <1>6, <2>1
  <2>3. wtMoves[x].to = p => Leads(p)
    BY <1>6, <2>1
  <2>4. wtMoves[x].to = p => M[p] # None /\ M[p] = wtMoves[p]
    BY <1>4, <2>1, <2>2, <2>3
  <2>5. wtMoves[x].to = p => Onward(wtMoves, x)
    BY <1>3, <2>1, <2>3, LeadsTo
  <2>6. wtMoves[x].to = p => Onward(M, x)
    BY <2>1, <2>4, <2>5 DEF Onward
  <2>7. Leads(p) => wtMoves[p].to # p
    BY <1>0, <1>3, LeadsTo
  <2>. QED  BY <2>1, <2>2, <2>3, <2>6, <2>7
<1>8. /\ wtMoves' \in Recorded /\ wtMoves'[p] = None
      /\ \A x \in Places \ {p} :
            /\ M[x] = None <=> wtMoves'[x] = None
            /\ M[x] # None =>
                  /\ wtMoves'[x].row = M[x].row
                  /\ wtMoves'[x].to = IF M[x].to = p /\ Onward(M, x) THEN M[M[x].to].to
                                      ELSE M[x].to
  <2> DEFINE C == Claimed(M, {p})
  <2>1. /\ C \in Recorded /\ C[p] = None
        /\ \A x \in Places \ {p} :
              /\ M[x] = None <=> C[x] = None
              /\ M[x] # None =>
                    /\ C[x].row = M[x].row
                    /\ C[x].to = IF M[x].to \in {p} /\ Onward(M, x) THEN M[M[x].to].to
                                 ELSE M[x].to
    <3>1. {p} \in SUBSET Places /\ p \in {p}
      BY <1>0
    <3>. HIDE DEF p
    <3>. QED  BY <1>5, <3>1, ClaimedIs, Zenon
  <2>. HIDE DEF C
  <2>2. wtMoves' = C
    BY <1>2 DEF C
  <2>. QED  BY <2>1, <2>2
<1>9. ASSUME NEW x \in Places, Leads(x)'
      PROVE  /\ Leads(x) /\ wtMoves'[x].row = wtMoves[x].row
             /\ wtMoves'[wtMoves'[x].to] = None => wtMoves[wtMoves'[x].to] = None
             /\ \E y \in Places :
                   /\ Leads(y) /\ wtMoves[y].to = wtMoves'[x].to
                   /\ wtMoves[x].row <= wtMoves[y].row
                   /\ left[y] = left[x] \/ Away(left[x])
  <2> DEFINE s == wtMoves[x].to
  <2>1. x # p /\ M[x] # None
    BY <1>8, <1>9 DEF Leads
  <2>2. /\ Leads(x) /\ M[x] = wtMoves[x] /\ s \in Places
        /\ M[s] = None <=> ~Leads(s)
    BY <1>7, <2>1
  <2>3. /\ wtMoves[x].row \in Nat
        /\ Leads(s) => /\ wtMoves[x].row < wtMoves[s].row /\ wtMoves[s].row \in Nat
                       /\ left[s] = left[x] \/ Away(left[x])
    BY <1>3, <2>2, LeadsTo
  <2>4. CASE s = p
    <3>1. Leads(p) /\ wtMoves[p].to # p /\ M[p] # None /\ M[p] = wtMoves[p]
      BY <1>0, <1>7, <2>1, <2>2, <2>4
    <3>2. wtMoves'[x].to = wtMoves[p].to
      BY <1>7, <1>8, <2>1, <2>2, <2>4, <3>1
    <3>3. wtMoves[p].to \in Places /\ (M[wtMoves[p].to] = None <=> ~Leads(wtMoves[p].to))
      BY <1>0, <1>7, <3>1
    <3>4. wtMoves'[wtMoves[p].to] = None => wtMoves[wtMoves[p].to] = None
      BY <1>8, <3>1, <3>3 DEF Leads
    <3>. QED  BY <1>0, <1>8, <2>1, <2>2, <2>3, <2>4, <3>1, <3>2, <3>4
  <2>5. CASE s # p
    <3>1. wtMoves'[x].to = s
      BY <1>8, <2>1, <2>2, <2>5
    <3>2. wtMoves'[s] = None => wtMoves[s] = None
      BY <1>8, <2>2, <2>5 DEF Leads
    <3>. QED  BY <1>8, <2>1, <2>2, <2>3, <3>1, <3>2
  <2>. QED  BY <2>4, <2>5
<1>10. \A x \in Places : Leads(x)' => left'[x] = left[x] /\ left[x] \in Worktrees
  BY <1>2, <1>3, <1>9, LeadsTo
<1>11. ASSUME NEW x \in Places, Leads(x)', wtMoves'[wtMoves'[x].to] # None
       PROVE  /\ wtMoves'[wtMoves'[x].to].row > wtMoves'[x].row
              /\ left[wtMoves'[x].to] = left[x] \/ Away(left[x])
  <2>1. PICK y \in Places : /\ Leads(y) /\ wtMoves[y].to = wtMoves'[x].to
                            /\ wtMoves[x].row <= wtMoves[y].row
                            /\ left[y] = left[x] \/ Away(left[x])
    BY <1>9, <1>11
  <2>2. PICK z \in Places : z = wtMoves[y].to /\ wtMoves[y].row \in Nat
    BY <1>3, <2>1, LeadsTo
  <2>3. Leads(z)' /\ wtMoves'[z] # None
    BY <1>11, <2>1, <2>2 DEF Leads
  <2>4. Leads(z) /\ wtMoves'[z].row = wtMoves[z].row
    BY <1>8, <1>9, <2>2, <2>3 DEF Leads
  <2>5. /\ wtMoves[y].row < wtMoves[z].row /\ wtMoves[z].row \in Nat
        /\ left[z] = left[y] \/ Away(left[y])
    BY <1>3, <2>1, <2>2, <2>4, LeadsTo
  <2>6. wtMoves'[x].row = wtMoves[x].row /\ wtMoves[x].row \in Nat
    BY <1>3, <1>9, <1>11, LeadsTo
  <2>. QED  BY <2>1, <2>2, <2>4, <2>5, <2>6
<1>12. ChainInv'
  <2>1. PICK n \in Nat : \A x \in Places : Leads(x) => wtMoves[x].row <= n
    BY <1>3 DEF ChainInv
  <2>2. \A x \in Places : Leads(x)' => wtMoves'[x].row <= n
    BY <1>9, <2>1
  <2>3. \A x \in Places : Leads(x)' => left'[x] # None
    BY <1>10, PlaceAssumption
  <2>4. left' \in [Places -> Worktrees \cup {None}]
    BY <1>2, <1>3 DEF ChainInv
  <2>. QED  BY <1>2, <1>8, <1>10, <1>11, <2>2, <2>3, <2>4
            DEF ChainInv, Recorded, Leads, Away
<1>13. ASSUME NEW x \in Places, NEW e \in Places, EndsAt(x, e)'
       PROVE  \E y \in Places : EndsAt(y, e) /\ (left[y] = left[x] \/ Away(left[x]))
  <2>1. Leads(x)' /\ wtMoves'[x].to = e /\ wtMoves'[e] = None
    BY <1>13 DEF EndsAt, Leads
  <2>2. PICK y \in Places : /\ Leads(y) /\ wtMoves[y].to = e
                            /\ left[y] = left[x] \/ Away(left[x])
    BY <1>9, <2>1
  <2>3. ~Leads(e)
    BY <1>9, <2>1 DEF Leads
  <2>. QED  BY <2>2, <2>3 DEF EndsAt
<1>14. HomesStay
  BY <1>2, SameHomes
<1>15. ASSUME NEW u \in Tasks, NEW g \in Fibers, task'[u] = g, g.rec # None
       PROVE  g.rec.from \in Places /\ task[u] = g
  BY <1>2, <1>15, RecOf, IdleRests
<1>. QED  BY <1>2, <1>12, <1>13, <1>14, <1>15, EndsStay

--------------------------------------------------------------------------------
(* The other steps.                                                            *)

LEMMA QuietEnds ==
    ASSUME IInv, IInv', FoundInv, EndInv, NEW t \in Tasks,
           \/ GitRenames(t) \/ GitFails(t) \/ RelinkFails(t) \/ PutIn(t) \/ PutInDies(t)
           \/ CarryFails(t) \/ RefFollows(t) \/ RefDrops(t) \/ RefFails(t) \/ Wipe(t)
           \/ Look(t) \/ Looked(t) \/ Resume(t) \/ ClaimWaits(t) \/ ClaimRefused(t)
           \/ \E w \in Worktrees, p \in Places : Ask(t, w, p) \/ CreateLooks(t, w, p)
    PROVE  EndInv'
<1>1. PICK f \in Fibers : task[t] = f
  BY DEF IInv, FiberInv
<1>2. SUFFICES ASSUME UNCHANGED <<entry, moving, wtMoves, left>>,
                      \A u \in Tasks \ {t} : task'[u] = task[u],
                      task'[t].at # "carry" \/ task'[t].rec = None
               PROVE  EndInv'
  <2>1. CASE GitRenames(t) \/ GitFails(t) \/ PutIn(t)
    <3>1. \E step \in AtWork : step # "carry" /\ Go(t, step)
      BY <2>1 DEF GitRenames, GitFails, PutIn, AtWork, InHand, Steps
    <3>2. task'[t].at # "carry" /\ \A u \in Tasks \ {t} : task'[u] = task[u]
      BY <1>1, <3>1 DEF Go, IInv, FiberInv, Fibers
    <3>. QED  BY <2>1, <3>2 DEF GitRenames, GitFails, PutIn, disks, kept
  <2>2. CASE RelinkFails(t) \/ PutInDies(t) \/ CarryFails(t)
    <3>1. PutDown(t) /\ UNCHANGED <<entry, moving, wtMoves, left>>
      BY <2>2 DEF RelinkFails, PutInDies, CarryFails, disks, kept
    <3>2. task'[t] \in Fibers
      BY DEF IInv, FiberInv
    <3>. QED  BY <3>1, <3>2, PutDownRests
  <2>3. CASE RefFollows(t) \/ RefDrops(t) \/ RefFails(t)
    <3>1. UNCHANGED <<entry, moving, wtMoves, left>>
      BY <2>3 DEF RefFollows, RefDrops, RefFails, disks, kept
    <3>2. Go(t, "refdrop") \/ \E captured : AfterRef(t, captured)
      BY <2>3 DEF RefFollows, RefDrops, RefFails
    <3>3. CASE Go(t, "refdrop")
      BY <1>1, <3>1, <3>3 DEF Go, IInv, FiberInv, Fibers
    <3>4. ASSUME NEW captured, AfterRef(t, captured)
          PROVE  task'[t].at # "carry" /\ \A u \in Tasks \ {t} : task'[u] = task[u]
      <4>1. PICK step \in {"wipefrom", "forget"} :
               task' = [task EXCEPT ![t].captured = captured, ![t].at = step]
        BY <3>4 DEF AfterRef
      <4>. QED  BY <1>1, <4>1 DEF IInv, FiberInv, Fibers
    <3>. QED  BY <3>1, <3>2, <3>3, <3>4
  <2>4. CASE Wipe(t)
    <3>1. f.at \in {"wipefrom", "wipeto"} /\ UNCHANGED <<entry, moving, wtMoves, left>>
          /\ (UNCHANGED task \/ Go(t, "forget"))
      BY <1>1, <2>4 DEF Wipe, kept
    <3>. QED  BY <1>1, <3>1 DEF Go, IInv, FiberInv, Fibers
  <2>5. CASE \/ Looked(t) \/ Resume(t) \/ ClaimWaits(t) \/ ClaimRefused(t)
             \/ \E w \in Worktrees, p \in Places : Ask(t, w, p) \/ CreateLooks(t, w, p)
    <3>1. /\ UNCHANGED <<entry, moving, wtMoves, left>>
          /\ \A u \in Tasks \ {t} : task'[u] = task[u]
      BY <2>5 DEF ClaimWaits, ClaimRefused, Resume, Looked, Ask, CreateLooks, disks, kept,
                  IInv, FiberInv
    <3>2. CASE ClaimRefused(t) \/ Looked(t)
      <4>1. task'[t] \in {Idle, [f EXCEPT !.at = "again"]}
        BY <1>1, <3>2 DEF ClaimRefused, Looked, IInv, FiberInv
      <4>. QED  BY <3>1, <4>1 DEF Idle, Fibers
    <3>3. CASE ClaimWaits(t) \/ Resume(t)
      BY <1>1, <3>1, <3>3 DEF ClaimWaits, Resume, IInv, FiberInv, Fibers
    <3>4. ASSUME NEW w \in Worktrees, NEW p \in Places, Ask(t, w, p) \/ CreateLooks(t, w, p)
          PROVE  task'[t].at # "carry"
      <4>1. CASE Ask(t, w, p)
        <5>1. PICK mv : task'[t] = [Idle EXCEPT !.at = "asked", !.move = mv]
          BY <4>1 DEF Ask, IInv, FiberInv
        <5>. QED  BY <5>1 DEF Idle
      <4>2. CASE CreateLooks(t, w, p)
        <5>1. PICK mv : task'[t] = [f EXCEPT !.at = "adding", !.move = mv]
          BY <1>1, <4>2 DEF CreateLooks, IInv, FiberInv
        <5>. QED  BY <5>1 DEF Fibers
      <4>. QED  BY <3>4, <4>1, <4>2
    <3>. QED  BY <2>5, <3>1, <3>2, <3>3, <3>4
  <2>6. CASE Look(t)
    <3>1. PICK todo, rec, at :
             /\ task' = [task EXCEPT ![t].todo = todo, ![t].rec = rec, ![t].at = at]
             /\ at \in {"next", "dead"}
      BY <2>6 DEF Look
    <3>2. task'[t].at # "carry" /\ \A u \in Tasks \ {t} : task'[u] = task[u]
      BY <1>1, <3>1 DEF IInv, FiberInv, Fibers
    <3>. QED  BY <2>6, <3>2 DEF Look, disks, kept
  <2>. QED  BY <2>1, <2>2, <2>3, <2>4, <2>5, <2>6
<1>. QED  BY <1>2, SameHomes, ChainsGo

\* A resume goes on to a carry of what no worktree is only where git lists none.
LEMMA JudgeEnds ==
    ASSUME IInv, IInv', FoundInv, KeptInv, EndInv, NEW t \in Tasks, Judge(t)
    PROVE  EndInv'
<1>1. PICK f \in Fibers : task[t] = f
  BY DEF IInv, FiberInv
<1> DEFINE r == f.rec
           q == f.rec.from
<1>2. PICK step : /\ f.at \in {"judge", "taken"} /\ Go(t, step)
                  /\ step = "carry" => Landed(r)
                  /\ UNCHANGED <<entry, moving, wtMoves, left>>
  BY <1>1 DEF Judge, At, disks, kept
<1>3. /\ \A u \in Tasks \ {t} : task'[u] = task[u]
      /\ task'[t].at = step /\ task'[t].rec = r
  BY <1>1, <1>2 DEF Go, IInv, FiberInv, Fibers
<1>4. f.at \in AtWork
  BY <1>2 DEF AtWork, InHand, Steps
<1>5. /\ moving[q].carried = r.carried /\ moving[q] # None /\ moving[q].link = r.link
      /\ q \in Places
  BY <1>1, <1>2, <1>4, AtHand, BringsNow DEF Brings, Like
<1>6. ASSUME step = "carry", r.link = None, ~r.carried, NEW x \in Places, EndsAt(x, q)
      PROVE  Away(left[x])
  <2>1. ~Listed(q)
    BY <1>2, <1>6 DEF Landed, AtSource, Mine
  <2>2. Its(q, left[x]) /\ left[x] \in Worktrees
    BY <1>5, <1>6, LeadsTo DEF EndInv, EndFollows, EndsAt
  <2>. QED  BY <1>5, <1>6, <2>1, <2>2, PlaceAssumption DEF Its, Listed
<1>7. \A g \in Fibers : task'[t] = g => EndBrings(g)
  BY <1>3, <1>6 DEF EndBrings
<1>. QED  BY <1>2, <1>3, <1>7, SameHomes, ChainsKeep

LEMMA PointedEnds ==
    ASSUME OneFiber, IInv, IInv', FoundInv, KeptInv, EndInv, NEW t \in Tasks,
           GitRecords(t) \/ GitNests(t) \/ Repair(t) \/ Relink(t)
    PROVE  EndInv'
<1>1. HomesStay /\ task[t].rec.link # None
  BY RecordsKept, RelinkKept
<1>2. /\ UNCHANGED <<wtMoves, left>> /\ \E step : Go(t, step)
  BY DEF GitRecords, GitNests, Repair, Relink, kept
<1>3. /\ \A u \in Tasks \ {t} : task'[u] = task[u]
      /\ task'[t].rec = task[t].rec
  BY <1>2 DEF Go, IInv, FiberInv, Fibers
<1>. QED  BY <1>1, <1>2, <1>3, ChainsGo

LEMMA MarkedEnds ==
    ASSUME Sound, IInv, IInv', FoundInv, KeptInv, EndInv, NEW t \in Tasks,
           Cross(t) \/ Claim(t) \/ TakeOver(t) \/ Forget(t)
    PROVE  EndInv'
<1>1. PICK f \in Fibers : task[t] = f
  BY DEF IInv, FiberInv
<1>2. HomesStay
  BY CrossKept, ClaimKept, TakeOverKept, ForgetKept DEF Sound
<1>3. CASE Forget(t)
  <2>1. PutDown(t) /\ UNCHANGED <<wtMoves, left>>
    BY <1>3 DEF Forget, kept
  <2>2. task'[t] \in Fibers
    BY DEF IInv, FiberInv
  <2>. QED  BY <1>2, <2>1, <2>2, PutDownRests, ChainsGo
<1>4. CASE Cross(t)
  <2>1. task' = [task EXCEPT ![t].at = "copying", ![t].rec.partial = TRUE]
    BY <1>4 DEF Cross
  <2>2. task'[t].at # "carry" /\ \A u \in Tasks \ {t} : task'[u] = task[u]
    BY <1>1, <2>1 DEF IInv, FiberInv, Fibers
  <2>. QED  BY <1>2, <1>4, <2>2, ChainsGo DEF Cross, kept
<1>5. CASE Claim(t)
  <2>1. PICK rec : task' = [task EXCEPT ![t] =
                               [Idle EXCEPT !.at = "claimed", !.rec = rec, !.own = TRUE]]
    BY <1>5 DEF Claim
  <2>2. task'[t].at # "carry" /\ \A u \in Tasks \ {t} : task'[u] = task[u]
    BY <2>1 DEF IInv, FiberInv, Idle
  <2>. QED  BY <1>2, <1>5, <2>2, ChainsGo DEF Claim, kept
<1>6. CASE TakeOver(t)
  <2>1. \/ \E owner : task' = [task EXCEPT ![t].at = "taken", ![t].rec.owner = owner]
        \/ task' = [task EXCEPT ![t].at = "next", ![t].rec = None]
    BY <1>6 DEF TakeOver
  <2>2. task'[t].at # "carry" /\ \A u \in Tasks \ {t} : task'[u] = task[u]
    BY <1>1, <2>1 DEF IInv, FiberInv, Fibers
  <2>. QED  BY <1>2, <1>6, <2>2, ChainsGo DEF TakeOver, kept
<1>. QED  BY <1>3, <1>4, <1>5, <1>6

LEMMA MadeEnds ==
    ASSUME IInv, IInv', FoundInv, KeptInv, EndInv,
           \/ \E t \in Tasks : CreateAdds(t)
           \/ \E p \in Places : Make(p)
    PROVE  EndInv'
<1>1. HomesStay
  BY MadeKept
<1>2. ASSUME NEW t \in Tasks, CreateAdds(t) PROVE EndInv'
  <2>1. Go(t, "made") \/ task' = [task EXCEPT ![t] = Idle]
    BY <1>2 DEF CreateAdds
  <2>2. task'[t].at # "carry" /\ \A u \in Tasks \ {t} : task'[u] = task[u]
    BY <2>1 DEF Go, Idle, IInv, FiberInv, Fibers
  <2>. QED  BY <1>1, <1>2, <2>2, ChainsGo DEF CreateAdds, kept
<1>3. ASSUME NEW p \in Places, Make(p) PROVE EndInv'
  BY <1>1, <1>3, ChainsKeep DEF Make, kept
<1>. QED  BY <1>2, <1>3

LEMMA StopsEnd ==
    ASSUME EndInv, \/ UNCHANGED vars \/ Rest \/ \E p \in Procs : Crash(p)
                   \/ \E w \in Worktrees : Note(w)
    PROVE  EndInv'
<1>1. UNCHANGED <<entry, moving, wtMoves, left>>
  BY DEF vars, Rest, Crash, Note, disks, kept
<1>2. \A u \in Tasks : task'[u] = task[u] \/ task'[u] = Idle
  BY DEF vars, Rest, Crash, Note
<1>. QED  BY <1>1, <1>2, IdleRests, SameHomes, ChainsKeep

LEMMA GoesEnd ==
    ASSUME Sound, Unlooped, IInv, IInv', FoundInv, KeptInv, EndInv, NEW t \in Tasks,
           Goes(t) \/ Resume(t)
    PROVE  EndInv'
<1> OneFiber
  BY DEF Sound
<1>1. CASE ClaimStep(t)
  BY <1>1, MarkedEnds, QuietEnds DEF ClaimStep
<1>2. CASE GitStep(t)
  BY <1>2, QuietEnds, PointedEnds DEF GitStep
<1>3. CASE CopyStep(t)
  BY <1>3, QuietEnds, PointedEnds, MarkedEnds, NoUndo DEF CopyStep
<1>4. CASE CarryStep(t)
  BY <1>4, CarryEnds, QuietEnds, MarkedEnds DEF CarryStep
<1>5. CASE ResumeStep(t) \/ Resume(t)
  BY <1>5, QuietEnds, MarkedEnds, JudgeEnds DEF ResumeStep
<1>6. CASE CreateStep(t)
  BY <1>6, MadeEnds, CleanEnds DEF CreateStep
<1>. QED  BY <1>1, <1>2, <1>3, <1>4, <1>5, <1>6 DEF Goes

LEMMA NextEnds ==
    ASSUME Sound, Unlooped, IInv, FoundInv, KeptInv, EndInv, [Next]_vars
    PROVE  EndInv'
<1>1. IInv'
  BY NextFinds
<1>2. ASSUME NEW t \in Tasks, Goes(t) \/ Resume(t) PROVE EndInv'
  BY <1>1, <1>2, GoesEnd
<1>3. ASSUME NEW t \in Tasks, NEW w \in Worktrees, NEW p \in Places,
             Ask(t, w, p) \/ CreateLooks(t, w, p)
      PROVE  EndInv'
  BY <1>1, <1>3, QuietEnds
<1>4. ASSUME NEW p \in Places, Make(p) PROVE EndInv'
  BY <1>1, <1>4, MadeEnds
<1>5. CASE \/ UNCHANGED vars \/ Rest \/ \E p \in Procs : Crash(p)
           \/ \E w \in Worktrees : Note(w)
  BY <1>5, StopsEnd
<1>. QED  BY <1>2, <1>3, <1>4, <1>5 DEF Next

LEMMA InitEnds == Init => EndInv
<1> SUFFICES ASSUME Init PROVE EndInv
  OBVIOUS
<1>1. /\ wtMoves = [p \in Places |-> None] /\ left = [p \in Places |-> None]
      /\ \A t \in Tasks : task[t] = Idle
  BY DEF Init
<1>2. ChainInv
  BY <1>1 DEF ChainInv, Leads
<1>. QED  BY <1>1, <1>2, IdleRests DEF EndInv, EndHome, EndFollows, EndsAt, Leads

(* An id of a folder that left leads, by the moves recorded since, to where its  *)
(* worktree is or to a place a record of its move names (kept.ts 18-38, 55-77),  *)
(* as what is kept of it is found there, for as long as no move goes over two    *)
(* places that an older record joins and leads on from: there the claim of both  *)
(* (kept.ts 43-52) points what led to the first at the second, and drops what led*)
(* on from it.                                                                   *)
THEOREM OldIdsFollow ==
    ASSUME Sound PROVE Spec /\ []Unlooped => []AllFollows
<1>1. Init => IInv /\ FoundInv /\ KeptInv /\ EndInv
  BY InitHolds, InitFinds, InitKept, InitEnds
<1>2. IInv /\ FoundInv /\ KeptInv /\ EndInv /\ Unlooped /\ [Next]_vars =>
         (IInv /\ FoundInv /\ KeptInv /\ EndInv)'
  BY NextKept, NextEnds
<1>3. IInv /\ FoundInv /\ KeptInv /\ EndInv => AllFollows
  BY KeptSoFar, EndsSoFar DEF AllFollows
<1>. QED  BY <1>1, <1>2, <1>3, PTL DEF Spec

--------------------------------------------------------------------------------
(* The types of what the disk, git and the store hold.                         *)

\* IInv has those of the records and of the fibers, and the rows that are written
\* are numbered past those there are.
HoldsInv ==
    /\ DiskInv
    /\ rows \in [Spots -> Worktrees \cup {None}]
    /\ ref \in [Spots -> Worktrees \cup {None}]
    /\ left \in [Places -> Worktrees \cup {None}]
    /\ wtMoves \in Recorded
    /\ \E n \in Nat : \A x \in Places : wtMoves[x] # None => wtMoves[x].row <= n

LEMMA SpotsOf == Places \subseteq Spots /\ Nested \in Spots
  BY DEF Spots

LEMMA HandPlaces ==
    ASSUME IInv, NEW t \in Tasks, task[t].at \in AtWork
    PROVE  /\ task[t].rec.from \in Places /\ task[t].rec.to \in Places
           /\ task[t].rec.link \in Worktrees \cup {None}
<1>1. PICK f \in Fibers : task[t] = f /\ Shaped(f)
  BY DEF IInv, FiberInv
<1>2. f.rec \in Records
  BY <1>1 DEF Shaped, AtWork, Fibers
<1>. QED  BY <1>1, <1>2 DEF Records

LEMMA RepairedTyped ==
    ASSUME HoldsInv, NEW p \in Places
    PROVE  Repaired(p) \in [Worktrees -> Spots \cup {None}]
  BY SpotsOf DEF Repaired, HoldsInv, DiskInv

LEMMA DisksTyped ==
    ASSUME IInv, HoldsInv, NEW t \in Tasks, GitStep(t) \/ CopyStep(t) \/ Wipe(t)
    PROVE  DiskInv' /\ UNCHANGED kept
<1> USE SpotsOf
<1> DEFINE r == task[t].rec
<1>0. task[t].at \in {"claimed", "renamed", "relink", "taken", "copying", "placed",
                      "undo", "undoplaced", "wipefrom", "wipeto"}
  BY DEF At, GitStep, GitRenames, GitRecords, GitNests, GitFails, Relink, RelinkFails,
         CopyStep, Cross, CopyFails, PutIn, PutInDies, Repair, RepairFails, Undo, Wipe
<1>1. /\ r.from \in Places /\ r.to \in Places /\ r.link \in Worktrees \cup {None}
      /\ disk \in [Spots -> Folders \cup {None}]
      /\ entry \in [Worktrees -> Spots \cup {None}]
  <2>1. task[t].at \in AtWork
    BY <1>0 DEF AtWork, InHand, Steps
  <2>. QED  BY <2>1, HandPlaces DEF HoldsInv, DiskInv
<1>. HIDE DEF r
<1>2. CASE GitRenames(t)
  BY <1>1, <1>2 DEF GitRenames, Carries, DiskInv, r
<1>3. CASE GitRecords(t)
  BY <1>1, <1>3 DEF GitRecords, DiskInv, r
<1>4. CASE GitNests(t)
  BY <1>1, <1>4 DEF GitNests, Carries, DiskInv, r
<1>5. CASE Relink(t) \/ Repair(t) \/ RepairFails(t) \/ Undo(t)
  <2>1. /\ entry' \in {entry, Repaired(r.to), Repaired(r.from)} /\ disk' = disk
        /\ UNCHANGED kept
    BY <1>5 DEF Relink, Repair, RepairFails, Undo, r
  <2>. QED  BY <1>1, <2>1, RepairedTyped DEF DiskInv
<1>6. CASE PutIn(t)
  <2>1. r.link \in Worktrees
    BY <1>1, <1>6 DEF PutIn, Holds, r
  <2>. QED  BY <1>1, <1>6, <2>1, AFolder DEF PutIn, DiskInv, r
<1>7. CASE Wipe(t)
  <2>1. PICK dir \in Places :
           /\ \/ disk[dir] # None /\ disk' = [disk EXCEPT ![dir].whole = FALSE]
              \/ disk' = [disk EXCEPT ![dir] = None]
              \/ disk' = disk
           /\ UNCHANGED <<entry, kept>>
    BY <1>1, <1>7 DEF Wipe, r
  <2>2. disk[dir] # None => [disk[dir] EXCEPT !.whole = FALSE] \in Folders
    BY <1>1 DEF Folders
  <2>. QED  BY <1>1, <2>1, <2>2 DEF DiskInv
<1>8. CASE \/ GitFails(t) \/ RelinkFails(t) \/ Cross(t) \/ CopyFails(t) \/ PutInDies(t)
  BY <1>1, <1>8 DEF GitFails, RelinkFails, Cross, CopyFails, PutInDies, disks, DiskInv
<1>. QED  BY <1>2, <1>3, <1>4, <1>5, <1>6, <1>7, <1>8 DEF GitStep, CopyStep

LEMMA KeptTyped ==
    ASSUME IInv, HoldsInv, DiskInv', UNCHANGED kept
    PROVE  HoldsInv'
  BY DEF HoldsInv, kept

LEMMA CarryTyped ==
    ASSUME IInv, HoldsInv, NEW t \in Tasks, CarryStep(t)
    PROVE  HoldsInv'
<1> USE SpotsOf
<1> DEFINE q == task[t].rec.from
           to == task[t].rec.to
<1>0. task[t].at \in AtWork
  BY DEF At, CarryStep, Carry, CarryFails, RefFollows, RefDrops, RefFails, Wipe, Forget,
         AtWork, InHand, Steps
<1>1. q \in Places /\ to \in Places
  BY <1>0, HandPlaces
<1>. HIDE DEF q, to
<1>2. CASE Wipe(t)
  BY <1>2, DisksTyped, KeptTyped
<1>3. CASE CarryFails(t) \/ RefFails(t) \/ Forget(t)
  BY <1>3 DEF CarryFails, RefFails, Forget, disks, kept, HoldsInv, DiskInv
<1>4. CASE RefFollows(t) \/ RefDrops(t)
  <2>1. /\ ref' \in {ref, [ref EXCEPT ![to] = ref[q]], [ref EXCEPT ![q] = None]}
        /\ UNCHANGED <<disks, rows, wtMoves, left>>
    BY <1>4 DEF RefFollows, RefDrops, q, to
  <2>2. ref' \in [Spots -> Worktrees \cup {None}]
    BY <1>1, <2>1 DEF HoldsInv
  <2>. QED  BY <2>1, <2>2 DEF disks, HoldsInv, DiskInv
<1>5. CASE Carry(t) /\ task[t].rec.carried
  BY <1>5 DEF Carry, disks, HoldsInv, DiskInv
<1>6. CASE Carry(t) /\ ~task[t].rec.carried
  <2>1. /\ Listed(to) /\ UNCHANGED <<disks, ref>>
        /\ rows' = IF rows[q] = None THEN rows
                   ELSE [rows EXCEPT ![to] = rows[q], ![q] = None]
        /\ wtMoves' = RecordMove(wtMoves, q, to)
        /\ left' = [left EXCEPT ![q] = CHOOSE w \in Worktrees : entry[w] = to]
    BY <1>6 DEF Carry, q, to
  <2>2. rows' \in [Spots -> Worktrees \cup {None}]
    BY <1>1, <2>1 DEF HoldsInv
  <2>3. left' \in [Places -> Worktrees \cup {None}]
    <3>1. (CHOOSE w \in Worktrees : entry[w] = to) \in Worktrees
      BY <2>1 DEF Listed
    <3>. QED  BY <2>1, <3>1 DEF HoldsInv
  <2>4. PICK n \in Nat : \A x \in Places : wtMoves[x] # None => wtMoves[x].row <= n
    BY DEF HoldsInv
  <2>5. /\ wtMoves' \in Recorded /\ wtMoves'[q] # None
        /\ \A x \in Places \ {q} : wtMoves'[x] # None => wtMoves'[x].row < wtMoves'[q].row
    BY <1>1, <2>1, <2>4, RecordMoveIs DEF HoldsInv
  <2>6. /\ wtMoves'[q].row \in Nat
        /\ \A x \in Places : wtMoves'[x] # None => wtMoves'[x].row \in Nat
    BY <1>1, <2>5, RowOf
  <2>7. \A x \in Places : wtMoves'[x] # None => wtMoves'[x].row <= wtMoves'[q].row
    BY <2>5, <2>6
  <2>. QED  BY <2>1, <2>2, <2>3, <2>5, <2>6, <2>7 DEF disks, HoldsInv, DiskInv
<1>. QED  BY <1>2, <1>3, <1>4, <1>5, <1>6 DEF CarryStep

LEMMA MadeTyped ==
    ASSUME HoldsInv, NEW w \in Worktrees, NEW p \in Places, Adds(w, p), UNCHANGED kept
    PROVE  HoldsInv'
<1>1. DiskInv'
  BY AFolder, SpotsOf DEF Adds, HoldsInv, DiskInv
<1>. QED  BY <1>1 DEF kept, HoldsInv

LEMMA ForgetsTyped ==
    ASSUME IInv, HoldsInv, NEW t \in Tasks, CreateForgets(t)
    PROVE  HoldsInv'
<1> DEFINE p == task[t].move.to
           M == ForgetMovesInto(wtMoves, p)
<1>1. p \in Places
  BY DEF CreateForgets, At, IInv, FiberInv, Shaped, Asked
<1>. HIDE DEF p
<1>2. /\ rows' = [rows EXCEPT ![p] = None] /\ wtMoves' = Claimed(M, {p})
      /\ UNCHANGED <<disk, entry, ref, left>>
  BY DEF CreateForgets, disks, p
<1>3. M \in Recorded /\ \A x \in Places : M[x] \in {None, wtMoves[x]}
  BY DEF ForgetMovesInto, HoldsInv, Recorded
<1>4. PICK n \in Nat : \A x \in Places : wtMoves[x] # None => wtMoves[x].row <= n
  BY DEF HoldsInv
<1>. HIDE DEF M
<1>5. /\ wtMoves' \in Recorded
      /\ \A x \in Places : wtMoves'[x] # None => wtMoves'[x].row = M[x].row /\ M[x] # None
  BY <1>1, <1>2, <1>3, ClaimedIs
<1>6. \A x \in Places : wtMoves'[x] # None => wtMoves'[x].row <= n
  BY <1>3, <1>4, <1>5
<1>7. rows' \in [Spots -> Worktrees \cup {None}]
  BY <1>1, <1>2 DEF HoldsInv
<1>. QED  BY <1>2, <1>5, <1>6, <1>7 DEF HoldsInv, DiskInv

LEMMA NextTyped ==
    ASSUME IInv, HoldsInv, [Next]_vars
    PROVE  HoldsInv'
<1>1. CASE UNCHANGED <<disks, kept>>
  BY <1>1 DEF disks, kept, HoldsInv, DiskInv
<1>2. ASSUME NEW t \in Tasks, GitStep(t) \/ CopyStep(t) PROVE HoldsInv'
  BY <1>2, DisksTyped, KeptTyped
<1>3. ASSUME NEW t \in Tasks, ClaimStep(t) \/ ResumeStep(t) \/ Resume(t) PROVE HoldsInv'
  <2>1. UNCHANGED <<disks, kept>>
    BY <1>3 DEF ClaimStep, Claim, ClaimWaits, ClaimRefused, ResumeStep, Look, Looked,
                TakeOver, Judge, Resume
  <2>. QED  BY <1>1, <2>1
<1>4. ASSUME NEW t \in Tasks, CreateAdds(t) PROVE HoldsInv'
  <2>1. PICK f \in Fibers : task[t] = f /\ Shaped(f)
    BY DEF IInv, FiberInv
  <2>2. f.at = "adding" /\ f.move.to \in Places /\ f.move.link \in Worktrees
    BY <1>4, <2>1 DEF CreateAdds, At, Shaped, Asked
  <2>3. UNCHANGED kept /\ (Adds(f.move.link, f.move.to) \/ UNCHANGED disks)
    BY <1>4, <2>1 DEF CreateAdds
  <2>. QED  BY <1>1, <2>2, <2>3, MadeTyped
<1>5. ASSUME NEW p \in Places, Make(p) PROVE HoldsInv'
  <2>1. CASE \E w \in Worktrees : Adds(w, p)
    BY <1>5, <2>1, MadeTyped DEF Make
  <2>2. CASE /\ disk' = [disk EXCEPT ![p] = [of |-> Alien, whole |-> TRUE]]
             /\ UNCHANGED entry
    <3>1. DiskInv'
      BY <2>2, AFolder, SpotsOf DEF HoldsInv, DiskInv
    <3>. QED  BY <1>5, <3>1, KeptTyped DEF Make
  <2>. QED  BY <1>5, <2>1, <2>2 DEF Make
<1>6. ASSUME NEW w \in Worktrees, Note(w) PROVE HoldsInv'
  <2>1. PICK p \in Places : /\ \/ rows' = [rows EXCEPT ![p] = w] /\ UNCHANGED ref
                               \/ ref' = [ref EXCEPT ![p] = w] /\ UNCHANGED rows
                            /\ UNCHANGED <<disks, wtMoves, left>>
    BY <1>6 DEF Note
  <2>. QED  BY <2>1, SpotsOf DEF disks, HoldsInv, DiskInv
<1>7. ASSUME NEW t \in Tasks, NEW w \in Worktrees, NEW p \in Places,
             Ask(t, w, p) \/ CreateLooks(t, w, p)
      PROVE  HoldsInv'
  BY <1>1, <1>7 DEF Ask, CreateLooks
<1>8. CASE Rest \/ (\E p \in Procs : Crash(p)) \/ UNCHANGED vars
  BY <1>1, <1>8 DEF Rest, Crash, vars
<1>. QED  BY <1>2, <1>3, <1>4, <1>5, <1>6, <1>7, <1>8, CarryTyped, ForgetsTyped
          DEF Next, Goes, CreateStep

LEMMA InitTyped == Init => HoldsInv
<1> SUFFICES ASSUME Init PROVE HoldsInv
  OBVIOUS
<1>1. DiskInv
  BY InitFinds DEF FoundInv
<1>2. rows = [p \in Spots |-> IF disk[p] = None THEN None ELSE disk[p].of] /\ ref = rows
  BY DEF Init
<1>3. \A p \in Spots : disk[p] # None => disk[p].of \in Worktrees
  BY NoneAssumption, AFolder DEF Init
<1>4. /\ wtMoves = [p \in Places |-> None] /\ left = [p \in Places |-> None]
  BY DEF Init
<1>. QED  BY <1>1, <1>2, <1>3, <1>4 DEF HoldsInv, Recorded

(* What the disk, git, the store and the fibers hold is of the form the module   *)
(* says, whatever moves, resumes, crashes and creates come together: a rename    *)
(* leaves its other half, a copy holds a worktree, a move is recorded of one that*)
(* git lists (kept.ts, moving.ts 424-463), a record is kept by the place it      *)
(* leaves and is of a start that was.                                            *)
THEOREM TypeCorrect == ASSUME ~SlowTurn PROVE Spec => []TypeOK
<1>1. Init => IInv /\ HoldsInv
  BY InitHolds, InitTyped
<1>2. IInv /\ HoldsInv /\ [Next]_vars => (IInv /\ HoldsInv)'
  BY StepKeeps, NextTyped
<1>3. IInv /\ HoldsInv => TypeOK
  <2> SUFFICES ASSUME IInv, HoldsInv PROVE TypeOK
    OBVIOUS
  <2>1. born \in [Procs -> 0..MaxCrashes]
    BY BoundAssumption DEF IInv, BornInv, Usage
  <2>2. \A t \in Tasks : /\ task[t].at \in Steps
                         /\ task[t].rec \in Records \cup {None}
                         /\ task[t].todo \subseteq Records
    BY DEF IInv, FiberInv, Fibers
  <2>. QED  BY <2>1, <2>2 DEF TypeOK, IInv, RecordInv, HoldsInv, DiskInv, Recorded
<1>. QED  BY <1>1, <1>2, <1>3, PTL DEF Spec

================================================================================
