------------------------------- MODULE HubProofs -------------------------------
(* What is proved of the hub, for any devices, accounts, caps and bounds, and  *)
(* whether or not a device's calls are handled in their order, unless a        *)
(* theorem asks for it.                                                        *)
EXTENDS Hub, FiniteSetTheorems, TLAPS

--------------------------------------------------------------------------------
(* The invariant.                                                              *)

\* A record names an enrollment of its device.
Names(x, d) ==
    /\ x \in [account : Accounts, credential : DOMAIN creds]
    /\ creds[x.credential].device = d /\ creds[x.credential].account = x.account
Records(f) ==
    /\ DOMAIN f = Devices
    /\ \A d \in Devices : f[d] # None => Names(f[d], d)
\* A dial was made for the device and the account of its credential.
WellMade(n) ==
    /\ dials[n].credential \in DOMAIN creds
    /\ creds[dials[n].credential].device = dials[n].device
    /\ creds[dials[n].credential].account = dials[n].account

CredInv == creds \in Seq([device : Devices, account : Accounts]) /\ enrolls \subseteq DOMAIN creds
RowInv == Records(rows)
AccountInv == Records(stored) /\ Records(parked)
ChangeInv ==
    /\ change \in [Devices -> [kind : {"none", "enroll", "signOut", "deliver"},
                               account : Accounts \cup {None}, no : Nat]]
    /\ \A d \in Devices : change[d].kind \in {"enroll", "deliver"} =>
                              change[d].account \in Accounts
Revokes == [target : Devices, by : DOMAIN creds, authed : BOOLEAN, heard : BOOLEAN]
RevokeInv == revokes \subseteq Revokes
DialInv ==
    /\ dials \in [Dials -> [device : Nat, account : Accounts \cup {None}, credential : Nat,
                            stands : BOOLEAN]]
    /\ tickets \cup sockets \subseteq Dials
    /\ \A n \in tickets \cup sockets : WellMade(n)
AdmissionInv ==
    /\ DOMAIN admission = Accounts
    /\ \A a \in Accounts : admission[a] # None =>
          \/ /\ admission[a].kind = "enroll"
             /\ admission[a].no \in DOMAIN creds /\ creds[admission[a].no].account = a
          \/ /\ admission[a].kind = "connect"
             /\ admission[a].no \in Dials /\ WellMade(admission[a].no)
IInv ==
    /\ CredInv /\ RowInv /\ AccountInv /\ ChangeInv /\ RevokeInv /\ DialInv /\ AdmissionInv
    /\ AdmittedHolds

\* Who enrolls as new to the account has no row in it before it is written.
FreshInv ==
    \A a \in Accounts : Enrolling(a) /\ admission[a].fresh =>
        creds[admission[a].no].device \notin Rows(a)

\* Enrollments are only ever added to those there are.
Grown ==
    /\ creds' \in Seq([device : Devices, account : Accounts])
    /\ DOMAIN creds \subseteq DOMAIN creds'
    /\ \A k \in DOMAIN creds : creds'[k] = creds[k]

LEMMA CredTypes ==
    ASSUME IInv, NEW k \in DOMAIN creds
    PROVE  creds[k].device \in Devices /\ creds[k].account \in Accounts
<1> DEFINE K == [device : Devices, account : Accounts]
<1>1. creds \in Seq(K)
  BY DEF IInv, CredInv
<1> HIDE DEF K
<1>2. creds[k] \in K
  BY <1>1
<1>. QED  BY <1>2 DEF K

LEMMA RowIsNone ==
    ASSUME IInv, NEW k \in DOMAIN creds PROVE Row(k) # None
<1>1. k \in Nat /\ creds[k].account \in Accounts
  BY CredTypes DEF IInv, CredInv
<1>. QED  BY <1>1, NoneAssumption DEF Row

LEMMA SameGrown == IInv /\ UNCHANGED creds => Grown
BY DEF IInv, CredInv, Grown

LEMMA EnrollsGrown ==
    ASSUME IInv, NEW d \in Devices, NEW a \in Accounts, Enrolls(d, a)
    PROVE  Grown /\ CredInv'
<1> DEFINE K == [device : Devices, account : Accounts]
           c == [device |-> d, account |-> a]
<1>1. creds \in Seq(K) /\ c \in K /\ creds' = Append(creds, c) /\ enrolls \subseteq DOMAIN creds
  BY DEF IInv, CredInv, Enrolls
<1>2. enrolls' = enrolls \cup {Len(creds) + 1}
  BY DEF Enrolls
<1> HIDE DEF K, c
<1>3. /\ creds' \in Seq(K) /\ Len(creds') = Len(creds) + 1
      /\ \A k \in 1..Len(creds) : creds'[k] = creds[k]
      /\ DOMAIN creds = 1..Len(creds) /\ DOMAIN creds' = 1..Len(creds')
      /\ Len(creds) \in Nat
  BY <1>1
<1>4. DOMAIN creds \subseteq DOMAIN creds' /\ enrolls' \subseteq DOMAIN creds'
  BY <1>1, <1>2, <1>3
<1>. QED  BY <1>1, <1>3, <1>4 DEF Grown, CredInv, K

LEMMA NamesStays ==
    ASSUME Grown, NEW x, NEW d, Names(x, d) PROVE Names(x, d)'
BY DEF Grown, Names

LEMMA WellMadeStays ==
    ASSUME Grown, NEW n, dials'[n].credential = dials[n].credential,
           dials'[n].device = dials[n].device, dials'[n].account = dials[n].account, WellMade(n)
    PROVE  WellMade(n)'
BY DEF Grown, WellMade

LEMMA CurrentStays ==
    ASSUME Grown, NEW k \in DOMAIN creds,
           rows'[creds[k].device] = rows[creds[k].device]
    PROVE  Current(k)' <=> Current(k)
BY DEF Grown, Current, Row

\* What a step leaves alone stays true as enrollments are added.
LEMMA GrownKeeps ==
    ASSUME IInv, Grown
    PROVE  /\ UNCHANGED enrolls => CredInv'
           /\ UNCHANGED rows => RowInv'
           /\ UNCHANGED <<stored, parked>> => AccountInv'
           /\ UNCHANGED change => ChangeInv'
           /\ UNCHANGED revokes => RevokeInv'
           /\ UNCHANGED dials /\ tickets' \subseteq tickets /\ sockets' \subseteq sockets
              => DialInv'
           /\ UNCHANGED <<dials, admission>> => AdmissionInv'
           /\ UNCHANGED <<rows, dials>> /\ sockets' \subseteq sockets => AdmittedHolds'
<1>1. UNCHANGED enrolls => CredInv'
  BY DEF IInv, CredInv, Grown
<1>2. UNCHANGED rows => RowInv'
  BY NamesStays DEF IInv, RowInv, Records
<1>3. UNCHANGED <<stored, parked>> => AccountInv'
  BY NamesStays DEF IInv, AccountInv, Records
<1>4. UNCHANGED change => ChangeInv'
  BY DEF IInv, ChangeInv
<1>5. UNCHANGED revokes => RevokeInv'
  BY DEF IInv, RevokeInv, Revokes, Grown
<1>6. UNCHANGED dials /\ tickets' \subseteq tickets /\ sockets' \subseteq sockets => DialInv'
  BY WellMadeStays DEF IInv, DialInv
<1>7. ASSUME UNCHANGED <<dials, admission>> PROVE AdmissionInv'
  <2>1. \A n : WellMade(n) => WellMade(n)'
    BY <1>7, WellMadeStays
  <2>. QED  BY <1>7, <2>1 DEF IInv, AdmissionInv, Grown
<1>8. ASSUME UNCHANGED <<rows, dials>>, sockets' \subseteq sockets PROVE AdmittedHolds'
  <2>. SUFFICES ASSUME NEW n \in sockets'
                PROVE  Current(dials[n].credential)' \/ dials[n].stands
    BY <1>8 DEF AdmittedHolds
  <2>1. n \in sockets /\ dials[n].credential \in DOMAIN creds
    BY <1>8 DEF IInv, DialInv, WellMade
  <2>2. Current(dials[n].credential)' <=> Current(dials[n].credential)
    BY <1>8, <2>1 DEF Grown, Current, Row
  <2>. QED  BY <2>1, <2>2 DEF IInv, AdmittedHolds
<1>. QED  BY <1>1, <1>2, <1>3, <1>4, <1>5, <1>6, <1>7, <1>8

--------------------------------------------------------------------------------
(* The account's steps.                                                        *)

Untouched == UNCHANGED <<rows, dials, admission>> /\ tickets' \subseteq tickets
             /\ sockets' \subseteq sockets
\* A step that leaves the hub's own state alone.
LEMMA UntouchedKeeps ==
    ASSUME IInv, Grown, Untouched, CredInv', AccountInv', ChangeInv', RevokeInv'
    PROVE  IInv'
BY GrownKeeps DEF Untouched, IInv

LEMMA CredInDomain ==
    ASSUME IInv, NEW d \in Devices
    PROVE  /\ stored[d] # None => /\ stored[d].credential \in DOMAIN creds
                                  /\ stored[d].account \in Accounts
                                  /\ creds[stored[d].credential].device = d
                                  /\ creds[stored[d].credential].account = stored[d].account
           /\ parked[d] # None => parked[d].credential \in DOMAIN creds
           /\ rows[d] # None => /\ rows[d].credential \in DOMAIN creds
                                /\ rows[d].account \in Accounts
BY DEF IInv, AccountInv, RowInv, Records, Names

\* What is asked on a device's behalf is of it.
LEMMA RevokeFits ==
    ASSUME NEW d \in Devices, NEW k \in DOMAIN creds
    PROVE  Revoke(d, k) \in Revokes
BY DEF Revoke, Revokes
LEMMA UnheardFits ==
    ASSUME NEW r \in Revokes
    PROVE  /\ Unheard(r) \in Revokes
           /\ Unheard(r).target = r.target /\ Unheard(r).by = r.by
BY DEF Unheard, Revokes

LEMMA AnsweredKeeps ==
    ASSUME IInv, NEW r, r.target \in Devices, NEW answer, Answered(r, answer)
    PROVE  Grown /\ CredInv' /\ AccountInv' /\ ChangeInv'
<1> DEFINE d == r.target
<1>1. d \in Devices
  OBVIOUS
<1>2. ASSUME UNCHANGED <<account, creds, enrolls>>
      PROVE  Grown /\ CredInv' /\ AccountInv' /\ ChangeInv'
  BY <1>2, SameGrown, GrownKeeps DEF account
<1>3. CASE SignedOut(d, answer)
  <2>1. Grown /\ CredInv'
    BY <1>3, SameGrown, GrownKeeps DEF SignedOut
  <2>2. AccountInv'
    BY <1>1, <1>3, <2>1, NamesStays DEF SignedOut, IInv, AccountInv, Records
  <2>3. ChangeInv'
    BY <1>3 DEF SignedOut, IInv, ChangeInv, NoChange
  <2>. QED  BY <2>1, <2>2, <2>3
<1>4. CASE Delivered(d, answer)
  <2>1. Grown /\ CredInv' /\ ChangeInv'
    <3>1. CASE change[d].kind = "deliver" /\ ~Undelivered(answer)
      <4>1. /\ change[d].account \in Accounts
            /\ Enrolls(d, change[d].account)
            /\ change' = [change EXCEPT ![d] = Asked(d, change[d].account)]
        BY <1>1, <1>4, <3>1 DEF Delivered, IInv, ChangeInv
      <4>2. Len(creds) + 1 \in Nat
        BY DEF IInv, CredInv
      <4>. QED  BY <1>1, <4>1, <4>2, EnrollsGrown DEF IInv, ChangeInv, Asked
    <3>2. CASE ~(change[d].kind = "deliver" /\ ~Undelivered(answer))
      <4>1. Grown /\ CredInv'
        BY <1>4, <3>2, SameGrown, GrownKeeps DEF Delivered
      <4>. QED  BY <1>4, <3>2, <4>1 DEF Delivered, IInv, ChangeInv, NoChange
    <3>. QED  BY <3>1, <3>2
  <2>2. AccountInv'
    BY <1>1, <1>4, <2>1, NamesStays DEF Delivered, IInv, AccountInv, Records
  <2>. QED  BY <2>1, <2>2
<1>. QED  BY <1>2, <1>3, <1>4 DEF Answered

LEMMA SignsInKeeps ==
    ASSUME IInv, NEW d \in Devices, NEW a \in Accounts, SignsIn(d, a) PROVE IInv'
<1>1. Grown /\ CredInv'
  BY EnrollsGrown DEF SignsIn
<1>2. Len(creds) + 1 \in Nat
  BY DEF IInv, CredInv
<1>3. ChangeInv'
  BY <1>2 DEF SignsIn, Asked, IInv, ChangeInv
<1>. QED  BY <1>1, <1>3, GrownKeeps, UntouchedKeeps DEF SignsIn, Untouched, hub

LEMMA SignInTimesOutKeeps ==
    ASSUME IInv, NEW d \in Devices, SignInTimesOut(d) PROVE IInv'
<1>1. Grown
  BY SameGrown DEF SignInTimesOut, issued
<1>2. ChangeInv'
  BY DEF SignInTimesOut, NoChange, IInv, ChangeInv
<1>. QED
  BY <1>1, <1>2, GrownKeeps, UntouchedKeeps DEF SignInTimesOut, Untouched, hub, issued, calls

LEMMA SignOutKeeps ==
    ASSUME IInv, NEW d \in Devices, SignOut(d) PROVE IInv'
<1>1. Grown
  BY SameGrown DEF SignOut, issued
<1>2. stored[d].credential \in DOMAIN creds /\ DOMAIN creds \subseteq Nat
  BY CredInDomain DEF SignOut, IInv, CredInv
<1>3. ChangeInv'
  BY <1>2 DEF SignOut, IInv, ChangeInv
<1>4. RevokeInv'
  BY <1>1, <1>2, RevokeFits DEF SignOut, IInv, RevokeInv, Revokes, issued
<1>. QED
  BY <1>1, <1>3, <1>4, GrownKeeps, UntouchedKeeps DEF SignOut, Untouched, hub, issued

LEMMA RemovesKeeps ==
    ASSUME IInv, NEW d \in Devices, NEW e \in Devices, Removes(d, e) PROVE IInv'
<1>1. Grown
  BY SameGrown DEF Removes, issued
<1>2. RevokeInv'
  BY <1>1, CredInDomain, RevokeFits DEF Removes, IInv, RevokeInv, Revokes, issued
<1>. QED
  BY <1>1, <1>2, GrownKeeps, UntouchedKeeps DEF Removes, Untouched, hub, issued, account

LEMMA RevokeTimesOutKeeps ==
    ASSUME IInv, NEW r \in revokes, RevokeTimesOut(r) PROVE IInv'
<1>1. r.target \in Devices /\ r \in Revokes /\ Answered(r, "failed")
  BY DEF RevokeTimesOut, IInv, RevokeInv, Revokes
<1>2. Grown /\ CredInv' /\ AccountInv' /\ ChangeInv'
  BY <1>1, AnsweredKeeps
<1>3. Unheard(r) \in Revokes /\ revokes' \subseteq revokes \cup {Unheard(r)}
  BY <1>1, UnheardFits DEF RevokeTimesOut
<1>4. RevokeInv'
  BY <1>2, <1>3 DEF IInv, RevokeInv, Revokes, Grown
<1>. QED  BY <1>2, <1>4, UntouchedKeeps DEF RevokeTimesOut, Untouched, hub

LEMMA AppRestartsKeeps ==
    ASSUME IInv, NEW d \in Devices, AppRestarts(d) PROVE IInv'
<1>1. Grown
  BY SameGrown DEF AppRestarts, issued
<1>2. ChangeInv'
  BY DEF AppRestarts, NoChange, IInv, ChangeInv
<1>3. RevokeInv'
  <2>1. \A r \in revokes' :
           \/ \E q \in revokes : r = q \/ r = Unheard(q)
           \/ parked[d] # None /\ r = Revoke(d, parked[d].credential)
    BY DEF AppRestarts
  <2>2. revokes' \subseteq Revokes
    BY <2>1, UnheardFits, CredInDomain, RevokeFits DEF IInv, RevokeInv
  <2>. QED  BY <1>1, <2>2 DEF Revokes, RevokeInv, Grown
<1>. QED
  BY <1>1, <1>2, <1>3, GrownKeeps, UntouchedKeeps DEF AppRestarts, Untouched, hub, issued

--------------------------------------------------------------------------------
(* The account's object.                                                       *)

LEMMA RefusesKeeps ==
    ASSUME IInv, NEW k \in DOMAIN creds, Refuses(k) PROVE ChangeInv'
BY DEF Refuses, NoChange, IInv, ChangeInv

LEMMA FreesKeeps ==
    ASSUME IInv, Grown, UNCHANGED dials, NEW a \in Accounts, Frees(a) PROVE AdmissionInv'
<1>1. \A n : WellMade(n) => WellMade(n)'
  BY WellMadeStays
<1>. QED  BY <1>1 DEF Frees, IInv, AdmissionInv, Grown

\* A dial whose socket is left standing stays as it was made.
LEMMA StandsKeeps ==
    ASSUME IInv, Grown, NEW a \in Accounts, NEW d \in Devices, Stands(a, d)
    PROVE  /\ \A n \in Dials : WellMade(n) => WellMade(n)'
           /\ \A n \in Dials : dials'[n].stands = (dials[n].stands \/ n \in SocketsIn(a, d))
           /\ \A n \in Dials : dials'[n].credential = dials[n].credential
           /\ UNCHANGED tickets => DialInv'
<1>1. dials' = [n \in Dials |-> [dials[n] EXCEPT !.stands = @ \/ n \in SocketsIn(a, d)]]
  BY DEF Stands
<1> DEFINE R == [device : Nat, account : Accounts \cup {None}, credential : Nat,
                 stands : BOOLEAN]
<1>2. ASSUME NEW n \in Dials
      PROVE  /\ dials'[n] \in R
             /\ dials'[n].stands = (dials[n].stands \/ n \in SocketsIn(a, d))
             /\ dials'[n].credential = dials[n].credential
             /\ dials'[n].device = dials[n].device /\ dials'[n].account = dials[n].account
  <2>1. dials[n] \in R
    BY DEF IInv, DialInv
  <2>2. PICK b \in BOOLEAN : b = (dials[n].stands \/ n \in SocketsIn(a, d))
    OBVIOUS
  <2>3. dials'[n] = [dials[n] EXCEPT !.stands = b]
    BY <1>1, <2>2
  <2>. QED  BY <2>1, <2>2, <2>3
<1>3. \A n \in Dials : WellMade(n) => WellMade(n)'
  BY <1>2, WellMadeStays
<1>4. UNCHANGED <<tickets, sockets>> => DialInv'
  BY <1>1, <1>2, <1>3 DEF IInv, DialInv
<1>. QED  BY <1>2, <1>3, <1>4 DEF Stands

LEMMA EnrollReadsKeeps ==
    ASSUME IInv, NEW k \in enrolls, EnrollReads(k) PROVE IInv'
<1> DEFINE d == creds[k].device  a == creds[k].account
<1>1. k \in DOMAIN creds /\ d \in Devices /\ a \in Accounts
  BY CredTypes DEF IInv, CredInv
<1>2. Grown /\ CredInv'
  BY SameGrown DEF EnrollReads, IInv, CredInv, issued, Grown
<1>3. RowInv' /\ AccountInv' /\ DialInv' /\ AdmittedHolds'
  BY <1>2, GrownKeeps DEF EnrollReads, issued
<1>4. CASE d \in Rows(a) \/ rows[d] = None
  <2>1. /\ admission' = [admission EXCEPT ![a] =
                            [kind |-> "enroll", no |-> k, fresh |-> rows[d] = None]]
        /\ UNCHANGED <<change, revokes, dials, creds>>
    BY <1>4 DEF EnrollReads, issued
  <2>2. ChangeInv' /\ RevokeInv'
    BY <1>2, <2>1, GrownKeeps
  <2>3. \A n : WellMade(n) => WellMade(n)'
    BY <1>2, <2>1, WellMadeStays
  <2>4. AdmissionInv'
    BY <1>1, <2>1, <2>3 DEF IInv, AdmissionInv
  <2>. QED  BY <1>2, <1>3, <2>2, <2>4 DEF IInv
<1>5. CASE ~(d \in Rows(a) \/ rows[d] = None)
  <2>1. EnrolledElsewhere(k) /\ UNCHANGED <<admission, dials>>
    BY <1>5 DEF EnrollReads, issued
  <2>2. AdmissionInv'
    BY <1>2, <2>1, GrownKeeps
  <2>3. CASE change[d].kind = "enroll" /\ change[d].no = k /\ parked[d] # None
    <3>1. /\ change' = [change EXCEPT ![d].kind = "deliver", ![d].no = parked[d].credential]
          /\ revokes' = revokes \cup {Revoke(d, parked[d].credential)}
      BY <2>1, <2>3 DEF EnrolledElsewhere
    <3>2. parked[d].credential \in DOMAIN creds /\ DOMAIN creds \subseteq Nat
      BY <1>1, <2>3, CredInDomain DEF IInv, CredInv
    <3>3. ChangeInv'
      BY <1>1, <2>3, <3>1, <3>2 DEF IInv, ChangeInv
    <3>4. RevokeInv'
      BY <1>1, <1>2, <3>1, <3>2, RevokeFits DEF EnrollReads, IInv, RevokeInv, Revokes, issued
    <3>. QED  BY <1>2, <1>3, <2>2, <3>3, <3>4 DEF IInv
  <2>4. CASE ~(change[d].kind = "enroll" /\ change[d].no = k /\ parked[d] # None)
    <3>1. Refuses(k) /\ UNCHANGED revokes
      BY <2>1, <2>4 DEF EnrolledElsewhere
    <3>. QED  BY <1>1, <1>2, <1>3, <2>2, <3>1, RefusesKeeps, GrownKeeps DEF IInv
  <2>. QED  BY <2>3, <2>4
<1>. QED  BY <1>4, <1>5

\* Whom an eviction takes has no socket to close.
LEMMA EnrollEvictsKeeps ==
    ASSUME IInv, NEW a \in Accounts, EnrollEvicts(a) PROVE IInv'
<1>1. Grown /\ UNCHANGED <<dials, tickets, sockets, stored, parked, revokes, enrolls>>
  BY SameGrown DEF EnrollEvicts, issued, calls
<1>2. CredInv' /\ AccountInv' /\ RevokeInv' /\ DialInv'
  BY <1>1, GrownKeeps
<1>3. ASSUME NEW e \in Evictable(a), RemovesRow(e), UNCHANGED <<change, admission>> PROVE IInv'
  <2>1. RowInv'
    BY <1>1, <1>3, NamesStays DEF RemovesRow, IInv, RowInv, Records
  <2>2. AdmittedHolds'
    <3>. SUFFICES ASSUME NEW n \in sockets
                  PROVE  Current(dials[n].credential)' \/ dials[n].stands
      BY <1>1 DEF AdmittedHolds
    <3>0. WellMade(n)
      BY DEF IInv, DialInv
    <3>1. ASSUME dials[n].device = e PROVE dials[n].stands
      <4>1. rows[e].account = a /\ dials[n].account # a
        BY <1>3, <3>1 DEF Evictable, Rows, SocketsIn
      <4>2. Row(dials[n].credential).account = dials[n].account
        BY <3>0 DEF WellMade, Row
      <4>3. ~Current(dials[n].credential)
        BY <3>0, <3>1, <4>1, <4>2 DEF Current, WellMade
      <4>. QED  BY <4>3 DEF IInv, AdmittedHolds
    <3>. SUFFICES ASSUME dials[n].device # e PROVE Current(dials[n].credential)' \/ dials[n].stands
      BY <3>1
    <3>2. rows'[dials[n].device] = rows[dials[n].device]
      BY <1>3 DEF RemovesRow, IInv, RowInv, Records
    <3>3. Current(dials[n].credential)' <=> Current(dials[n].credential)
      BY <1>1, <3>0, <3>2 DEF WellMade, Grown, Current, Row
    <3>. QED  BY <3>3 DEF IInv, AdmittedHolds
  <2>. QED  BY <1>1, <1>2, <1>3, <2>1, <2>2, GrownKeeps DEF IInv
<1>4. CASE Refuses(admission[a].no) /\ Frees(a) /\ UNCHANGED rows /\ Enrolling(a)
  <2>1. admission[a].no \in DOMAIN creds
    BY <1>4 DEF IInv, AdmissionInv, Enrolling
  <2>. QED  BY <1>1, <1>2, <1>4, <2>1, RefusesKeeps, FreesKeeps, GrownKeeps DEF IInv
<1>. QED  BY <1>3, <1>4 DEF EnrollEvicts

LEMMA EnrollFailsKeeps ==
    ASSUME IInv, NEW a \in Accounts, EnrollFails(a) PROVE IInv'
<1>1. Grown
  BY SameGrown DEF EnrollFails, issued
<1>2. admission[a].no \in DOMAIN creds
  BY DEF EnrollFails, IInv, AdmissionInv, Enrolling
<1>3. ChangeInv' /\ AdmissionInv'
  BY <1>1, <1>2, RefusesKeeps, FreesKeeps DEF EnrollFails, issued
<1>. QED
  BY <1>1, <1>3, GrownKeeps DEF EnrollFails, issued, calls, IInv

\* The row of an enrollment takes the place of the device's, whose sockets close or stand.
LEMMA EnrollWritesKeeps ==
    ASSUME IInv, FreshInv, NEW a \in Accounts, EnrollWrites(a) PROVE IInv'
<1> DEFINE k == admission[a].no  d == creds[k].device
<1>1. k \in DOMAIN creds /\ creds[k].account = a /\ d \in Devices
  BY CredTypes DEF EnrollWrites, IInv, AdmissionInv, Enrolling
<1>2. Grown /\ Frees(a) /\ UNCHANGED <<tickets, enrolls, revokes>>
  BY SameGrown DEF EnrollWrites, calls
<1>3. CredInv' /\ RevokeInv'
  BY <1>2, GrownKeeps
<1>4. ASSUME rows[d] = None \/ d \in Rows(a),
             rows' = [rows EXCEPT ![d] = Row(k)],
             \A n \in sockets' : n \in sockets
                 /\ dials'[n].credential = dials[n].credential
                 /\ (dials[n].stands => dials'[n].stands)
                 /\ (n \in SocketsIn(a, d) /\ ~admission[a].fresh => dials'[n].stands)
      PROVE  RowInv' /\ AdmittedHolds'
  <2>1. Names(Row(k), d)
    BY <1>1 DEF Names, Row
  <2>2. RowInv'
    BY <1>1, <1>2, <1>4, <2>1, NamesStays DEF IInv, RowInv, Records
  <2>3. AdmittedHolds'
    <3>0. ASSUME NEW n \in sockets', dials[n].device = d PROVE dials'[n].stands
      <4>1. n \in sockets /\ WellMade(n)
        BY <1>4 DEF IInv, DialInv
      <4>2. CASE n \in SocketsIn(a, d) /\ ~admission[a].fresh
        BY <1>4, <4>2
      <4>3. CASE n \notin SocketsIn(a, d) \/ admission[a].fresh
        <5>1. rows[d] = None \/ dials[n].account # rows[d].account
          BY <1>1, <1>4, <3>0, <4>1, <4>3 DEF SocketsIn, Rows, FreshInv, EnrollWrites
        <5>2. Row(dials[n].credential) # None
              /\ Row(dials[n].credential).account = dials[n].account
          BY <4>1, RowIsNone DEF WellMade, Row
        <5>3. ~Current(dials[n].credential)
          BY <3>0, <4>1, <5>1, <5>2 DEF Current, WellMade
        <5>. QED  BY <1>4, <4>1, <5>3 DEF IInv, AdmittedHolds
      <4>. QED  BY <4>2, <4>3
    <3>. SUFFICES ASSUME NEW n \in sockets', dials[n].device # d
                  PROVE  Current(dials[n].credential)' \/ dials'[n].stands
      BY <1>4, <3>0 DEF AdmittedHolds
    <3>1. n \in sockets /\ WellMade(n)
      BY <1>4 DEF IInv, DialInv
    <3>2. rows'[dials[n].device] = rows[dials[n].device]
      BY <1>4 DEF IInv, RowInv, Records
    <3>3. Current(dials[n].credential)' <=> Current(dials[n].credential)
      BY <1>2, <1>4, <3>1, <3>2 DEF WellMade, Grown, Current, Row
    <3>. QED  BY <1>4, <3>1, <3>3 DEF IInv, AdmittedHolds
  <2>. QED  BY <2>2, <2>3
<1> DEFINE old == IF admission[a].fresh THEN {} ELSE SocketsIn(a, d)
<1>5. CASE (rows[d] = None \/ d \in Rows(a)) /\ Closing(old, "rotated")
           /\ rows' = [rows EXCEPT ![d] = Row(k)] /\ UNCHANGED dials
           /\ (Stores(d, k) \/ UNCHANGED account)
  <2>1. RowInv' /\ AdmittedHolds'
    BY <1>4, <1>5 DEF Closing
  <2>2. DialInv' /\ AdmissionInv'
    BY <1>2, <1>5, GrownKeeps, FreesKeeps DEF Closing
  <2>3. Names(Row(k), d)
    BY <1>1 DEF Names, Row
  <2>4. AccountInv'
    BY <1>1, <1>2, <1>5, <2>3, NamesStays DEF Stores, account, IInv, AccountInv, Records
  <2>5. ChangeInv'
    BY <1>5 DEF Stores, account, NoChange, IInv, ChangeInv
  <2>. QED  BY <1>3, <2>1, <2>2, <2>4, <2>5 DEF IInv
<1>6. CASE (rows[d] = None \/ d \in Rows(a)) /\ Stands(a, d) /\ UNCHANGED account
           /\ rows' = [rows EXCEPT ![d] = Row(k)]
  <2>1. /\ \A n \in Dials : WellMade(n) => WellMade(n)'
        /\ \A n \in Dials : dials'[n].stands = (dials[n].stands \/ n \in SocketsIn(a, d))
        /\ \A n \in Dials : dials'[n].credential = dials[n].credential
        /\ DialInv'
    BY <1>1, <1>2, <1>6, StandsKeeps DEF EnrollWrites
  <2>2. sockets' = sockets /\ sockets \subseteq Dials
    BY <1>6 DEF Stands, IInv, DialInv
  <2>3. RowInv' /\ AdmittedHolds'
    BY <1>4, <1>6, <2>1, <2>2
  <2>4. AdmissionInv'
    BY <1>2, <2>1 DEF Frees, IInv, AdmissionInv, Grown
  <2>5. AccountInv' /\ ChangeInv'
    BY <1>2, <1>6, GrownKeeps DEF account
  <2>. QED  BY <1>3, <2>1, <2>3, <2>4, <2>5 DEF IInv
<1>7. CASE Refuses(k) /\ UNCHANGED <<rows, sockets, dials, stored, parked>>
  <2>1. ChangeInv' /\ AdmissionInv'
    BY <1>1, <1>2, <1>7, RefusesKeeps, FreesKeeps
  <2>. QED  BY <1>2, <1>3, <1>7, <2>1, GrownKeeps DEF IInv
<1>. QED  BY <1>5, <1>6, <1>7 DEF EnrollWrites, account

LEMMA RevokeAuthsKeeps ==
    ASSUME IInv, NEW r \in revokes, RevokeAuths(r) PROVE IInv'
<1>1. r \in Revokes
  BY DEF IInv, RevokeInv, Revokes
<1>2. Grown /\ CredInv' /\ AccountInv' /\ ChangeInv'
  BY <1>1, AnsweredKeeps, SameGrown, GrownKeeps DEF RevokeAuths, account, Revokes
<1>3. [r EXCEPT !.authed = TRUE] \in Revokes
  BY <1>1 DEF Revokes
<1>4. revokes' \subseteq revokes \cup {[r EXCEPT !.authed = TRUE]}
  BY DEF RevokeAuths
<1>5. RevokeInv'
  BY <1>2, <1>3, <1>4 DEF IInv, RevokeInv, Revokes, Grown
<1>. QED  BY <1>2, <1>5, UntouchedKeeps DEF RevokeAuths, Untouched, hub

LEMMA RevokeFailsKeeps ==
    ASSUME IInv, NEW r \in revokes, RevokeFails(r) PROVE IInv'
<1>1. r.target \in Devices
  BY DEF IInv, RevokeInv, Revokes
<1>2. Grown /\ CredInv' /\ AccountInv' /\ ChangeInv'
  BY <1>1, AnsweredKeeps DEF RevokeFails
<1>3. RevokeInv'
  BY <1>2 DEF RevokeFails, IInv, RevokeInv, Revokes, Grown
<1>. QED  BY <1>2, <1>3, UntouchedKeeps DEF RevokeFails, Untouched, hub

\* The sockets of a device taken out of an account were admitted to that account.
LEMMA RevokeRemovesKeeps ==
    ASSUME IInv, NEW r \in revokes, RevokeRemoves(r) PROVE IInv'
<1> DEFINE a == creds[r.by].account  d == r.target
           those == SocketsIn(a, d)
<1>1. d \in Devices /\ r.by \in DOMAIN creds
  BY DEF IInv, RevokeInv, Revokes
<1>2. Grown /\ CredInv' /\ AccountInv' /\ ChangeInv'
  BY <1>1, AnsweredKeeps DEF RevokeRemoves
<1>3. UNCHANGED <<tickets, admission>> /\ revokes' \subseteq revokes
  BY DEF RevokeRemoves
<1>4. RevokeInv'
  BY <1>2, <1>3 DEF IInv, RevokeInv, Revokes, Grown
<1>5. \/ d \in Rows(a) /\ rows' = [rows EXCEPT ![d] = None]
      \/ UNCHANGED rows
  BY DEF RevokeRemoves, RemovesRow
<1>6. RowInv'
  BY <1>1, <1>2, <1>5, NamesStays DEF IInv, RowInv, Records
<1>7. ASSUME \A n \in sockets' : n \in sockets
                 /\ dials'[n].credential = dials[n].credential
                 /\ (dials[n].stands => dials'[n].stands)
                 /\ (n \in those => dials'[n].stands)
      PROVE  AdmittedHolds'
  <2>. SUFFICES ASSUME NEW n \in sockets', ~(n \in those), ~dials[n].stands
                PROVE  Current(dials[n].credential)'
    BY <1>7 DEF AdmittedHolds, Current
  <2>1. n \in sockets /\ WellMade(n) /\ Current(dials[n].credential)
    BY <1>7 DEF IInv, DialInv, AdmittedHolds
  <2>2. rows[dials[n].device].account = dials[n].account
    BY <2>1 DEF Current, WellMade, Row
  <2>3. ~(dials[n].device = d /\ d \in Rows(a))
    BY <2>1, <2>2 DEF SocketsIn, Rows
  <2>4. rows'[dials[n].device] = rows[dials[n].device]
    <3>1. CASE UNCHANGED rows
      BY <3>1
    <3>2. CASE d \in Rows(a) /\ rows' = [rows EXCEPT ![d] = None]
      BY <2>3, <3>2
    <3>. QED  BY <1>5, <3>1, <3>2
  <2>5. Current(dials[n].credential)' <=> Current(dials[n].credential)
    BY <1>2, <1>7, <2>1, <2>4 DEF WellMade, Grown, Current, Row
  <2>. QED  BY <2>1, <2>5
<1>8. CASE Closing(those, "revoked") /\ UNCHANGED dials
  <2>1. AdmittedHolds'
    BY <1>7, <1>8 DEF Closing
  <2>2. DialInv' /\ AdmissionInv'
    BY <1>2, <1>3, <1>8, GrownKeeps DEF Closing
  <2>. QED  BY <1>2, <1>4, <1>6, <2>1, <2>2 DEF IInv
<1>9. CASE Stands(a, d)
  <2>1. /\ \A n \in Dials : WellMade(n) => WellMade(n)'
        /\ \A n \in Dials : dials'[n].stands = (dials[n].stands \/ n \in SocketsIn(a, d))
        /\ \A n \in Dials : dials'[n].credential = dials[n].credential
        /\ DialInv'
    <3>1. a \in Accounts
      BY <1>1, CredTypes
    <3>. QED  BY <1>1, <1>2, <1>3, <1>9, <3>1, StandsKeeps
  <2>2. sockets' = sockets /\ sockets \subseteq Dials
    BY <1>9 DEF Stands, IInv, DialInv
  <2>3. AdmittedHolds'
    BY <1>7, <2>1, <2>2
  <2>4. AdmissionInv'
    BY <1>2, <1>3, <2>1 DEF IInv, AdmissionInv, Grown
  <2>. QED  BY <1>2, <1>4, <1>6, <2>1, <2>3, <2>4 DEF IInv
<1>. QED  BY <1>8, <1>9 DEF RevokeRemoves

--------------------------------------------------------------------------------
(* A dial and its socket.                                                      *)

LEMMA DialKeeps ==
    ASSUME IInv, NEW d \in Devices, Dial(d) PROVE IInv'
<1> DEFINE k == stored[d].credential
<1>1. /\ k \in DOMAIN creds /\ creds[k].device = d /\ stored[d].account \in Accounts
      /\ creds[k].account = stored[d].account
  BY CredInDomain DEF Dial
<1>2. Grown
  BY SameGrown DEF Dial
<1>3. CredInv' /\ RowInv' /\ AccountInv' /\ ChangeInv' /\ RevokeInv'
  BY <1>2, GrownKeeps DEF Dial, account
<1>4. ASSUME NEW n \in Free,
             dials' = [dials EXCEPT ![n] =
                [device |-> d, account |-> stored[d].account, credential |-> k,
                 stands |-> FALSE]],
             tickets' = tickets \cup {n}, sockets' = sockets, UNCHANGED <<rows, admission>>
      PROVE  DialInv' /\ AdmissionInv' /\ AdmittedHolds'
  <2>1. /\ n \in Dials /\ n \notin sockets
        /\ \A a \in Accounts : admission[a] # None /\ admission[a].kind = "connect"
                                   => n # admission[a].no
    BY <1>4 DEF Free, Answerable
  <2>2. d \in Nat /\ k \in Nat
    BY <1>1, HubAssumption DEF Devices, IInv, CredInv
  <2>3. /\ dials'[n] = [device |-> d, account |-> stored[d].account, credential |-> k,
                        stands |-> FALSE]
        /\ \A m \in Dials \ {n} : dials'[m] = dials[m]
        /\ DOMAIN dials' = Dials
    BY <1>4, <2>1 DEF IInv, DialInv
  <2>4. WellMade(n)'
    BY <1>1, <1>2, <2>3 DEF WellMade, Grown
  <2>5. \A m \in Dials \ {n} : WellMade(m) => WellMade(m)'
    BY <1>2, <2>3, WellMadeStays
  <2>6. DialInv'
    <3>1. dials' \in [Dials -> [device : Nat, account : Accounts \cup {None},
                                credential : Nat, stands : BOOLEAN]]
      BY <1>1, <1>4, <2>1, <2>2 DEF IInv, DialInv
    <3>. QED  BY <1>4, <2>1, <2>4, <2>5, <3>1 DEF IInv, DialInv
  <2>7. AdmissionInv'
    BY <1>2, <1>4, <2>1, <2>4, <2>5 DEF IInv, AdmissionInv, Grown
  <2>8. AdmittedHolds'
    <3>. SUFFICES ASSUME NEW m \in sockets
                  PROVE  Current(dials[m].credential)' \/ dials'[m].stands
      BY <1>4 DEF AdmittedHolds
    <3>1. dials'[m] = dials[m] /\ WellMade(m)
      BY <2>1, <2>3 DEF IInv, DialInv
    <3>2. Current(dials[m].credential)' <=> Current(dials[m].credential)
      BY <1>2, <1>4, <3>1 DEF WellMade, Grown, Current, Row
    <3>. QED  BY <3>1, <3>2 DEF IInv, AdmittedHolds
  <2>. QED  BY <2>6, <2>7, <2>8
<1>5. UNCHANGED <<rows, sockets, admission>>
  BY DEF Dial
<1>6. CASE UNCHANGED <<dials, tickets>>
  BY <1>2, <1>3, <1>5, <1>6, GrownKeeps DEF IInv
<1>7. CASE \E n \in Free :
             /\ dials' = [dials EXCEPT ![n] =
                   [device |-> d, account |-> stored[d].account, credential |-> k,
                    stands |-> FALSE]]
             /\ tickets' = tickets \cup {n}
  BY <1>3, <1>4, <1>5, <1>7 DEF IInv
<1>. QED  BY <1>6, <1>7 DEF Dial

LEMMA ConnectTakesKeeps ==
    ASSUME IInv, NEW n, ConnectTakes(n) PROVE IInv'
<1>1. Grown
  BY SameGrown DEF ConnectTakes, issued
<1>2. /\ CredInv' /\ RowInv' /\ AccountInv' /\ ChangeInv' /\ RevokeInv'
      /\ DialInv' /\ AdmittedHolds'
  BY <1>1, GrownKeeps DEF ConnectTakes, issued, account
<1>3. AdmissionInv'
  <2>1. CASE n \in tickets
    <3>1. /\ admission' = [admission EXCEPT ![dials[n].account] =
                              [kind |-> "connect", no |-> n]]
          /\ UNCHANGED <<dials, creds>>
      BY <2>1 DEF ConnectTakes, issued
    <3>2. n \in Dials /\ WellMade(n)
      BY <2>1 DEF IInv, DialInv
    <3>3. \A m : WellMade(m) => WellMade(m)'
      BY <1>1, <3>1, WellMadeStays
    <3>. QED  BY <3>1, <3>2, <3>3 DEF IInv, AdmissionInv
  <2>2. CASE n \notin tickets
    BY <1>1, <2>2, GrownKeeps DEF ConnectTakes, issued
  <2>. QED  BY <2>1, <2>2
<1>. QED  BY <1>2, <1>3 DEF IInv

\* The last look at the registry and the accept are one step: it is what admits.
LEMMA ConnectAdmitsKeeps ==
    ASSUME IInv, NEW a \in Accounts, ConnectAdmits(a) PROVE IInv'
<1> DEFINE n == admission[a].no
<1>1. Grown /\ UNCHANGED <<rows, tickets, dials>>
  BY SameGrown DEF ConnectAdmits, issued
<1>2. CredInv' /\ RowInv' /\ AccountInv' /\ ChangeInv' /\ RevokeInv'
  BY <1>1, GrownKeeps DEF ConnectAdmits, account, calls
<1>3. AdmissionInv'
  BY <1>1, FreesKeeps DEF ConnectAdmits
<1>4. n \in Dials /\ WellMade(n)
  BY DEF ConnectAdmits, IInv, AdmissionInv
<1>5. sockets' \subseteq sockets \cup {n}
      /\ (n \in sockets' /\ n \notin sockets => Current(dials[n].credential))
  BY DEF ConnectAdmits, Admissible
<1>6. DialInv'
  <2>1. \A m : WellMade(m) => WellMade(m)'
    BY <1>1, WellMadeStays
  <2>. QED  BY <1>1, <1>4, <1>5, <2>1 DEF IInv, DialInv
<1>7. AdmittedHolds'
  <2>. SUFFICES ASSUME NEW m \in sockets'
                PROVE  Current(dials[m].credential)' \/ dials[m].stands
    BY <1>1 DEF AdmittedHolds
  <2>1. WellMade(m) /\ (Current(dials[m].credential) \/ dials[m].stands)
    BY <1>4, <1>5 DEF IInv, DialInv, AdmittedHolds
  <2>2. Current(dials[m].credential)' <=> Current(dials[m].credential)
    BY <1>1, <2>1 DEF WellMade, Grown, Current, Row
  <2>. QED  BY <2>1, <2>2
<1>. QED  BY <1>2, <1>3, <1>6, <1>7 DEF IInv

LEMMA ConnectFailsKeeps ==
    ASSUME IInv, NEW a \in Accounts, ConnectFails(a) PROVE IInv'
<1>1. Grown
  BY SameGrown DEF ConnectFails, issued
<1>2. AdmissionInv'
  BY <1>1, FreesKeeps DEF ConnectFails, issued
<1>. QED  BY <1>1, <1>2, GrownKeeps DEF ConnectFails, issued, calls, account, IInv

\* What the devices and the network do to their links.
LEMMA LinkKeeps ==
    ASSUME IInv, UNCHANGED <<rows, issued, admission, enrolls, revokes, account>>,
           tickets' \subseteq tickets, sockets' \subseteq sockets
    PROVE  IInv'
<1>1. Grown
  BY SameGrown DEF issued
<1>. QED  BY <1>1, GrownKeeps DEF issued, account, IInv

--------------------------------------------------------------------------------
(* The theorem.                                                                *)

LEMMA InitHolds == Init => IInv
<1> SUFFICES ASSUME Init PROVE IInv
  OBVIOUS
<1> DEFINE K == [device : Devices, account : Accounts]
<1>1. NDevices \in Nat /\ Home \in Accounts
  BY HubAssumption
<1>2. creds \in [1..NDevices -> K]
  BY <1>1 DEF Init, Devices
<1>3. creds \in Seq(K) /\ DOMAIN creds = Devices
  <2> HIDE DEF K
  <2>. QED  BY <1>1, <1>2 DEF Devices
<1>4. \A d \in Devices : Names(Row(d), d)
  BY <1>1, <1>3 DEF Init, Names, Row
<1>5. CredInv /\ RowInv /\ AccountInv
  BY <1>3, <1>4 DEF Init, CredInv, RowInv, AccountInv, Records
<1>6. ChangeInv /\ RevokeInv /\ DialInv /\ AdmissionInv /\ AdmittedHolds
  BY DEF Init, ChangeInv, NoChange, RevokeInv, DialInv, AdmissionInv, AdmittedHolds
<1>. QED  BY <1>5, <1>6 DEF IInv

LEMMA NextKeeps == IInv /\ FreshInv /\ [Next]_vars => IInv'
<1> SUFFICES ASSUME IInv, FreshInv, [Next]_vars PROVE IInv'
  OBVIOUS
<1>1. CASE HubSteps
  BY <1>1, EnrollReadsKeeps, EnrollEvictsKeeps, EnrollWritesKeeps, ConnectAdmitsKeeps,
     RevokeAuthsKeeps, RevokeRemovesKeeps, ConnectTakesKeeps, LinkKeeps
  DEF HubSteps, Departs, calls
<1>2. CASE Hears
  BY <1>2, LinkKeeps DEF Hears, CloseHeard, hub, calls
<1>3. ASSUME NEW d \in Devices, LinkSteps(d) PROVE IInv'
  BY <1>3, DialKeeps, SignOutKeeps, LinkKeeps
  DEF LinkSteps, Accepted, GivesUp, SignsItselfOut, hub, calls
<1>4. ASSUME NEW d \in Devices,
             \/ \E a \in Accounts : SignsIn(d, a)
             \/ SignInTimesOut(d) \/ SignsOut(d) \/ AppRestarts(d)
             \/ \E e \in Devices : Removes(d, e)
      PROVE  IInv'
  BY <1>4, SignsInKeeps, SignInTimesOutKeeps, SignOutKeeps, AppRestartsKeeps, RemovesKeeps
  DEF SignsOut
<1>5. CASE \E a \in Accounts : EnrollFails(a) \/ ConnectFails(a)
  BY <1>5, EnrollFailsKeeps, ConnectFailsKeeps
<1>6. CASE \E r \in revokes : RevokeFails(r) \/ RevokeTimesOut(r)
  BY <1>6, RevokeFailsKeeps, RevokeTimesOutKeeps
<1>7. CASE (\E n \in tickets : TicketExpires(n)) \/ (\E m \in closes : CloseLost(m))
  BY <1>7, LinkKeeps DEF TicketExpires, CloseLost, hub, calls
<1>8. CASE UNCHANGED vars
  BY <1>8, LinkKeeps DEF vars, hub, issued, calls, account
<1>. QED  BY <1>1, <1>2, <1>3, <1>4, <1>5, <1>6, <1>7, <1>8 DEF Next

--------------------------------------------------------------------------------
(* The registry: an enrollment is answered once, and an account is never over  *)
(* its cap.                                                                    *)

\* The enrollments on their way to their rows.
Pending == enrolls \cup {admission[a].no : a \in {b \in Accounts : Enrolling(b)}}

\* What was taken out, or has its row, is on its way no more.
OnceInv ==
    /\ revoked \subseteq DOMAIN creds
    /\ \A k \in enrolls : k \notin revoked
    /\ \A a \in Accounts : Enrolling(a) => admission[a].no \notin enrolls \cup revoked
    /\ \A d \in Devices : rows[d] # None =>
           rows[d].credential \notin Pending \cup revoked
\* Who enrolls anew keeps the place it had.
CapInv ==
    /\ cap \in Nat
    /\ \A a \in Accounts : Enrolling(a) /\ ~admission[a].fresh =>
           creds[admission[a].no].device \in Rows(a)
    /\ \A a \in Accounts : Cardinality(Rows(a)) <= cap


\* What a step may do to the registry.
MayEnroll ==
    \/ UNCHANGED <<enrolls, creds>>
    \/ enrolls' = enrolls \cup {Len(creds) + 1}
EnrollingStays ==
    \A a \in Accounts : /\ Enrolling(a)' <=> Enrolling(a)
                        /\ Enrolling(a) => admission'[a] = admission[a]
Removal ==
    \E d \in Devices, a \in Accounts :
        /\ d \in Rows(a) /\ RemovesRow(d)
        /\ Enrolling(a) => admission[a].fresh
        /\ EnrollingStays /\ MayEnroll
Reading ==
    \E k \in enrolls :
        /\ enrolls' = enrolls \ {k} /\ UNCHANGED <<rows, revoked, creds>>
        /\ \/ EnrollingStays
           \/ LET a == creds[k].account  d == creds[k].device
              IN /\ d \in Rows(a) \/ rows[d] = None
                 /\ admission' = [admission EXCEPT ![a] =
                       [kind |-> "enroll", no |-> k, fresh |-> rows[d] = None]]
Writing ==
    \E a \in Accounts :
        LET k == admission[a].no  d == creds[k].device
        IN /\ Enrolling(a) /\ Frees(a) /\ UNCHANGED <<revoked, enrolls, creds>>
           /\ \/ UNCHANGED rows
              \/ /\ rows[d] = None \/ d \in Rows(a)
                 /\ ~(admission[a].fresh /\ Full(a))
                 /\ rows' = [rows EXCEPT ![d] = Row(k)]
RegistryMove ==
    \/ UNCHANGED <<rows, revoked>> /\ EnrollingStays /\ MayEnroll
    \/ Removal \/ Reading \/ Writing

LEMMA AnsweredEnrolls ==
    ASSUME NEW r, NEW answer, Answered(r, answer) PROVE MayEnroll
BY DEF Answered, SignedOut, Delivered, Enrolls, MayEnroll

LEMMA SameEnrolling == UNCHANGED admission => EnrollingStays
BY DEF EnrollingStays, Enrolling

\* An admission that is no enrollment begins or ends.
LEMMA OtherEnrolling ==
    ASSUME IInv, NEW a \in Accounts, ~Enrolling(a), NEW x, ~(x # None /\ x.kind = "enroll"),
           admission' = [admission EXCEPT ![a] = x]
    PROVE  EnrollingStays
BY DEF IInv, AdmissionInv, EnrollingStays, Enrolling

LEMMA TakesEnrolling ==
    ASSUME IInv, NEW n, ConnectTakes(n) PROVE EnrollingStays
<1>1. CASE UNCHANGED admission
  BY <1>1, SameEnrolling
<1>2. CASE n \in tickets
  <2>1. /\ admission' = [admission EXCEPT ![dials[n].account] =
                            [kind |-> "connect", no |-> n]]
        /\ admission[dials[n].account] = None
    BY <1>2 DEF ConnectTakes
  <2>. QED  BY <2>1 DEF IInv, AdmissionInv, EnrollingStays, Enrolling
<1>. QED  BY <1>1, <1>2 DEF ConnectTakes

LEMMA MovesRegistry ==
    ASSUME IInv, [Next]_vars PROVE RegistryMove /\ UNCHANGED cap
<1>1. ASSUME NEW k \in enrolls, EnrollReads(k) PROVE RegistryMove /\ UNCHANGED cap
  BY <1>1, SameEnrolling DEF EnrollReads, issued, RegistryMove, Reading
<1>2. ASSUME NEW a \in Accounts, EnrollEvicts(a) PROVE RegistryMove /\ UNCHANGED cap
  <2>1. UNCHANGED <<enrolls, creds, cap>>
    BY <1>2 DEF EnrollEvicts, calls, issued
  <2>2. CASE \E e \in Evictable(a) : RemovesRow(e) /\ UNCHANGED admission
    BY <1>2, <2>1, <2>2, SameEnrolling
    DEF EnrollEvicts, Evictable, Rows, RegistryMove, Removal, MayEnroll
  <2>3. CASE Frees(a) /\ UNCHANGED <<rows, revoked>>
    BY <1>2, <2>1, <2>3 DEF EnrollEvicts, RegistryMove, Writing
  <2>. QED  BY <1>2, <2>1, <2>2, <2>3 DEF EnrollEvicts
<1>3. ASSUME NEW a \in Accounts, EnrollWrites(a) PROVE RegistryMove /\ UNCHANGED cap
  <2>1. UNCHANGED <<revoked, enrolls, creds, cap>>
    BY <1>3 DEF EnrollWrites, calls, Smooth, Stands, Trouble, Spend
  <2>. QED  BY <1>3, <2>1 DEF EnrollWrites, RegistryMove, Writing
<1>4. ASSUME NEW a \in Accounts, EnrollFails(a) PROVE RegistryMove /\ UNCHANGED cap
  BY <1>4 DEF EnrollFails, Trouble, Spend, issued, calls, RegistryMove, Writing
<1>5. ASSUME NEW a \in Accounts, ConnectAdmits(a) \/ ConnectFails(a)
      PROVE  RegistryMove /\ UNCHANGED cap
  <2>1. ~Enrolling(a) /\ Frees(a) /\ UNCHANGED <<rows, revoked, creds, enrolls, cap>>
    BY <1>5 DEF ConnectAdmits, ConnectFails, Enrolling, issued, calls, Trouble, Spend
  <2>2. EnrollingStays
    BY <2>1, OtherEnrolling DEF Frees
  <2>. QED  BY <2>1, <2>2 DEF RegistryMove, MayEnroll
<1>6. ASSUME NEW n, ConnectTakes(n) PROVE RegistryMove /\ UNCHANGED cap
  BY <1>6, TakesEnrolling DEF ConnectTakes, issued, RegistryMove, MayEnroll
<1>7. ASSUME NEW r \in revokes, RevokeAuths(r) \/ RevokeFails(r)
      PROVE  RegistryMove /\ UNCHANGED cap
  BY <1>7, AnsweredEnrolls, SameEnrolling
  DEF RevokeAuths, RevokeFails, hub, RegistryMove, MayEnroll, Trouble, Spend
<1>8. ASSUME NEW r \in revokes, RevokeRemoves(r) PROVE RegistryMove /\ UNCHANGED cap
  <2> DEFINE a == creds[r.by].account
  <2>1. r.target \in Devices /\ a \in Accounts
    BY CredTypes DEF IInv, RevokeInv, Revokes
  <2>2. MayEnroll /\ UNCHANGED <<admission, cap>> /\ ~Enrolling(a)
    BY <1>8, AnsweredEnrolls DEF RevokeRemoves, Smooth, Stands, Trouble, Spend, Enrolling
  <2>3. CASE r.target \in Rows(a)
    BY <1>8, <2>1, <2>2, <2>3, SameEnrolling DEF RevokeRemoves, RegistryMove, Removal
  <2>4. CASE r.target \notin Rows(a)
    BY <1>8, <2>2, <2>4, SameEnrolling DEF RevokeRemoves, RegistryMove
  <2>. QED  BY <2>3, <2>4
<1>9. ASSUME UNCHANGED <<rows, revoked, admission, enrolls, creds, cap>>
      PROVE  RegistryMove /\ UNCHANGED cap
  BY <1>9, SameEnrolling DEF RegistryMove, MayEnroll
<1>10. ASSUME NEW d \in Devices, LinkSteps(d) PROVE RegistryMove /\ UNCHANGED cap
  BY <1>9, <1>10 DEF LinkSteps, Dial, Accepted, GivesUp, SignsItselfOut, SignOut, Smooth,
     Trouble, Spend, hub, issued, calls
<1>11. ASSUME NEW d \in Devices, NEW a \in Accounts, SignsIn(d, a)
       PROVE  RegistryMove /\ UNCHANGED cap
  BY <1>11, SameEnrolling DEF SignsIn, Enrolls, hub, Spend, RegistryMove, MayEnroll
<1>12. ASSUME NEW r \in revokes, RevokeTimesOut(r) PROVE RegistryMove /\ UNCHANGED cap
  BY <1>12, AnsweredEnrolls, SameEnrolling DEF RevokeTimesOut, hub, Trouble, Spend, RegistryMove
<1>13. ASSUME NEW d \in Devices,
              \/ SignInTimesOut(d) \/ SignsOut(d) \/ AppRestarts(d)
              \/ \E e \in Devices : Removes(d, e)
       PROVE  RegistryMove /\ UNCHANGED cap
  BY <1>9, <1>13 DEF SignInTimesOut, SignsOut, SignOut, AppRestarts, Removes, hub, issued,
     calls, Trouble, Spend
<1>14. CASE \/ Hears \/ (\E n \in sockets : Departs(n)) \/ (\E n \in tickets : TicketExpires(n))
            \/ (\E m \in closes : CloseLost(m)) \/ UNCHANGED vars
  BY <1>9, <1>14 DEF Hears, CloseHeard, Departs, TicketExpires, CloseLost, vars, hub, issued,
     calls, Trouble, Spend
<1>. QED
  BY <1>1, <1>2, <1>3, <1>4, <1>5, <1>6, <1>7, <1>8, <1>10, <1>11, <1>12, <1>13, <1>14
  DEF Next, HubSteps

LEMMA StepGrows ==
    ASSUME IInv, [Next]_vars PROVE Grown
<1>1. ASSUME UNCHANGED creds PROVE Grown
  BY <1>1, SameGrown
<1>2. ASSUME NEW r \in revokes, RevokeAuths(r) \/ RevokeRemoves(r) \/ RevokeFails(r) PROVE Grown
  <2>1. r.target \in Devices
    BY DEF IInv, RevokeInv, Revokes
  <2>. QED  BY <1>1, <1>2, <2>1, AnsweredKeeps DEF RevokeAuths, RevokeRemoves, RevokeFails
<1>3. ASSUME NEW r \in revokes, RevokeTimesOut(r) PROVE Grown
  <2>1. r.target \in Devices
    BY DEF IInv, RevokeInv, Revokes
  <2>. QED  BY <1>3, <2>1, AnsweredKeeps DEF RevokeTimesOut
<1>4. ASSUME NEW d \in Devices, NEW a \in Accounts, SignsIn(d, a) PROVE Grown
  BY <1>4, EnrollsGrown DEF SignsIn
<1>5. ASSUME NEW a \in Accounts,
             \/ EnrollEvicts(a) \/ EnrollWrites(a) \/ ConnectAdmits(a) \/ EnrollFails(a)
             \/ ConnectFails(a)
      PROVE  UNCHANGED creds
  BY <1>5 DEF EnrollEvicts, EnrollWrites, ConnectAdmits, EnrollFails, ConnectFails, issued
<1>6. ASSUME NEW d \in Devices,
             \/ LinkSteps(d) \/ SignInTimesOut(d) \/ SignsOut(d) \/ AppRestarts(d)
             \/ \E e \in Devices : Removes(d, e)
      PROVE  UNCHANGED creds
  BY <1>6 DEF LinkSteps, Dial, Accepted, GivesUp, SignsItselfOut, SignInTimesOut, SignsOut,
     SignOut, AppRestarts, Removes, issued
<1>7. CASE \/ Hears \/ (\E k \in enrolls : EnrollReads(k)) \/ (\E n \in sockets : Departs(n))
           \/ (\E n \in Range(opens) : ConnectTakes(n)) \/ (\E n \in tickets : TicketExpires(n))
           \/ (\E m \in closes : CloseLost(m)) \/ UNCHANGED vars
  BY <1>1, <1>7 DEF Hears, CloseHeard, EnrollReads, Departs, ConnectTakes, TicketExpires,
     CloseLost, vars, issued
<1>. QED  BY <1>1, <1>2, <1>3, <1>4, <1>5, <1>6, <1>7 DEF Next, HubSteps

LEMMA Newest == IInv => Len(creds) + 1 \notin DOMAIN creds
<1> DEFINE K == [device : Devices, account : Accounts]
<1>1. IInv => creds \in Seq(K)
  BY DEF IInv, CredInv
<1> HIDE DEF K
<1>. QED  BY <1>1

LEMMA PendingKnown == IInv => Pending \subseteq DOMAIN creds
BY DEF IInv, CredInv, AdmissionInv, Enrolling, Pending

LEMMA PendingKnownNext == IInv' => (Pending \subseteq DOMAIN creds)'
BY DEF IInv, CredInv, AdmissionInv, Enrolling, Pending

LEMMA FreesOne ==
    ASSUME IInv, NEW a \in Accounts, Frees(a)
    PROVE  \A b \in Accounts : Enrolling(b)' =>
               b # a /\ Enrolling(b) /\ admission'[b] = admission[b]
BY DEF IInv, AdmissionInv, Frees, Enrolling

\* A call that is read comes before its account, or is no more.
LEMMA ReadingAdmits ==
    ASSUME IInv, NEW k, NEW a \in Accounts,
           NEW x \in [kind : {"enroll"}, no : {k}, fresh : BOOLEAN],
           admission' = [admission EXCEPT ![a] = x]
    PROVE  /\ admission'[a] = x /\ x.no = k
           /\ \A b \in Accounts \ {a} : admission'[b] = admission[b]
BY DEF IInv, AdmissionInv

\* Only an enrollment nobody has made yet comes to be on its way.
LEMMA PendingFades ==
    ASSUME IInv, RegistryMove PROVE Pending' \cap DOMAIN creds \subseteq Pending
<1>1. enrolls' \cap DOMAIN creds \subseteq enrolls
  BY Newest DEF RegistryMove, Removal, Reading, Writing, MayEnroll
<1>2. ASSUME NEW a \in Accounts, Enrolling(a)' PROVE admission'[a].no \in Pending
  <2>1. CASE EnrollingStays
    BY <1>2, <2>1 DEF EnrollingStays, Pending
  <2>2. CASE Reading
    BY <1>2, <2>1, <2>2 DEF Reading, IInv, AdmissionInv, Enrolling, Pending
  <2>3. CASE Writing
    BY <1>2, <2>3, FreesOne DEF Writing, Pending
  <2>. QED  BY <2>1, <2>2, <2>3 DEF RegistryMove, Removal
<1>. QED  BY <1>1, <1>2 DEF Pending

LEMMA FreshKeeps ==
    ASSUME IInv, FreshInv, RegistryMove, Grown PROVE FreshInv'
<1>1. /\ DOMAIN rows = Devices /\ DOMAIN admission = Accounts
      /\ \A a \in Accounts : Enrolling(a) =>
            /\ admission[a].no \in DOMAIN creds /\ creds[admission[a].no].account = a
            /\ creds'[admission[a].no] = creds[admission[a].no]
            /\ creds[admission[a].no].device \in Devices
  BY CredTypes DEF IInv, RowInv, Records, AdmissionInv, Enrolling, Grown
<1>2. ASSUME \A a \in Accounts : Rows(a)' \subseteq Rows(a), EnrollingStays PROVE FreshInv'
  BY <1>1, <1>2 DEF FreshInv, EnrollingStays
<1>3. CASE UNCHANGED <<rows, revoked>> /\ EnrollingStays /\ MayEnroll
  BY <1>2, <1>3 DEF Rows
<1>4. CASE Removal
  <2>1. PICK d \in Devices : rows' = [rows EXCEPT ![d] = None] /\ EnrollingStays
    BY <1>4 DEF Removal, RemovesRow
  <2>. QED  BY <1>1, <1>2, <2>1 DEF Rows
<1>5. CASE Reading
  <2>1. UNCHANGED <<rows, creds>> /\ \A a \in Accounts : Rows(a)' = Rows(a)
    BY <1>5 DEF Reading, Rows
  <2>2. ASSUME NEW k \in enrolls, NEW b, b = creds[k].account, NEW d, d = creds[k].device,
               admission' = [admission EXCEPT ![b] =
                  [kind |-> "enroll", no |-> k, fresh |-> rows[d] = None]]
        PROVE  FreshInv'
    <3> DEFINE x == [kind |-> "enroll", no |-> k, fresh |-> rows[d] = None]
    <3>1. x.fresh = (rows[d] = None) /\ b \in Accounts
      BY <2>2, CredTypes DEF IInv, CredInv
    <3>2. /\ admission'[b] = x /\ x.no = k
          /\ \A a \in Accounts \ {b} : admission'[a] = admission[a]
      <4>1. x \in [kind : {"enroll"}, no : {k}, fresh : BOOLEAN]
        OBVIOUS
      <4>2. admission' = [admission EXCEPT ![b] = x]
        BY <2>2
      <4> HIDE DEF x
      <4>. QED  BY <3>1, <4>1, <4>2, ReadingAdmits
    <3> HIDE DEF x
    <3>3. ASSUME NEW a \in Accounts, Enrolling(a)', admission'[a].fresh
          PROVE  creds'[admission'[a].no].device \notin Rows(a)'
      <4>1. CASE a = b
        <5>1. rows[d] = None /\ creds'[k].device = d
          BY <2>1, <2>2, <3>1, <3>2, <3>3, <4>1
        <5>. QED  BY <2>1, <3>2, <4>1, <5>1 DEF Rows
      <4>2. CASE a # b
        BY <2>1, <3>2, <3>3, <4>2 DEF FreshInv, Enrolling
      <4>. QED  BY <4>1, <4>2
    <3>. QED  BY <3>3 DEF FreshInv
  <2>. QED  BY <1>2, <1>5, <2>1, <2>2 DEF Reading
<1>6. CASE Writing
  <2>1. PICK b \in Accounts :
          /\ Enrolling(b) /\ Frees(b) /\ UNCHANGED creds
          /\ \/ UNCHANGED rows
             \/ rows' = [rows EXCEPT ![creds[admission[b].no].device] = Row(admission[b].no)]
    BY <1>6 DEF Writing
  <2>2. \A a \in Accounts : Enrolling(a)' =>
            a # b /\ Enrolling(a) /\ admission'[a] = admission[a]
    BY <2>1, FreesOne
  <2>3. Row(admission[b].no).account = b
    BY <1>1, <2>1 DEF Row
  <2>4. \A a \in Accounts : a # b => Rows(a)' \subseteq Rows(a)
    BY <1>1, <2>1, <2>3 DEF Rows
  <2>. QED  BY <2>1, <2>2, <2>4 DEF FreshInv
<1>. QED  BY <1>3, <1>4, <1>5, <1>6 DEF RegistryMove

\* No socket outlives the credential it was admitted under, in whatever order the hub
\* handles what it is asked, unless the registry's answer to the change was lost.
THEOREM AdmissionHolds == Spec => []AdmittedHolds
<1>1. Init => IInv /\ FreshInv
  BY InitHolds DEF Init, FreshInv, Enrolling
<1>2. IInv /\ FreshInv /\ [Next]_vars => (IInv /\ FreshInv)'
  BY NextKeeps, StepGrows, MovesRegistry, FreshKeeps
<1>3. IInv => AdmittedHolds
  BY DEF IInv
<1>. QED  BY <1>1, <1>2, <1>3, PTL DEF Spec

LEMMA OnceKeeps ==
    ASSUME IInv, OnceInv, RegistryMove, Grown PROVE OnceInv'
<1>1. \A d \in Devices : rows[d] # None => rows[d].credential \in DOMAIN creds
  BY DEF IInv, RowInv, Records, Names
<1>2. \A a \in Accounts : Enrolling(a) => admission[a].no \in DOMAIN creds
  BY DEF IInv, AdmissionInv, Enrolling
<1>3. \A k : k \in DOMAIN creds => k # Len(creds) + 1
  BY Newest
<1>4. DOMAIN rows = Devices /\ DOMAIN admission = Accounts
  BY DEF IInv, RowInv, Records, AdmissionInv
<1>5. DOMAIN creds \subseteq DOMAIN creds'
  BY DEF Grown
<1>6. ASSUME NEW d \in Devices, rows'[d] = rows[d], rows[d] # None
      PROVE  rows'[d].credential \notin Pending'
  BY <1>1, <1>6, PendingFades DEF OnceInv
<1>7. CASE UNCHANGED <<rows, revoked>> /\ EnrollingStays /\ MayEnroll
  <2>1. revoked' \subseteq DOMAIN creds'
    BY <1>5, <1>7 DEF OnceInv
  <2>2. \A k \in enrolls' : k \notin revoked'
    BY <1>3, <1>7 DEF OnceInv, MayEnroll
  <2>3. ASSUME NEW a \in Accounts, Enrolling(a)'
        PROVE  admission'[a].no \notin enrolls' \cup revoked'
    BY <1>2, <1>3, <1>7, <2>3 DEF OnceInv, MayEnroll, EnrollingStays
  <2>. QED  BY <1>6, <1>7, <2>1, <2>2, <2>3 DEF OnceInv
<1>8. CASE Removal
  <2>1. PICK d \in Devices : RemovesRow(d) /\ rows[d] # None /\ EnrollingStays /\ MayEnroll
    BY <1>8 DEF Removal, Rows
  <2>2. /\ rows' = [rows EXCEPT ![d] = None]
        /\ revoked' = revoked \cup {rows[d].credential} /\ rows[d].credential \notin Pending
    BY <2>1 DEF RemovesRow, OnceInv
  <2>3. revoked' \subseteq DOMAIN creds'
    BY <1>1, <1>5, <2>1, <2>2 DEF OnceInv
  <2>4. \A k \in enrolls' : k \notin revoked'
    BY <1>1, <1>3, <2>1, <2>2 DEF OnceInv, MayEnroll, Pending
  <2>5. ASSUME NEW a \in Accounts, Enrolling(a)'
        PROVE  admission'[a].no \notin enrolls' \cup revoked'
    BY <1>2, <1>3, <2>1, <2>2, <2>5 DEF OnceInv, MayEnroll, EnrollingStays, Pending
  <2>6. ASSUME NEW e \in Devices, rows'[e] # None
        PROVE  rows'[e].credential \notin Pending' \cup revoked'
    <3>1. e # d /\ rows'[e] = rows[e]
      BY <1>4, <2>2, <2>6
    <3>2. rows[e].credential # rows[d].credential
      BY <2>1, <2>6, <3>1 DEF IInv, RowInv, Records, Names
    <3>3. rows[e].credential \notin revoked'
      BY <2>2, <2>6, <3>1, <3>2 DEF OnceInv
    <3>. QED  BY <1>6, <2>6, <3>1, <3>3
  <2>. QED  BY <2>3, <2>4, <2>5, <2>6 DEF OnceInv
<1>9. CASE Reading
  <2>1. PICK k \in enrolls :
          /\ enrolls' = enrolls \ {k} /\ UNCHANGED <<rows, revoked, creds>>
          /\ \/ EnrollingStays
             \/ \E fresh \in BOOLEAN : admission' = [admission EXCEPT ![creds[k].account] =
                       [kind |-> "enroll", no |-> k, fresh |-> fresh]]
    BY <1>9 DEF Reading
  <2>2. ASSUME NEW a \in Accounts, Enrolling(a)'
        PROVE  admission'[a].no \notin enrolls' \cup revoked'
    <3>1. CASE EnrollingStays
      BY <2>1, <2>2, <3>1 DEF OnceInv, EnrollingStays
    <3>2. ASSUME NEW fresh \in BOOLEAN, admission' = [admission EXCEPT ![creds[k].account] =
                       [kind |-> "enroll", no |-> k, fresh |-> fresh]]
          PROVE  admission'[a].no \notin enrolls' \cup revoked'
      <4> DEFINE b == creds[k].account
                 x == [kind |-> "enroll", no |-> k, fresh |-> fresh]
      <4>1. b \in Accounts /\ x \in [kind : {"enroll"}, no : {k}, fresh : BOOLEAN]
            /\ admission' = [admission EXCEPT ![b] = x]
        BY <3>2, CredTypes DEF IInv, CredInv
      <4> HIDE DEF b, x
      <4>2. admission'[b] = x /\ x.no = k /\ \A c \in Accounts \ {b} : admission'[c] = admission[c]
        BY <4>1, ReadingAdmits
      <4>. QED  BY <2>1, <2>2, <4>2 DEF OnceInv, Enrolling
    <3>. QED  BY <2>1, <3>1, <3>2
  <2>. QED  BY <1>6, <2>1, <2>2 DEF OnceInv
<1>10. CASE Writing
  <2>1. PICK a \in Accounts :
          /\ Enrolling(a) /\ Frees(a) /\ UNCHANGED <<revoked, enrolls, creds>>
          /\ \/ UNCHANGED rows
             \/ rows' = [rows EXCEPT ![creds[admission[a].no].device] = Row(admission[a].no)]
    BY <1>10 DEF Writing
  <2>2. \A b \in Accounts : Enrolling(b)' =>
            b # a /\ Enrolling(b) /\ admission'[b] = admission[b]
    BY <2>1, FreesOne
  <2>3. ASSUME NEW d \in Devices, rows'[d] # None
        PROVE  rows'[d].credential \notin Pending' \cup revoked'
    <3>1. CASE rows'[d] = rows[d]
      BY <1>6, <2>1, <2>3, <3>1 DEF OnceInv
    <3>2. CASE rows'[d].credential = admission[a].no
      <4>1. admission[a].no \notin enrolls \cup revoked
        BY <2>1 DEF OnceInv
      <4>2. \A b \in Accounts : Enrolling(b)' => admission'[b].no # admission[a].no
        BY <2>1, <2>2 DEF IInv, AdmissionInv, Enrolling
      <4>. QED  BY <2>1, <3>2, <4>1, <4>2 DEF Pending
    <3>. QED  BY <1>4, <2>1, <3>1, <3>2 DEF Row
  <2>. QED  BY <2>1, <2>2, <2>3 DEF OnceInv
<1>. QED  BY <1>7, <1>8, <1>9, <1>10 DEF RegistryMove

LEMMA RowsFinite == \A a : IsFiniteSet(Rows(a))
<1>1. 1 \in Int /\ NDevices \in Int
  BY HubAssumption
<1>2. IsFiniteSet(Devices)
  BY <1>1, FS_Interval DEF Devices
<1>. QED  BY <1>2, FS_Subset DEF Rows

\* An enrollment has its device's place, or there is room for it.
LEMMA CapKeeps ==
    ASSUME IInv, CapInv, RegistryMove, Grown, UNCHANGED cap PROVE CapInv'
<1>1. /\ DOMAIN rows = Devices /\ DOMAIN admission = Accounts
      /\ \A d \in Devices, a, b \in Accounts : d \in Rows(a) /\ d \in Rows(b) => a = b
  BY DEF IInv, RowInv, Records, AdmissionInv, Rows
<1>2. \A a \in Accounts : Enrolling(a) =>
          /\ admission[a].no \in DOMAIN creds /\ creds[admission[a].no].account = a
          /\ creds'[admission[a].no] = creds[admission[a].no]
          /\ creds[admission[a].no].device \in Devices
  BY CredTypes DEF IInv, AdmissionInv, Enrolling, Grown
<1>3. cap' \in Nat
  BY DEF CapInv
<1>4. ASSUME \A a \in Accounts : Rows(a)' = Rows(a), EnrollingStays
      PROVE  CapInv'
  BY <1>2, <1>3, <1>4 DEF CapInv, EnrollingStays
<1>5. CASE UNCHANGED <<rows, revoked>> /\ EnrollingStays /\ MayEnroll
  BY <1>4, <1>5 DEF Rows
<1>6. CASE Removal
  <2>1. PICK d \in Devices, b \in Accounts :
          /\ d \in Rows(b) /\ rows' = [rows EXCEPT ![d] = None] /\ EnrollingStays
          /\ Enrolling(b) => admission[b].fresh
    BY <1>6 DEF Removal, RemovesRow
  <2>2. \A a \in Accounts : Rows(a)' = Rows(a) \ {d}
    BY <1>1, <2>1 DEF Rows
  <2>3. ASSUME NEW a \in Accounts PROVE Cardinality(Rows(a)') <= cap
    <3>1. /\ Cardinality(Rows(a) \ {d}) <= Cardinality(Rows(a))
          /\ Cardinality(Rows(a) \ {d}) \in Nat /\ Cardinality(Rows(a)) \in Nat
      BY RowsFinite, FS_Subset, FS_CardinalityType
    <3>. QED  BY <2>2, <3>1 DEF CapInv
  <2>4. ASSUME NEW a \in Accounts, Enrolling(a)', ~admission'[a].fresh
        PROVE  creds'[admission'[a].no].device \in Rows(a)'
    <3>1. Enrolling(a) /\ admission'[a] = admission[a] /\ a # b
      BY <2>1, <2>4 DEF EnrollingStays
    <3>2. creds[admission[a].no].device \in Rows(a)
      BY <2>4, <3>1 DEF CapInv
    <3>. QED  BY <1>1, <1>2, <2>1, <2>2, <3>1, <3>2
  <2>. QED  BY <1>3, <2>3, <2>4 DEF CapInv
<1>7. CASE Reading
  <2>1. UNCHANGED <<rows, creds>> /\ \A a \in Accounts : Rows(a)' = Rows(a)
    BY <1>7 DEF Reading, Rows
  <2>2. ASSUME NEW k \in enrolls, NEW b, b = creds[k].account, NEW d, d = creds[k].device,
               d \in Rows(b) \/ rows[d] = None,
               admission' = [admission EXCEPT ![b] =
                  [kind |-> "enroll", no |-> k, fresh |-> rows[d] = None]]
        PROVE  CapInv'
    <3> DEFINE x == [kind |-> "enroll", no |-> k, fresh |-> rows[d] = None]
    <3>1. x.fresh = (rows[d] = None) /\ b \in Accounts
      BY <2>2, CredTypes DEF IInv, CredInv
    <3>2. /\ admission'[b] = x /\ x.no = k
          /\ \A a \in Accounts \ {b} : admission'[a] = admission[a]
      <4>1. x \in [kind : {"enroll"}, no : {k}, fresh : BOOLEAN]
        OBVIOUS
      <4>2. admission' = [admission EXCEPT ![b] = x]
        BY <2>2
      <4> HIDE DEF x
      <4>. QED  BY <3>1, <4>1, <4>2, ReadingAdmits
    <3> HIDE DEF x
    <3>3. ASSUME NEW a \in Accounts, Enrolling(a)', ~admission'[a].fresh
          PROVE  creds'[admission'[a].no].device \in Rows(a)'
      <4>1. CASE a = b
        <5>1. rows[d] # None
          BY <3>1, <3>2, <3>3, <4>1
        <5>2. d \in Rows(b) /\ creds'[k].device = d
          BY <2>1, <2>2, <5>1
        <5>. QED  BY <2>1, <3>2, <4>1, <5>2
      <4>2. CASE a # b
        BY <2>1, <3>2, <3>3, <4>2 DEF CapInv, Enrolling
      <4>. QED  BY <4>1, <4>2
    <3>. QED  BY <1>3, <2>1, <3>3 DEF CapInv
  <2>. QED  BY <1>4, <1>7, <2>1, <2>2 DEF Reading
<1>8. CASE Writing
  <2>1. PICK b \in Accounts :
          /\ Enrolling(b) /\ Frees(b) /\ UNCHANGED creds
          /\ \/ UNCHANGED rows
             \/ /\ \/ rows[creds[admission[b].no].device] = None
                   \/ creds[admission[b].no].device \in Rows(b)
                /\ ~(admission[b].fresh /\ Full(b))
                /\ rows' = [rows EXCEPT ![creds[admission[b].no].device] = Row(admission[b].no)]
    BY <1>8 DEF Writing
  <2> DEFINE k == admission[b].no  d == creds[k].device
  <2>2. \A a \in Accounts : Enrolling(a)' =>
            a # b /\ Enrolling(a) /\ admission'[a] = admission[a]
    BY <2>1, FreesOne
  <2>3. d \in Devices /\ creds[k].account = b
    BY <1>2, <2>1
  <2>4. CASE UNCHANGED rows
    <3>1. \A a \in Accounts : Rows(a)' = Rows(a)
      BY <2>4 DEF Rows
    <3>. QED  BY <1>3, <2>1, <2>2, <3>1 DEF CapInv
  <2>5. CASE /\ rows[d] = None \/ d \in Rows(b)
             /\ ~(admission[b].fresh /\ Full(b))
             /\ rows' = [rows EXCEPT ![d] = Row(k)]
    <3>1. rows'[d] # None /\ rows'[d].account = b
          /\ \A e \in Devices \ {d} : rows'[e] = rows[e]
      <4>1. Row(k) # None /\ Row(k).account = b
        <5>1. k \in Nat /\ b \in Accounts
          BY <1>2, <2>1 DEF IInv, CredInv
        <5>. QED  BY <2>3, <5>1, NoneAssumption DEF Row
      <4>. QED  BY <1>1, <2>3, <2>5, <4>1
    <3>2. Rows(b)' = Rows(b) \cup {d}
      BY <2>3, <3>1 DEF Rows
    <3>3. \A a \in Accounts : a # b => Rows(a)' = Rows(a)
      BY <2>3, <2>5, <3>1 DEF Rows
    <3>4. Cardinality(Rows(b) \cup {d}) <= cap
      <4>1. CASE d \in Rows(b)
        BY <4>1, Rows(b) \cup {d} = Rows(b) DEF CapInv
      <4>2. CASE d \notin Rows(b)
        <5>1. ~Full(b)
          BY <2>1, <2>5, <4>2 DEF CapInv
        <5>2. Cardinality(Rows(b) \cup {d}) = Cardinality(Rows(b)) + 1
              /\ Cardinality(Rows(b)) \in Nat
          BY <4>2, RowsFinite, FS_AddElement, FS_CardinalityType
        <5>. QED  BY <5>1, <5>2 DEF Full, CapInv
      <4>. QED  BY <4>1, <4>2
    <3>5. \A a \in Accounts : Cardinality(Rows(a)') <= cap
      BY <3>2, <3>3, <3>4 DEF CapInv
    <3>6. ASSUME NEW a \in Accounts, Enrolling(a)', ~admission'[a].fresh
          PROVE  creds'[admission'[a].no].device \in Rows(a)'
      BY <2>1, <2>2, <3>3, <3>6 DEF CapInv
    <3>. QED  BY <1>3, <3>5, <3>6 DEF CapInv
  <2>. QED  BY <2>1, <2>4, <2>5
<1>. QED  BY <1>5, <1>6, <1>7, <1>8 DEF RegistryMove

LEMMA RegistryStarts == Init => FreshInv /\ OnceInv /\ CapInv
<1> SUFFICES ASSUME Init PROVE FreshInv /\ OnceInv /\ CapInv
  OBVIOUS
<1>1. OnceInv
  BY DEF Init, OnceInv, Pending, Enrolling, Row
<1>2. cap \in Nat /\ \A a \in Accounts : ~Enrolling(a)
  BY HubAssumption DEF Init, Enrolling
<1>3. ASSUME NEW a \in Accounts PROVE Cardinality(Rows(a)) <= cap
  <2>1. Rows(a) \subseteq 1..cap
    BY <1>2, HubAssumption DEF Init, Rows, Devices
  <2>2. IsFiniteSet(1..cap) /\ Cardinality(1..cap) = IF 1 > cap THEN 0 ELSE cap - 1 + 1
    BY <1>2, FS_Interval
  <2>3. Cardinality(Rows(a)) <= Cardinality(1..cap) /\ Cardinality(Rows(a)) \in Nat
    BY <2>1, <2>2, FS_Subset, FS_CardinalityType
  <2>. QED  BY <1>2, <2>2, <2>3
<1>. QED  BY <1>1, <1>2, <1>3 DEF FreshInv, CapInv

--------------------------------------------------------------------------------
(* A device's record: a device is not signed in while it has anything parked   *)
(* or asks to be enrolled, and its row is its record, or what it parked.       *)

HoldInv ==
    \A d \in Devices :
        /\ stored[d] # None => parked[d] = None
        /\ change[d].kind = "signOut" =>
               stored[d] # None /\ change[d].no = stored[d].credential
        /\ change[d].kind \in {"enroll", "deliver"} => stored[d] = None
\* It waits for every enrollment of its own that is on its way, unless it was cut off.
StrandInv ==
    \A d \in Devices \ cut :
        /\ \A k \in Pending : creds[k].device = d =>
               change[d].kind = "enroll" /\ change[d].no = k
        /\ rows[d] \in {None, stored[d], parked[d]}

LEMMA NamesRow ==
    ASSUME NEW x, NEW d, Names(x, d) PROVE x = Row(x.credential)
BY DEF Names, Row

LEMMA NoChangeKinds == NoChange.kind = "none"
BY DEF NoChange

\* What a step may do to the records that a change of the account leaves alone.
LEMMA HoldStays ==
    ASSUME HoldInv, UNCHANGED <<stored, parked>>,
           \A d \in Devices : change'[d] = change[d] \/ change'[d].kind = "none"
    PROVE  HoldInv'
BY DEF HoldInv

LEMMA RefusesHolds ==
    ASSUME IInv, NEW k \in DOMAIN creds, Refuses(k)
    PROVE  \A d \in Devices :
               \/ change'[d] = change[d]
               \/ /\ d = creds[k].device /\ change[d].kind = "enroll" /\ change[d].no = k
                  /\ change'[d] = NoChange
BY DEF IInv, ChangeInv, Refuses

LEMMA AnsweredHolds ==
    ASSUME IInv, HoldInv, NEW r, r.target \in Devices, NEW answer, Answered(r, answer)
    PROVE  HoldInv'
<1> DEFINE d == r.target
<1>1. DOMAIN stored = Devices /\ DOMAIN parked = Devices /\ DOMAIN change = Devices
  BY DEF IInv, AccountInv, Records, ChangeInv
<1>2. CASE SignedOut(d, answer)
  BY <1>1, <1>2, NoChangeKinds DEF SignedOut, HoldInv
<1>3. CASE Delivered(d, answer)
  <2>1. stored' = stored /\ \A e \in Devices : parked'[e] \in {parked[e], None}
    BY <1>1, <1>3 DEF Delivered
  <2>2. \A e \in Devices :
           \/ change'[e] = change[e]
           \/ change'[e].kind = "none"
           \/ change'[e].kind = "enroll" /\ change[e].kind = "deliver"
    BY <1>1, <1>3, NoChangeKinds DEF Delivered, Asked
  <2>. QED  BY <2>1, <2>2 DEF HoldInv
<1>4. CASE UNCHANGED account
  BY <1>4 DEF account, HoldInv
<1>. QED  BY <1>2, <1>3, <1>4 DEF Answered

LEMMA EnrollReadsHolds ==
    ASSUME IInv, HoldInv, NEW k \in enrolls, EnrollReads(k) PROVE HoldInv'
<1>1. k \in DOMAIN creds /\ DOMAIN change = Devices /\ UNCHANGED <<stored, parked>>
  BY DEF IInv, CredInv, ChangeInv, EnrollReads
<1>2. CASE Refuses(k) \/ UNCHANGED change
  BY <1>1, <1>2, RefusesHolds, HoldStays, NoChangeKinds
<1>3. ASSUME NEW d, d = creds[k].device, change[d].kind = "enroll",
             change' = [change EXCEPT ![d].kind = "deliver", ![d].no = parked[d].credential]
      PROVE  HoldInv'
  <2>1. \A e \in Devices : \/ change'[e] = change[e]
                           \/ change'[e].kind = "deliver" /\ change[e].kind = "enroll"
    BY <1>3 DEF IInv, ChangeInv
  <2>. QED  BY <1>1, <2>1 DEF HoldInv
<1>. QED  BY <1>2, <1>3 DEF EnrollReads, EnrolledElsewhere

LEMMA EnrollWritesHolds ==
    ASSUME IInv, HoldInv, NEW a \in Accounts, EnrollWrites(a) PROVE HoldInv'
<1> DEFINE k == admission[a].no  d == creds[k].device
<1>1. k \in DOMAIN creds /\ DOMAIN change = Devices /\ d \in Devices
      /\ DOMAIN stored = Devices /\ DOMAIN parked = Devices
  BY CredTypes DEF EnrollWrites, IInv, AdmissionInv, Enrolling, ChangeInv, AccountInv, Records
<1>2. CASE Refuses(k) /\ UNCHANGED <<stored, parked>>
  BY <1>1, <1>2, RefusesHolds, HoldStays, NoChangeKinds
<1>3. CASE UNCHANGED account
  BY <1>3 DEF account, HoldInv
<1>4. CASE Stores(d, k)
  BY <1>1, <1>4, NoChangeKinds DEF Stores, HoldInv
<1>. QED  BY <1>2, <1>3, <1>4 DEF EnrollWrites

LEMMA HoldKeeps ==
    ASSUME IInv, HoldInv, [Next]_vars PROVE HoldInv'
<1>1. ASSUME UNCHANGED account PROVE HoldInv'
  BY <1>1 DEF account, HoldInv
<1>2. DOMAIN change = Devices
  BY DEF IInv, ChangeInv
<1>3. ASSUME NEW r \in revokes, RevokeAuths(r) \/ RevokeRemoves(r) \/ RevokeFails(r)
      PROVE  HoldInv'
  <2>1. r.target \in Devices
    BY DEF IInv, RevokeInv, Revokes
  <2>. QED  BY <1>1, <1>3, <2>1, AnsweredHolds DEF RevokeAuths, RevokeRemoves, RevokeFails
<1>4. ASSUME NEW r \in revokes, RevokeTimesOut(r) PROVE HoldInv'
  <2>1. r.target \in Devices
    BY DEF IInv, RevokeInv, Revokes
  <2>. QED  BY <1>4, <2>1, AnsweredHolds DEF RevokeTimesOut
<1>5. ASSUME NEW d \in Devices, NEW a \in Accounts, SignsIn(d, a) PROVE HoldInv'
  BY <1>2, <1>5 DEF SignsIn, Asked, HoldInv
<1>6. ASSUME NEW d \in Devices, SignInTimesOut(d) \/ AppRestarts(d) PROVE HoldInv'
  BY <1>2, <1>6, HoldStays, NoChangeKinds DEF SignInTimesOut, AppRestarts
<1>7. ASSUME NEW d \in Devices, SignOut(d) PROVE HoldInv'
  BY <1>2, <1>7 DEF SignOut, HoldInv
<1>8. ASSUME NEW a \in Accounts, EnrollEvicts(a) \/ EnrollFails(a) PROVE HoldInv'
  <2>1. admission[a].no \in DOMAIN creds /\ UNCHANGED <<stored, parked>>
    BY <1>8 DEF EnrollEvicts, EnrollFails, IInv, AdmissionInv, Enrolling
  <2>2. Refuses(admission[a].no) \/ UNCHANGED change
    BY <1>8 DEF EnrollEvicts, EnrollFails
  <2>. QED  BY <2>1, <2>2, RefusesHolds, HoldStays, NoChangeKinds
<1>9. ASSUME NEW a \in Accounts, ConnectAdmits(a) \/ ConnectFails(a) PROVE HoldInv'
  BY <1>1, <1>9 DEF ConnectAdmits, ConnectFails
<1>10. ASSUME NEW d \in Devices, LinkSteps(d) \/ \E e \in Devices : Removes(d, e) PROVE HoldInv'
  BY <1>1, <1>7, <1>10 DEF LinkSteps, Dial, Accepted, GivesUp, SignsItselfOut, Removes
<1>11. CASE \/ Hears \/ (\E n \in sockets : Departs(n))
            \/ (\E n \in Range(opens) : ConnectTakes(n)) \/ (\E n \in tickets : TicketExpires(n))
            \/ (\E m \in closes : CloseLost(m)) \/ UNCHANGED vars
  BY <1>1, <1>11 DEF Hears, CloseHeard, Departs, ConnectTakes, TicketExpires, CloseLost, vars
<1>. QED
  BY <1>3, <1>4, <1>5, <1>6, <1>7, <1>8, <1>9, <1>10, <1>11, EnrollReadsHolds,
     EnrollWritesHolds DEF Next, HubSteps, SignsOut

\* A device whose record, and what it waits for, a step leaves alone.
LEMMA StrandStays ==
    ASSUME IInv, IInv', StrandInv, RegistryMove, cut \subseteq cut',
           NEW d \in Devices \ cut',
           \A k \in enrolls' : k \notin DOMAIN creds => creds'[k].device # d,
           Grown,
           stored'[d] = stored[d], parked'[d] = parked[d], change'[d] = change[d],
           rows'[d] \in {None, rows[d]}
    PROVE  /\ \A k \in Pending' : creds'[k].device = d =>
                  change'[d].kind = "enroll" /\ change'[d].no = k
           /\ rows'[d] \in {None, stored'[d], parked'[d]}
<1>1. d \notin cut
  OBVIOUS
<1>2. ASSUME NEW k \in Pending', creds'[k].device = d
      PROVE  change'[d].kind = "enroll" /\ change'[d].no = k
  <2>1. k \in DOMAIN creds
    <3>1. CASE k \in enrolls'
      BY <1>2, <3>1
    <3>2. CASE k \notin enrolls'
      <4>1. PICK a \in Accounts : Enrolling(a)' /\ admission'[a].no = k
        BY <3>2 DEF Pending
      <4>2. CASE EnrollingStays
        BY <4>1, <4>2, PendingKnown DEF EnrollingStays, Pending
      <4>3. CASE Reading
        BY <4>1, <4>2, <4>3, PendingKnown DEF Reading, IInv, CredInv, AdmissionInv, Enrolling
      <4>4. CASE Writing
        BY <4>1, <4>4, FreesOne, PendingKnown DEF Writing, Pending
      <4>. QED  BY <4>2, <4>3, <4>4 DEF RegistryMove, Removal
    <3>. QED  BY <3>1, <3>2
  <2>2. k \in Pending /\ creds[k].device = d
    BY <1>2, <2>1, PendingFades DEF Grown
  <2>. QED  BY <1>1, <2>2 DEF StrandInv
<1>3. rows[d] \in {None, stored[d], parked[d]}
  BY <1>1 DEF StrandInv
<1>. QED  BY <1>2, <1>3

\* Nothing new is asked.
LEMMA QuietStrand ==
    ASSUME IInv, IInv', StrandInv, RegistryMove, UNCHANGED <<account, creds>>, cut \subseteq cut',
           \A d \in Devices \ cut' : rows'[d] \in {None, rows[d]}
    PROVE  StrandInv'
<1>1. Grown /\ enrolls' \subseteq DOMAIN creds
  BY SameGrown DEF IInv, CredInv
<1>2. \A d \in Devices \ cut' :
          stored'[d] = stored[d] /\ parked'[d] = parked[d] /\ change'[d] = change[d]
  BY DEF account
<1>3. \A d \in Devices \ cut' :
          /\ \A k \in Pending' : creds'[k].device = d =>
                  change'[d].kind = "enroll" /\ change'[d].no = k
          /\ rows'[d] \in {None, stored'[d], parked'[d]}
  BY <1>1, <1>2, StrandStays
<1>. QED  BY <1>3 DEF StrandInv

\* A new enrollment is of the device that asks.
LEMMA EnrollsOwn ==
    ASSUME IInv, NEW d, NEW a, Enrolls(d, a)
    PROVE  /\ \A k \in enrolls' : k \notin DOMAIN creds => k = Len(creds) + 1
           /\ creds'[Len(creds) + 1].device = d
<1> DEFINE K == [device : Devices, account : Accounts]
           c == [device |-> d, account |-> a]
<1>1. creds \in Seq(K) /\ creds' = Append(creds, c) /\ enrolls \subseteq DOMAIN creds
      /\ enrolls' = enrolls \cup {Len(creds) + 1} /\ c.device = d
  BY DEF IInv, CredInv, Enrolls
<1> HIDE DEF K, c
<1>. QED  BY <1>1

\* A device that waits for nothing has nothing on its way but what it asks now.
LEMMA NewOnly ==
    ASSUME IInv, IInv', StrandInv, RegistryMove, Grown, NEW d \in Devices \ cut,
           change[d].kind # "enroll"
    PROVE  \A k \in Pending' : creds'[k].device = d => k \in enrolls' /\ k \notin DOMAIN creds
<1>. SUFFICES ASSUME NEW k \in Pending', creds'[k].device = d
              PROVE  k \in enrolls' /\ k \notin DOMAIN creds
  OBVIOUS
<1>1. k \notin DOMAIN creds
  BY PendingFades DEF Grown, StrandInv
<1>2. ASSUME NEW a \in Accounts, Enrolling(a)' PROVE admission'[a].no \in DOMAIN creds
  <2>1. CASE EnrollingStays
    BY <1>2, <2>1, PendingKnown DEF EnrollingStays, Pending
  <2>2. CASE Reading
    BY <1>2, <2>1, <2>2, PendingKnown DEF Reading, IInv, CredInv, AdmissionInv, Enrolling
  <2>3. CASE Writing
    BY <1>2, <2>3, FreesOne, PendingKnown DEF Writing, Pending
  <2>. QED  BY <2>1, <2>2, <2>3 DEF RegistryMove, Removal
<1>. QED  BY <1>1, <1>2 DEF Pending

\* What is let go was taken out, or stands for another enrollment.
LEMMA AnsweredStrand ==
    ASSUME IInv, IInv', HoldInv, StrandInv, RegistryMove, Grown, UNCHANGED cut,
           NEW r, r.target \in Devices, NEW answer, Answered(r, answer),
           \A d \in Devices : rows'[d] \in {None, rows[d]},
           Undelivered(answer) \/ rows'[r.target] # Row(r.by)
    PROVE  StrandInv'
<1> DEFINE d == r.target
<1>1. /\ DOMAIN stored = Devices /\ DOMAIN parked = Devices /\ DOMAIN change = Devices
      /\ d \in Devices /\ enrolls \subseteq DOMAIN creds
  BY DEF IInv, AccountInv, Records, ChangeInv, RevokeInv, CredInv
<1>2. CASE UNCHANGED <<account, creds>>
  BY <1>2, QuietStrand
<1>3. ASSUME NEW e \in Devices \ cut, e # d,
             SignedOut(d, answer) \/ Delivered(d, answer)
      PROVE  /\ \A k \in Pending' : creds'[k].device = e =>
                    change'[e].kind = "enroll" /\ change'[e].no = k
             /\ rows'[e] \in {None, stored'[e], parked'[e]}
  <2>1. stored'[e] = stored[e] /\ parked'[e] = parked[e] /\ change'[e] = change[e]
    BY <1>1, <1>3 DEF SignedOut, Delivered
  <2>2. \A k \in enrolls' : k \notin DOMAIN creds => creds'[k].device # e
    BY <1>1, <1>3, EnrollsOwn DEF SignedOut, Delivered
  <2>. QED  BY <2>1, <2>2, StrandStays
<1>4. CASE SignedOut(d, answer) /\ change[d].kind = "signOut" /\ change[d].no = r.by
  <2>. SUFFICES ASSUME d \notin cut
                PROVE  /\ \A k \in Pending' : creds'[k].device = d =>
                              change'[d].kind = "enroll" /\ change'[d].no = k
                       /\ rows'[d] \in {None, stored'[d], parked'[d]}
    BY <1>1, <1>3, <1>4 DEF StrandInv
  <2>1. \A k \in Pending' : creds'[k].device # d
    <3>1. enrolls' \subseteq DOMAIN creds
      BY <1>1, <1>4 DEF SignedOut
    <3>. QED  BY <1>1, <1>4, <3>1, NewOnly
  <2>2. stored[d] # None /\ stored[d] = Row(r.by) /\ parked[d] = None
    BY <1>1, <1>4, NamesRow DEF HoldInv, IInv, AccountInv, Records
  <2>3. rows[d] \in {None, stored[d]}
    BY <1>1, <2>2 DEF StrandInv
  <2>4. rows'[d] \in {None, stored[d]} /\ (Undelivered(answer) \/ rows'[d] = None)
    BY <1>1, <2>2, <2>3
  <2>5. parked'[d] = IF Undelivered(answer) THEN stored[d] ELSE None
    BY <1>1, <1>4, <2>2 DEF SignedOut
  <2>. QED  BY <2>1, <2>4, <2>5
<1>5. CASE Delivered(d, answer) /\ parked[d] # None /\ parked[d].credential = r.by
  <2>. SUFFICES ASSUME d \notin cut
                PROVE  /\ \A k \in Pending' : creds'[k].device = d =>
                              change'[d].kind = "enroll" /\ change'[d].no = k
                       /\ rows'[d] \in {None, stored'[d], parked'[d]}
    BY <1>1, <1>3, <1>5 DEF StrandInv
  <2>1. parked[d] = Row(r.by)
    BY <1>1, <1>5, NamesRow DEF IInv, AccountInv, Records
  <2>2. rows'[d] \in {None, stored'[d], parked'[d]}
    <3>1. rows[d] \in {None, stored[d], parked[d]}
      BY <1>1 DEF StrandInv
    <3>2. stored'[d] = stored[d] /\ parked'[d] = IF Undelivered(answer) THEN parked[d] ELSE None
      BY <1>1, <1>5 DEF Delivered
    <3>. QED  BY <1>1, <2>1, <3>1, <3>2
  <2>3. ASSUME NEW k \in Pending', creds'[k].device = d
        PROVE  change'[d].kind = "enroll" /\ change'[d].no = k
    <3>1. CASE change[d].kind = "deliver" /\ ~Undelivered(answer)
      <4>1. k \in enrolls' /\ k \notin DOMAIN creds
        BY <1>1, <2>3, <3>1, NewOnly
      <4>2. /\ Enrolls(d, change[d].account)
            /\ change' = [change EXCEPT ![d] = Asked(d, change[d].account)]
        BY <1>5, <3>1 DEF Delivered
      <4>3. k = Len(creds) + 1
        BY <4>1, <4>2, EnrollsOwn
      <4>. QED  BY <1>1, <4>2, <4>3 DEF Asked
    <3>2. CASE ~(change[d].kind = "deliver" /\ ~Undelivered(answer))
      <4>1. UNCHANGED <<creds, enrolls>>
        BY <1>5, <3>2 DEF Delivered
      <4>2. change[d].kind = "enroll" /\ change[d].no = k
        <5>1. k \in DOMAIN creds
          BY <2>3, <4>1, PendingKnownNext
        <5>. QED  BY <1>1, <2>3, <4>1, <5>1, PendingFades DEF StrandInv
      <4>3. change'[d] = change[d]
        BY <1>1, <1>5, <3>2, <4>2 DEF Delivered
      <4>. QED  BY <4>2, <4>3
    <3>. QED  BY <3>1, <3>2
  <2>. QED  BY <2>2, <2>3
<1>. QED  BY <1>2, <1>4, <1>5 DEF Answered

\* A call that is given up on is answered, or the device was cut off.
LEMMA RefusesStrand ==
    ASSUME IInv, IInv', StrandInv, RegistryMove, UNCHANGED <<creds, cut, stored, parked>>,
           NEW k \in DOMAIN creds, k \notin Pending', Refuses(k),
           \A d \in Devices : rows'[d] \in {None, rows[d]}
    PROVE  StrandInv'
<1>1. Grown /\ enrolls' \subseteq DOMAIN creds
  BY SameGrown DEF IInv, CredInv
<1>2. ASSUME NEW d \in Devices \ cut
      PROVE  /\ \A j \in Pending' : creds'[j].device = d =>
                    change'[d].kind = "enroll" /\ change'[d].no = j
             /\ rows'[d] \in {None, stored'[d], parked'[d]}
  <2>1. CASE change'[d] = change[d]
    BY <1>1, <1>2, <2>1, StrandStays
  <2>2. CASE change[d].kind = "enroll" /\ change[d].no = k
    <3>1. \A j \in Pending' : creds'[j].device # d
      <4>1. \A j \in Pending' : j \in Pending /\ j # k
        BY PendingFades, PendingKnownNext
      <4>. QED  BY <2>2, <4>1 DEF StrandInv
    <3>2. rows[d] \in {None, stored[d], parked[d]}
      BY DEF StrandInv
    <3>. QED  BY <3>1, <3>2
  <2>. QED  BY <2>1, <2>2, RefusesHolds
<1>. QED  BY <1>2 DEF StrandInv

LEMMA EnrollReadsStrand ==
    ASSUME IInv, IInv', OnceInv, OnceInv', StrandInv, RegistryMove, NEW k \in enrolls,
           EnrollReads(k)
    PROVE  StrandInv'
<1> DEFINE d == creds[k].device
<1>1. /\ k \in DOMAIN creds /\ DOMAIN change = Devices /\ d \in Devices
      /\ UNCHANGED <<rows, stored, parked, creds, cut>> /\ enrolls' = enrolls \ {k}
  BY CredTypes DEF IInv, CredInv, ChangeInv, EnrollReads, issued
<1>2. CASE UNCHANGED change
  BY <1>1, <1>2, QuietStrand DEF account
<1>3. CASE EnrolledElsewhere(k) /\ UNCHANGED admission
  <2>1. k \notin Pending'
    BY <1>1, <1>3 DEF OnceInv, Pending, Enrolling
  <2>2. CASE Refuses(k)
    BY <1>1, <2>1, <2>2, RefusesStrand
  <2>3. CASE /\ change[d].kind = "enroll" /\ change[d].no = k
             /\ change' = [change EXCEPT ![d].kind = "deliver", ![d].no = parked[d].credential]
    <3>1. ASSUME NEW e \in Devices \ cut
          PROVE  /\ \A j \in Pending' : creds'[j].device = e =>
                        change'[e].kind = "enroll" /\ change'[e].no = j
                 /\ rows'[e] \in {None, stored'[e], parked'[e]}
      <4>1. CASE e # d
        <5>1. change'[e] = change[e] /\ Grown /\ enrolls' \subseteq DOMAIN creds
          BY <1>1, <2>3, <4>1, SameGrown DEF IInv, CredInv
        <5>. QED  BY <1>1, <5>1, StrandStays
      <4>2. CASE e = d
        <5>1. \A j \in Pending' : creds'[j].device # d
          <6>1. \A j \in Pending' : j \in Pending /\ j # k
            BY <1>1, <2>1, PendingFades, PendingKnownNext
          <6>. QED  BY <1>1, <2>3, <3>1, <4>2, <6>1 DEF StrandInv
        <5>. QED  BY <1>1, <3>1, <4>2, <5>1 DEF StrandInv
      <4>. QED  BY <4>1, <4>2
    <3>. QED  BY <1>1, <3>1 DEF StrandInv
  <2>. QED  BY <1>3, <2>2, <2>3 DEF EnrolledElsewhere
<1>. QED  BY <1>2, <1>3 DEF EnrollReads

\* The device has its enrollment as it is written, or was cut off from it.
LEMMA EnrollWritesStrand ==
    ASSUME IInv, IInv', OnceInv, HoldInv, StrandInv, RegistryMove, NEW a \in Accounts,
           EnrollWrites(a)
    PROVE  StrandInv'
<1> DEFINE k == admission[a].no  d == creds[k].device
<1>1. /\ k \in DOMAIN creds /\ DOMAIN change = Devices /\ d \in Devices /\ DOMAIN rows = Devices
      /\ DOMAIN stored = Devices /\ DOMAIN parked = Devices
      /\ UNCHANGED <<creds, enrolls>> /\ Frees(a) /\ Enrolling(a)
      /\ enrolls' \subseteq DOMAIN creds
  BY CredTypes
  DEF EnrollWrites, IInv, AdmissionInv, Enrolling, ChangeInv, AccountInv, RowInv, Records,
      CredInv, calls
<1>2. Grown /\ \A j \in Pending' : j \in Pending /\ j # k
  <2>1. k \notin enrolls
    BY <1>1 DEF OnceInv
  <2>2. \A b \in Accounts : Enrolling(b)' => admission'[b].no # k
    BY <1>1, FreesOne DEF IInv, AdmissionInv, Enrolling
  <2>. QED  BY <1>1, <2>1, <2>2, SameGrown, PendingFades, PendingKnownNext DEF Pending
<1>3. CASE Refuses(k) /\ UNCHANGED <<rows, stored, parked, cut>>
  BY <1>1, <1>2, <1>3, RefusesStrand
<1>4. CASE rows' = [rows EXCEPT ![d] = Row(k)] /\ UNCHANGED account /\ cut' = cut \cup {d}
  <2>1. \A e \in Devices \ cut' : rows'[e] \in {None, rows[e]}
    BY <1>1, <1>4
  <2>. QED  BY <1>1, <1>4, <2>1, QuietStrand
<1>5. CASE /\ rows' = [rows EXCEPT ![d] = Row(k)] /\ UNCHANGED <<cut, account>>
           /\ ~(change[d].kind = "enroll" /\ change[d].no = k)
  <2>1. d \in cut
    BY <1>1, <1>5 DEF StrandInv, Pending
  <2>2. \A e \in Devices \ cut' : rows'[e] \in {None, rows[e]}
    BY <1>1, <1>5, <2>1
  <2>. QED  BY <1>1, <1>5, <2>2, QuietStrand
<1>6. CASE /\ rows' = [rows EXCEPT ![d] = Row(k)] /\ UNCHANGED cut /\ Stores(d, k)
           /\ change[d].kind = "enroll" /\ change[d].no = k
  <2>1. ASSUME NEW e \in Devices \ cut
        PROVE  /\ \A j \in Pending' : creds'[j].device = e =>
                      change'[e].kind = "enroll" /\ change'[e].no = j
               /\ rows'[e] \in {None, stored'[e], parked'[e]}
    <3>1. CASE e = d
      <4>1. rows'[d] = stored'[d]
        BY <1>1, <1>6 DEF Stores
      <4>2. \A j \in Pending' : creds'[j].device # d
        BY <1>1, <1>2, <1>6, <2>1, <3>1 DEF StrandInv
      <4>. QED  BY <3>1, <4>1, <4>2
    <3>2. CASE e # d
      <4>1. /\ stored'[e] = stored[e] /\ parked'[e] = parked[e] /\ change'[e] = change[e]
            /\ rows'[e] = rows[e]
        BY <1>1, <1>6, <3>2 DEF Stores
      <4>. QED  BY <1>1, <1>2, <1>6, <4>1, StrandStays
    <3>. QED  BY <3>1, <3>2
  <2>. QED  BY <1>6, <2>1 DEF StrandInv
<1>. QED  BY <1>3, <1>4, <1>5, <1>6 DEF EnrollWrites

LEMMA StrandKeeps ==
    ASSUME IInv, IInv', OnceInv, OnceInv', HoldInv, StrandInv, RegistryMove, [Next]_vars
    PROVE  StrandInv'
<1>1. Grown /\ DOMAIN change = Devices /\ DOMAIN rows = Devices /\ enrolls \subseteq DOMAIN creds
  BY StepGrows DEF IInv, ChangeInv, RowInv, Records, CredInv
<1>2. ASSUME UNCHANGED <<account, creds, rows>>, cut \subseteq cut' PROVE StrandInv'
  BY <1>2, QuietStrand
<1>3. ASSUME NEW r \in revokes, RevokeAuths(r) \/ RevokeRemoves(r) \/ RevokeFails(r)
      PROVE  StrandInv'
  <2>1. r.target \in Devices /\ r.by \in DOMAIN creds /\ UNCHANGED cut
    BY <1>3 DEF IInv, RevokeInv, Revokes, RevokeAuths, RevokeRemoves, RevokeFails
  <2>2. \A d \in Devices : rows'[d] \in {None, rows[d]}
    BY <1>1, <1>3, <2>1 DEF RevokeAuths, RevokeRemoves, RevokeFails, RemovesRow, hub
  <2>3. \A answer : Undelivered(answer) <=> answer = "failed"
    BY DEF Undelivered
  <2>4. CASE RevokeFails(r)
    BY <1>1, <2>1, <2>2, <2>3, <2>4, AnsweredStrand DEF RevokeFails
  <2>5. CASE RevokeAuths(r)
    <3>1. CASE Current(r.by)
      BY <1>2, <2>1, <2>5, <3>1 DEF RevokeAuths, hub, account
    <3>2. CASE ~Current(r.by)
      <4>1. rows'[r.target] # Row(r.by)
        <5>1. UNCHANGED rows /\ Row(r.by) # None
          BY <2>1, <2>5, RowIsNone DEF RevokeAuths, hub
        <5>2. rows[r.target] = Row(r.by) => creds[r.by].device = r.target
          BY <2>1, <5>1 DEF IInv, RowInv, Records, Names, Row
        <5>. QED  BY <3>2, <5>1, <5>2 DEF Current
      <4>. QED  BY <1>1, <2>1, <2>2, <2>5, <3>2, <4>1, AnsweredStrand DEF RevokeAuths
    <3>. QED  BY <3>1, <3>2
  <2>6. CASE RevokeRemoves(r)
    <3>1. CASE Answered(r, "failed")
      BY <1>1, <2>1, <2>2, <2>3, <3>1, AnsweredStrand
    <3>2. CASE r.target \in Rows(creds[r.by].account) /\ Answered(r, "removed")
      <4>1. rows'[r.target] # Row(r.by)
        BY <1>1, <2>1, <2>6, <3>2, RowIsNone DEF RevokeRemoves, RemovesRow
      <4>. QED  BY <1>1, <2>1, <2>2, <3>2, <4>1, AnsweredStrand
    <3>. QED  BY <2>6, <3>1, <3>2 DEF RevokeRemoves
  <2>. QED  BY <1>3, <2>4, <2>5, <2>6
<1>4. ASSUME NEW r \in revokes, RevokeTimesOut(r) PROVE StrandInv'
  <2>1. UNCHANGED <<rows, cut>> /\ Answered(r, "failed") /\ Undelivered("failed")
        /\ r.target \in Devices
    BY <1>4 DEF RevokeTimesOut, hub, Undelivered, IInv, RevokeInv, Revokes
  <2>. QED  BY <1>1, <1>4, <2>1, AnsweredStrand
<1>5. ASSUME NEW d \in Devices, NEW a \in Accounts, SignsIn(d, a) PROVE StrandInv'
  <2>1. /\ UNCHANGED <<rows, stored, parked, cut>> /\ Enrolls(d, a) /\ change[d].kind = "none"
        /\ change' = [change EXCEPT ![d] = Asked(d, a)]
    BY <1>5 DEF SignsIn, hub
  <2>2. ASSUME NEW e \in Devices \ cut
        PROVE  /\ \A k \in Pending' : creds'[k].device = e =>
                      change'[e].kind = "enroll" /\ change'[e].no = k
               /\ rows'[e] \in {None, stored'[e], parked'[e]}
    <3>1. CASE e # d
      <4>1. \A k \in enrolls' : k \notin DOMAIN creds => creds'[k].device # e
        BY <2>1, <3>1, EnrollsOwn
      <4>. QED  BY <1>1, <2>1, <2>2, <3>1, <4>1, StrandStays
    <3>2. CASE e = d
      <4>1. \A k \in Pending' : creds'[k].device = d => k = Len(creds) + 1
        BY <1>1, <2>1, <2>2, <3>2, NewOnly, EnrollsOwn
      <4>2. change'[d].kind = "enroll" /\ change'[d].no = Len(creds) + 1
        BY <1>1, <2>1 DEF Asked
      <4>. QED  BY <2>1, <2>2, <3>2, <4>1, <4>2 DEF StrandInv
    <3>. QED  BY <3>1, <3>2
  <2>. QED  BY <2>1, <2>2 DEF StrandInv
<1>6. ASSUME NEW d \in Devices, SignInTimesOut(d) \/ AppRestarts(d) \/ SignOut(d)
      PROVE  StrandInv'
  <2>1. /\ UNCHANGED <<rows, stored, parked, creds, enrolls>> /\ cut \subseteq cut'
        /\ \A e \in Devices \ {d} : change'[e] = change[e]
        /\ change[d].kind = "enroll" => d \in cut'
    BY <1>1, <1>6 DEF SignInTimesOut, AppRestarts, SignOut, hub, issued, calls
  <2>2. ASSUME NEW e \in Devices \ cut'
        PROVE  /\ \A k \in Pending' : creds'[k].device = e =>
                      change'[e].kind = "enroll" /\ change'[e].no = k
               /\ rows'[e] \in {None, stored'[e], parked'[e]}
    <3>1. CASE e # d
      BY <1>1, <2>1, <2>2, <3>1, StrandStays
    <3>2. CASE e = d
      <4>1. \A k \in Pending' : creds'[k].device # d
        BY <1>1, <2>1, <2>2, <3>2, NewOnly
      <4>. QED  BY <2>1, <2>2, <3>2, <4>1 DEF StrandInv
    <3>. QED  BY <3>1, <3>2
  <2>. QED  BY <2>2 DEF StrandInv
<1>7. ASSUME NEW a \in Accounts, EnrollEvicts(a) \/ EnrollFails(a) PROVE StrandInv'
  <2>1. /\ admission[a].no \in DOMAIN creds /\ UNCHANGED <<stored, parked, creds, cut>>
        /\ \A d \in Devices : rows'[d] \in {None, rows[d]}
    BY <1>1, <1>7 DEF EnrollEvicts, EnrollFails, Evictable, Rows, RemovesRow, IInv,
       AdmissionInv, Enrolling, issued
  <2>2. CASE UNCHANGED change
    BY <2>1, <2>2, QuietStrand DEF account
  <2>3. CASE Refuses(admission[a].no) /\ Frees(a)
    <3>1. Enrolling(a) /\ UNCHANGED enrolls
      BY <1>7 DEF EnrollEvicts, EnrollFails, calls
    <3>2. admission[a].no \notin Pending'
      <4>1. admission[a].no \notin enrolls
        BY <3>1 DEF OnceInv
      <4>2. \A b \in Accounts : Enrolling(b)' => admission'[b].no # admission[a].no
        BY <2>3, <3>1, FreesOne DEF IInv, AdmissionInv, Enrolling
      <4>. QED  BY <3>1, <4>1, <4>2 DEF Pending
    <3>. QED  BY <2>1, <2>3, <3>2, RefusesStrand
  <2>. QED  BY <1>7, <2>2, <2>3 DEF EnrollEvicts, EnrollFails
<1>8. ASSUME NEW a \in Accounts, ConnectAdmits(a) \/ ConnectFails(a) PROVE StrandInv'
  BY <1>2, <1>8 DEF ConnectAdmits, ConnectFails, issued
<1>9. ASSUME NEW d \in Devices, LinkSteps(d) \/ \E e \in Devices : Removes(d, e) PROVE StrandInv'
  BY <1>2, <1>6, <1>9 DEF LinkSteps, Dial, Accepted, GivesUp, SignsItselfOut, Removes, hub,
     issued, account
<1>10. CASE \/ Hears \/ (\E n \in sockets : Departs(n))
            \/ (\E n \in Range(opens) : ConnectTakes(n)) \/ (\E n \in tickets : TicketExpires(n))
            \/ (\E m \in closes : CloseLost(m)) \/ UNCHANGED vars
  BY <1>2, <1>10 DEF Hears, CloseHeard, Departs, ConnectTakes, TicketExpires, CloseLost, vars,
     hub, issued
<1>. QED
  BY <1>3, <1>4, <1>5, <1>6, <1>7, <1>8, <1>9, <1>10, EnrollReadsStrand, EnrollWritesStrand
  DEF Next, HubSteps, SignsOut

--------------------------------------------------------------------------------
(* A device's calls in their order: what it asked under an earlier enrollment  *)
(* has ended by the time a later one is written.                               *)

\* A device's calls for its enrollment, the enrollments its calls to be signed out
\* were made under, and the accounts it is being enrolled in.
Asking(d) == {k \in enrolls : creds[k].device = d}
Leaving(d) == {r.by : r \in {q \in revokes : q.target = d /\ creds[q.by].device = d}}
Entering(d) == {a \in Accounts : Enrolling(a) /\ creds[admission[a].no].device = d}

TurnAt(d) ==
    /\ change[d].kind = "enroll" =>
           /\ \A k \in Asking(d) : k <= change[d].no
           /\ \A k \in Leaving(d) : k < change[d].no
           /\ \A a \in Entering(d) : admission[a].no = change[d].no =>
                  Asking(d) = {} /\ Leaving(d) = {}
    /\ stored[d] # None =>
           /\ Asking(d) = {}
           /\ stored[d].account \notin Entering(d)
           /\ Leaving(d) \subseteq {stored[d].credential}
TurnInv == \A d \in Devices : TurnAt(d)

\* A device of which a step asks nothing new.
LEMMA TurnLess ==
    ASSUME NEW d, TurnAt(d),
           change'[d] = change[d] \/ change'[d].kind # "enroll",
           stored'[d] = stored[d] \/ stored'[d] = None,
           Asking(d)' \subseteq Asking(d), Leaving(d)' \subseteq Leaving(d),
           Entering(d)' \subseteq Entering(d),
           \A a \in Entering(d)' : admission'[a] = admission[a]
    PROVE  TurnAt(d)'
BY DEF TurnAt

LEMMA AskingLess ==
    ASSUME IInv, Grown, NEW d, \A k \in enrolls' : k \in enrolls \/ creds'[k].device # d
    PROVE  Asking(d)' \subseteq Asking(d)
BY DEF IInv, CredInv, Grown, Asking

LEMMA LeavingLess ==
    ASSUME IInv, Grown, NEW d,
           \A r \in revokes' : r.target = d =>
               \/ \E q \in revokes : q.target = d /\ q.by = r.by
               \/ r.by \in DOMAIN creds /\ creds[r.by].device # d
    PROVE  Leaving(d)' \subseteq Leaving(d)
BY DEF IInv, RevokeInv, Revokes, Grown, Leaving

LEMMA EnteringLess ==
    ASSUME IInv, Grown, NEW d, EnrollingStays \/ \E a \in Accounts : Frees(a)
    PROVE  /\ Entering(d)' \subseteq Entering(d)
           /\ \A a \in Entering(d)' : admission'[a] = admission[a]
<1>1. \A a \in Accounts : Enrolling(a)' => Enrolling(a) /\ admission'[a] = admission[a]
  BY FreesOne DEF EnrollingStays
<1>2. \A a \in Accounts : Enrolling(a) => admission[a].no \in DOMAIN creds
  BY DEF IInv, AdmissionInv, Enrolling
<1>. QED  BY <1>1, <1>2 DEF Entering, Grown

\* A step that asks nothing new.
LEMMA QuietTurn ==
    ASSUME IInv, Grown, TurnInv, EnrollingStays \/ (\E a \in Accounts : Frees(a)),
           enrolls' \subseteq enrolls, revokes' \subseteq revokes,
           \A d \in Devices : /\ change'[d] = change[d] \/ change'[d].kind # "enroll"
                              /\ stored'[d] = stored[d] \/ stored'[d] = None
    PROVE  TurnInv'
<1>. SUFFICES ASSUME NEW d \in Devices PROVE TurnAt(d)'
  BY DEF TurnInv
<1>1. Asking(d)' \subseteq Asking(d)
  BY AskingLess
<1>2. Leaving(d)' \subseteq Leaving(d)
  BY LeavingLess
<1>. QED  BY <1>1, <1>2, EnteringLess, TurnLess DEF TurnInv

LEMMA CredLength == IInv => DOMAIN creds = 1..Len(creds) /\ Len(creds) \in Nat
<1> DEFINE K == [device : Devices, account : Accounts]
<1>1. IInv => creds \in Seq(K)
  BY DEF IInv, CredInv
<1> HIDE DEF K
<1>. QED  BY <1>1

\* The same calls to be signed out, or fewer.
SameRevokes == \A r \in revokes' : \E q \in revokes : q.target = r.target /\ q.by = r.by

LEMMA AskedTurn ==
    ASSUME IInv, TurnInv, NEW d \in Devices, NEW a \in Accounts, Enrolls(d, a),
           change' = [change EXCEPT ![d] = Asked(d, a)], stored[d] = None, UNCHANGED stored,
           EnrollingStays, SameRevokes
    PROVE  TurnInv'
<1>. SUFFICES ASSUME NEW e \in Devices PROVE TurnAt(e)'
  BY DEF TurnInv
<1>1. Grown /\ DOMAIN change = Devices
  BY EnrollsGrown DEF IInv, ChangeInv
<1>2. Leaving(e)' \subseteq Leaving(e)
  BY <1>1, LeavingLess DEF SameRevokes
<1>3. /\ Entering(e)' \subseteq Entering(e)
      /\ \A b \in Entering(e)' : admission'[b] = admission[b]
  BY <1>1, EnteringLess
<1>4. CASE e # d
  <2>1. Asking(e)' \subseteq Asking(e)
    BY <1>1, <1>4, EnrollsOwn, AskingLess DEF Enrolls, IInv, CredInv
  <2>. QED  BY <1>1, <1>2, <1>3, <1>4, <2>1, TurnLess DEF TurnInv
<1>5. CASE e = d
  <2>1. change'[d].no = Len(creds) + 1 /\ stored'[d] = None
    BY <1>1 DEF Asked
  <2>2. \A k \in Asking(d)' : k <= Len(creds) + 1
    BY CredLength DEF Asking, Enrolls, IInv, CredInv
  <2>3. \A k \in Leaving(d) : k < Len(creds) + 1
    BY CredLength DEF Leaving, IInv, RevokeInv, Revokes
  <2>4. \A b \in Entering(d)' : admission'[b].no # Len(creds) + 1
    BY <1>3, <1>5, Newest DEF Entering, IInv, AdmissionInv, Enrolling
  <2>5. Leaving(d)' \subseteq Leaving(d)
    BY <1>2, <1>5
  <2>. QED  BY <1>5, <2>1, <2>2, <2>3, <2>4, <2>5 DEF TurnAt
<1>. QED  BY <1>4, <1>5

LEMMA AnsweredTurn ==
    ASSUME IInv, HoldInv, TurnInv, Grown, EnrollingStays, SameRevokes,
           NEW r, r.target \in Devices, NEW answer, Answered(r, answer)
    PROVE  TurnInv'
<1> DEFINE d == r.target
<1>1. DOMAIN stored = Devices /\ DOMAIN change = Devices
  BY DEF IInv, AccountInv, Records, ChangeInv
<1>2. CASE Delivered(d, answer) /\ change[d].kind = "deliver" /\ ~Undelivered(answer)
  <2>1. /\ Enrolls(d, change[d].account) /\ change[d].account \in Accounts
        /\ change' = [change EXCEPT ![d] = Asked(d, change[d].account)]
        /\ UNCHANGED stored /\ stored[d] = None
    BY <1>1, <1>2 DEF Delivered, IInv, ChangeInv, HoldInv
  <2>. QED  BY <2>1, AskedTurn
<1>3. CASE ~(Delivered(d, answer) /\ change[d].kind = "deliver" /\ ~Undelivered(answer))
  <2>. SUFFICES ASSUME NEW e \in Devices PROVE TurnAt(e)'
    BY DEF TurnInv
  <2>1. UNCHANGED enrolls
    BY <1>3 DEF Answered, SignedOut, Delivered
  <2>2. change'[e] = change[e] \/ change'[e].kind # "enroll"
    BY <1>1, <1>3, NoChangeKinds DEF Answered, SignedOut, Delivered, account
  <2>3. stored'[e] = stored[e] \/ stored'[e] = None
    BY <1>1, <1>3 DEF Answered, SignedOut, Delivered, account
  <2>4. Asking(e)' \subseteq Asking(e)
    BY <2>1, AskingLess
  <2>5. Leaving(e)' \subseteq Leaving(e)
    BY LeavingLess DEF SameRevokes
  <2>. QED  BY <2>2, <2>3, <2>4, <2>5, EnteringLess, TurnLess DEF TurnInv
<1>. QED  BY <1>2, <1>3

\* What a device asks on its own behalf, or on another's.
LEMMA RevokesTurn ==
    ASSUME IInv, TurnInv, UNCHANGED <<creds, stored>>, enrolls' \subseteq enrolls, EnrollingStays,
           NEW d \in Devices, NEW e \in Devices, NEW k \in DOMAIN creds, creds[k].device = d,
           \A r \in revokes' : \/ r = Revoke(e, k)
                             \/ \E q \in revokes : q.target = r.target /\ q.by = r.by,
           \A c \in Devices : change'[c] = change[c] \/ change'[c].kind # "enroll",
           e = d => /\ change'[d].kind # "enroll"
                    /\ stored[d] = None \/ stored[d].credential = k
    PROVE  TurnInv'
<1>. SUFFICES ASSUME NEW c \in Devices PROVE TurnAt(c)'
  BY DEF TurnInv
<1>1. Grown
  BY SameGrown
<1>2. Asking(c)' \subseteq Asking(c)
  BY <1>1, AskingLess
<1>3. /\ Entering(c)' \subseteq Entering(c)
      /\ \A b \in Entering(c)' : admission'[b] = admission[b]
  BY <1>1, EnteringLess
<1>4. CASE ~(c = d /\ e = d)
  <2>1. Leaving(c)' \subseteq Leaving(c)
    BY <1>1, <1>4, LeavingLess DEF Revoke
  <2>. QED  BY <1>2, <1>3, <2>1, TurnLess DEF TurnInv
<1>5. CASE c = d /\ e = d
  <2>1. Leaving(c)' \subseteq Leaving(c) \cup {k}
    BY <1>1, <1>5 DEF Leaving, Revoke
  <2>2. change'[c].kind # "enroll" /\ stored'[c] = stored[c]
    BY <1>5
  <2>3. stored[c] # None => /\ stored[c].account \notin Entering(c) /\ Asking(c) = {}
                            /\ Leaving(c) \subseteq {stored[c].credential}
                            /\ stored[c].credential = k
    BY <1>5 DEF TurnInv, TurnAt
  <2>. QED  BY <1>2, <1>3, <2>1, <2>2, <2>3 DEF TurnAt
<1>. QED  BY <1>4, <1>5

\* A call that is read is the last the device has made of its kind, or stands for no
\* enrollment it waits for.
LEMMA EnrollReadsTurn ==
    ASSUME ~Overtaken, IInv, HoldInv, TurnInv, NEW k \in enrolls, EnrollReads(k)
    PROVE  TurnInv'
<1>0. PICK d \in Devices, a \in Accounts : d = creds[k].device /\ a = creds[k].account
  BY CredTypes DEF IInv, CredInv
<1>1. /\ k \in DOMAIN creds /\ DOMAIN change = Devices
      /\ UNCHANGED <<stored, parked, creds>> /\ enrolls' = enrolls \ {k} /\ Grown
      /\ k \in Nat
  BY SameGrown DEF IInv, CredInv, ChangeInv, EnrollReads, issued
<1>2. /\ \A j \in Asking(d) : j >= k
      /\ \A j \in Leaving(d) : j >= k
      /\ k \in Asking(d) /\ Asking(d) \subseteq Nat /\ Leaving(d) \subseteq Nat
  BY <1>0 DEF EnrollReads, InTurn, Asking, Leaving, IInv, CredInv, RevokeInv, Revokes
<1>3. stored[d] = None
  BY <1>1, <1>2 DEF TurnInv, TurnAt
<1>4. CASE EnrolledElsewhere(k) /\ UNCHANGED admission
  <2>1. EnrollingStays
    BY <1>4, SameEnrolling
  <2>2. CASE Refuses(k) /\ UNCHANGED revokes
    BY <1>1, <2>1, <2>2, RefusesHolds, NoChangeKinds, QuietTurn
  <2>3. CASE /\ parked[d] # None /\ revokes' = revokes \cup {Revoke(d, parked[d].credential)}
             /\ change' = [change EXCEPT ![d].kind = "deliver", ![d].no = parked[d].credential]
    <3>1. parked[d].credential \in DOMAIN creds /\ creds[parked[d].credential].device = d
      BY <1>1, <2>3 DEF IInv, AccountInv, Records, Names
    <3>2. \A c \in Devices : change'[c] = change[c] \/ change'[c].kind # "enroll"
      BY <1>1, <2>3 DEF IInv, ChangeInv
    <3>3. change'[d].kind # "enroll"
      BY <1>1, <2>3 DEF IInv, ChangeInv
    <3>. QED  BY <1>1, <1>3, <2>1, <2>3, <3>1, <3>2, <3>3, RevokesTurn
  <2>. QED  BY <1>0, <1>4, <2>2, <2>3 DEF EnrolledElsewhere
<1>5. CASE /\ UNCHANGED <<change, revokes>>
           /\ admission' = [admission EXCEPT ![a] =
                 [kind |-> "enroll", no |-> k, fresh |-> rows[d] = None]]
  <2>. SUFFICES ASSUME NEW e \in Devices PROVE TurnAt(e)'
    BY DEF TurnInv
  <2>1. Asking(e)' \subseteq Asking(e) /\ Leaving(e)' \subseteq Leaving(e)
    BY <1>1, <1>5, AskingLess, LeavingLess
  <2>2. admission'[a].no = k /\ \A b \in Accounts \ {a} : admission'[b] = admission[b]
    BY <1>1, <1>5 DEF IInv, AdmissionInv
  <2>3. CASE e # d
    <3>1. /\ Entering(e)' \subseteq Entering(e)
          /\ \A b \in Entering(e)' : admission'[b] = admission[b]
      BY <1>0, <1>1, <2>2, <2>3 DEF Entering, Enrolling
    <3>. QED  BY <1>1, <1>5, <2>1, <3>1, TurnLess DEF TurnInv
  <2>4. CASE e = d
    <3>1. stored'[e] = None /\ change'[e] = change[e]
      BY <1>1, <1>3, <1>5, <2>4
    <3>2. ASSUME change[d].kind = "enroll", NEW b \in Entering(d)',
                 admission'[b].no = change[d].no
          PROVE  Asking(d)' = {} /\ Leaving(d)' = {}
      <4>1. b = a
        <5>1. ASSUME b # a PROVE FALSE
          <6>1. b \in Entering(d) /\ admission[b].no = change[d].no
            BY <1>1, <2>2, <3>2, <5>1 DEF Entering, Enrolling
          <6>. QED  BY <1>1, <1>2, <3>2, <6>1 DEF TurnInv, TurnAt
        <5>. QED  BY <5>1
      <4>2. change[d].no = k
        BY <2>2, <3>2, <4>1
      <4>3. \A j \in Asking(d) : j = k
        BY <1>1, <1>2, <3>2, <4>2 DEF TurnInv, TurnAt
      <4>4. Asking(d)' = {}
        BY <1>1, <2>1, <2>4, <4>3 DEF Asking
      <4>5. Leaving(d) = {}
        BY <1>1, <1>2, <3>2, <4>2 DEF TurnInv, TurnAt
      <4>. QED  BY <2>1, <2>4, <4>4, <4>5
    <3>. QED  BY <2>1, <2>4, <3>1, <3>2 DEF TurnInv, TurnAt
  <2>. QED  BY <2>3, <2>4
<1>. QED  BY <1>0, <1>4, <1>5 DEF EnrollReads

LEMMA EnrollWritesTurn ==
    ASSUME IInv, TurnInv, NEW a \in Accounts, EnrollWrites(a) PROVE TurnInv'
<1> DEFINE k == admission[a].no
<1>1. PICK d \in Devices : d = creds[k].device
  BY CredTypes DEF EnrollWrites, IInv, AdmissionInv, Enrolling
<1>2. /\ k \in DOMAIN creds /\ creds[k].account = a /\ DOMAIN change = Devices
      /\ DOMAIN stored = Devices /\ UNCHANGED <<creds, enrolls, revokes>> /\ Frees(a)
      /\ Enrolling(a) /\ Grown
  BY SameGrown
  DEF EnrollWrites, IInv, AdmissionInv, Enrolling, ChangeInv, AccountInv, Records, calls
<1>3. CASE Refuses(k) /\ UNCHANGED stored
  BY <1>2, <1>3, RefusesHolds, NoChangeKinds, QuietTurn
<1>4. CASE UNCHANGED account
  BY <1>2, <1>4, QuietTurn DEF account
<1>5. CASE Stores(d, k) /\ change[d].kind = "enroll" /\ change[d].no = k
  <2>. SUFFICES ASSUME NEW e \in Devices PROVE TurnAt(e)'
    BY DEF TurnInv
  <2>1. Asking(e)' \subseteq Asking(e) /\ Leaving(e)' \subseteq Leaving(e)
    BY <1>2, AskingLess, LeavingLess
  <2>2. /\ Entering(e)' \subseteq Entering(e)
        /\ \A b \in Entering(e)' : admission'[b] = admission[b]
    BY <1>2, EnteringLess
  <2>3. CASE e # d
    BY <1>2, <1>5, <2>1, <2>2, <2>3, TurnLess DEF TurnInv, Stores
  <2>4. CASE e = d
    <3>1. Asking(d) = {} /\ Leaving(d) = {}
      BY <1>1, <1>2, <1>5 DEF TurnInv, TurnAt, Entering
    <3>2. stored'[d].account = a /\ change'[d].kind = "none"
      BY <1>2, <1>5, NoChangeKinds DEF Stores, Row
    <3>3. a \notin Entering(d)'
      BY <1>2, FreesOne DEF Entering
    <3>. QED  BY <2>1, <2>4, <3>1, <3>2, <3>3 DEF TurnAt
  <2>. QED  BY <2>3, <2>4
<1>. QED  BY <1>1, <1>3, <1>4, <1>5 DEF EnrollWrites

LEMMA TurnKeeps ==
    ASSUME ~Overtaken, IInv, HoldInv, TurnInv, [Next]_vars PROVE TurnInv'
<1>1. Grown /\ DOMAIN change = Devices
  BY StepGrows DEF IInv, ChangeInv
<1>2. ASSUME UNCHANGED <<account, admission>>, enrolls' \subseteq enrolls, revokes' \subseteq revokes
      PROVE  TurnInv'
  BY <1>1, <1>2, QuietTurn, SameEnrolling DEF account
<1>3. ASSUME NEW r \in revokes, RevokeAuths(r) \/ RevokeRemoves(r) \/ RevokeFails(r)
      PROVE  TurnInv'
  <2>1. r.target \in Devices /\ r \in Revokes
    BY DEF IInv, RevokeInv, Revokes
  <2>2. EnrollingStays
    BY <1>3, SameEnrolling DEF RevokeAuths, RevokeRemoves, RevokeFails, hub
  <2>3. SameRevokes
    BY <1>3, <2>1 DEF RevokeAuths, RevokeRemoves, RevokeFails, SameRevokes, Revokes
  <2>4. CASE \E answer : Answered(r, answer)
    BY <1>1, <2>1, <2>2, <2>3, <2>4, AnsweredTurn
  <2>5. CASE RevokeAuths(r) /\ UNCHANGED <<account, creds, enrolls>>
    <3>. SUFFICES ASSUME NEW d \in Devices PROVE TurnAt(d)'
      BY DEF TurnInv
    <3>1. Asking(d)' \subseteq Asking(d) /\ Leaving(d)' \subseteq Leaving(d)
      BY <1>1, <2>3, <2>5, AskingLess, LeavingLess DEF SameRevokes
    <3>. QED  BY <1>1, <2>2, <2>5, <3>1, EnteringLess, TurnLess DEF TurnInv, account
  <2>. QED  BY <1>3, <2>4, <2>5 DEF RevokeAuths, RevokeRemoves, RevokeFails
<1>4. ASSUME NEW r \in revokes, RevokeTimesOut(r) PROVE TurnInv'
  <2>1. r \in Revokes /\ r.target \in Devices
    BY DEF IInv, RevokeInv, Revokes
  <2>2. SameRevokes
    BY <1>4, <2>1, UnheardFits DEF RevokeTimesOut, SameRevokes
  <2>3. EnrollingStays /\ Answered(r, "failed")
    BY <1>4, SameEnrolling DEF RevokeTimesOut, hub
  <2>. QED  BY <1>1, <2>1, <2>2, <2>3, AnsweredTurn
<1>5. ASSUME NEW d \in Devices, NEW a \in Accounts, SignsIn(d, a) PROVE TurnInv'
  <2>1. EnrollingStays /\ SameRevokes
    BY <1>5, SameEnrolling DEF SignsIn, hub, SameRevokes
  <2>. QED  BY <1>5, <2>1, AskedTurn DEF SignsIn
<1>6. ASSUME NEW d \in Devices, SignInTimesOut(d) PROVE TurnInv'
  BY <1>1, <1>6, QuietTurn, SameEnrolling, NoChangeKinds DEF SignInTimesOut, hub, issued, calls
<1>7. ASSUME NEW d \in Devices, AppRestarts(d) PROVE TurnInv'
  <2>1. /\ \A c \in Devices : change'[c] = change[c] \/ change'[c].kind # "enroll"
        /\ change'[d].kind # "enroll" /\ EnrollingStays
        /\ UNCHANGED <<creds, enrolls, stored>>
    BY <1>1, <1>7, NoChangeKinds, SameEnrolling DEF AppRestarts, hub, issued
  <2>2. ASSUME NEW r \in revokes'
        PROVE  \/ parked[d] # None /\ r = Revoke(d, parked[d].credential)
               \/ \E q \in revokes : q.target = r.target /\ q.by = r.by
    <3>1. \/ parked[d] # None /\ r = Revoke(d, parked[d].credential)
          \/ \E q \in revokes : r = q \/ r = Unheard(q)
      BY <1>7, <2>2 DEF AppRestarts
    <3>. QED  BY <3>1, UnheardFits DEF IInv, RevokeInv
  <2>3. CASE parked[d] = None
    <3>1. SameRevokes
      BY <2>2, <2>3 DEF SameRevokes
    <3>. SUFFICES ASSUME NEW c \in Devices PROVE TurnAt(c)'
      BY DEF TurnInv
    <3>2. Asking(c)' \subseteq Asking(c) /\ Leaving(c)' \subseteq Leaving(c)
      BY <1>1, <2>1, <3>1, AskingLess, LeavingLess DEF SameRevokes
    <3>. QED  BY <1>1, <2>1, <3>2, EnteringLess, TurnLess DEF TurnInv
  <2>4. CASE parked[d] # None
    <3>1. /\ parked[d].credential \in DOMAIN creds /\ creds[parked[d].credential].device = d
          /\ stored[d] = None
      BY <2>4 DEF IInv, AccountInv, Records, Names, HoldInv
    <3>2. \A r \in revokes' : \/ r = Revoke(d, parked[d].credential)
                             \/ \E q \in revokes : q.target = r.target /\ q.by = r.by
      BY <2>2
    <3>. QED  BY <2>1, <3>1, <3>2, RevokesTurn
  <2>. QED  BY <2>3, <2>4
<1>8. ASSUME NEW d \in Devices, SignOut(d) PROVE TurnInv'
  <2>1. /\ \A c \in Devices : change'[c] = change[c] \/ change'[c].kind # "enroll"
        /\ change'[d].kind # "enroll" /\ EnrollingStays
        /\ UNCHANGED <<creds, enrolls, stored>>
        /\ revokes' = revokes \cup {Revoke(d, stored[d].credential)}
    BY <1>1, <1>8, SameEnrolling DEF SignOut, hub, issued
  <2>2. stored[d].credential \in DOMAIN creds /\ creds[stored[d].credential].device = d
    BY <1>8, CredInDomain DEF SignOut
  <2>. QED  BY <2>1, <2>2, RevokesTurn
<1>9. ASSUME NEW d \in Devices, NEW e \in Devices, Removes(d, e) PROVE TurnInv'
  <2>1. /\ UNCHANGED <<creds, enrolls, stored, change>> /\ EnrollingStays /\ d # e
        /\ revokes' = revokes \cup {Revoke(e, stored[d].credential)}
    BY <1>9, SameEnrolling DEF Removes, hub, issued, account
  <2>2. stored[d].credential \in DOMAIN creds /\ creds[stored[d].credential].device = d
    BY <1>9, CredInDomain DEF Removes
  <2>. QED  BY <2>1, <2>2, RevokesTurn
<1>10. ASSUME NEW a \in Accounts, EnrollEvicts(a) \/ EnrollFails(a) PROVE TurnInv'
  <2>1. /\ admission[a].no \in DOMAIN creds /\ UNCHANGED <<stored, enrolls, revokes>>
    BY <1>10 DEF EnrollEvicts, EnrollFails, calls, IInv, AdmissionInv, Enrolling
  <2>2. CASE UNCHANGED <<change, admission>>
    BY <1>1, <2>1, <2>2, QuietTurn, SameEnrolling
  <2>3. CASE Refuses(admission[a].no) /\ Frees(a)
    BY <1>1, <2>1, <2>3, RefusesHolds, NoChangeKinds, QuietTurn
  <2>. QED  BY <1>10, <2>2, <2>3 DEF EnrollEvicts, EnrollFails
<1>11. ASSUME NEW a \in Accounts, ConnectAdmits(a) \/ ConnectFails(a) PROVE TurnInv'
  BY <1>1, <1>11, QuietTurn DEF ConnectAdmits, ConnectFails, issued, calls, account
<1>12. ASSUME NEW n, ConnectTakes(n) PROVE TurnInv'
  BY <1>1, <1>12, TakesEnrolling, QuietTurn DEF ConnectTakes, account
<1>13. ASSUME NEW d \in Devices, LinkSteps(d) PROVE TurnInv'
  BY <1>2, <1>8, <1>13 DEF LinkSteps, Dial, Accepted, GivesUp, SignsItselfOut, hub, calls
<1>14. CASE \/ Hears \/ (\E n \in sockets : Departs(n)) \/ (\E n \in tickets : TicketExpires(n))
            \/ (\E m \in closes : CloseLost(m)) \/ UNCHANGED vars
  BY <1>2, <1>14 DEF Hears, CloseHeard, Departs, TicketExpires, CloseLost, vars, hub, calls
<1>. QED
  BY <1>3, <1>4, <1>5, <1>6, <1>7, <1>8, <1>9, <1>10, <1>11, <1>12, <1>13, <1>14,
     EnrollReadsTurn, EnrollWritesTurn DEF Next, HubSteps, SignsOut

LEMMA RowsChange ==
    ASSUME [Next]_vars
    PROVE  \/ UNCHANGED rows
           \/ \E a \in Accounts : EnrollEvicts(a) \/ EnrollWrites(a)
           \/ \E r \in revokes : RevokeRemoves(r)
<1>1. CASE HubSteps
  BY <1>1 DEF HubSteps, EnrollReads, ConnectAdmits, RevokeAuths, ConnectTakes, Departs, hub
<1>2. ASSUME NEW d \in Devices,
             \/ LinkSteps(d) \/ (\E a \in Accounts : SignsIn(d, a))
             \/ SignInTimesOut(d) \/ SignsOut(d) \/ AppRestarts(d)
             \/ \E e \in Devices : Removes(d, e)
      PROVE  UNCHANGED rows
  BY <1>2 DEF LinkSteps, Dial, Accepted, GivesUp, SignsItselfOut, SignsIn, SignInTimesOut,
     SignsOut, SignOut, AppRestarts, Removes, hub
<1>3. CASE \/ Hears \/ (\E a \in Accounts : EnrollFails(a) \/ ConnectFails(a))
           \/ (\E r \in revokes : RevokeFails(r) \/ RevokeTimesOut(r))
           \/ (\E n \in tickets : TicketExpires(n))
           \/ (\E m \in closes : CloseLost(m)) \/ UNCHANGED vars
  BY <1>3 DEF Hears, CloseHeard, EnrollFails, ConnectFails, RevokeFails, RevokeTimesOut, TicketExpires,
     CloseLost, vars, hub
<1>. QED  BY <1>1, <1>2, <1>3 DEF Next

\* Who is taken out under the record it holds is evicted, or taken out by a call under
\* that record or by another device: an enrollment in the account it is in is over, and
\* so is what it asked before.
LEMMA LeavesWell ==
    ASSUME IInv, TurnInv, [Next]_vars, NEW d \in Devices,
           stored[d] # None, rows[d] = stored[d], rows'[d] # rows[d]
    PROVE  \/ \E r \in revokes :
                 r.target = d /\ (creds[r.by].device = d => r.by = rows[d].credential)
           \/ SocketsIn(rows[d].account, d) = {}
<1>1. DOMAIN rows = Devices
  BY DEF IInv, RowInv, Records
<1>2. ASSUME NEW a \in Accounts, EnrollEvicts(a) PROVE SocketsIn(rows[d].account, d) = {}
  BY <1>1, <1>2 DEF EnrollEvicts, Evictable, Rows, RemovesRow
<1>3. ASSUME NEW a \in Accounts, EnrollWrites(a) PROVE FALSE
  <2> DEFINE k == admission[a].no
  <2>1. k \in DOMAIN creds /\ creds[k].account = a /\ Enrolling(a)
    BY <1>3 DEF EnrollWrites, IInv, AdmissionInv, Enrolling
  <2>2. d = creds[k].device /\ (rows[d] = None \/ d \in Rows(a))
    BY <1>1, <1>3 DEF EnrollWrites
  <2>3. stored[d].account = a /\ a \in Entering(d)
    BY <2>1, <2>2 DEF Rows, Entering
  <2>. QED  BY <2>3 DEF TurnInv, TurnAt
<1>4. ASSUME NEW r \in revokes, RevokeRemoves(r)
      PROVE  r.target = d /\ (creds[r.by].device = d => r.by = rows[d].credential)
  <2>1. r.target = d
    BY <1>1, <1>4 DEF RevokeRemoves, RemovesRow
  <2>2. creds[r.by].device = d => r.by \in Leaving(d)
    BY <2>1 DEF Leaving
  <2>. QED  BY <2>1, <2>2 DEF TurnInv, TurnAt
<1>. QED  BY <1>2, <1>3, <1>4, RowsChange

LEMMA RecordsStart == Init => HoldInv /\ StrandInv /\ TurnInv
<1> SUFFICES ASSUME Init PROVE HoldInv /\ StrandInv /\ TurnInv
  OBVIOUS
<1>1. Pending = {} /\ \A d \in Devices : Asking(d) = {} /\ Leaving(d) = {} /\ Entering(d) = {}
  BY DEF Init, Pending, Enrolling, Asking, Leaving, Entering
<1>. QED  BY <1>1, NoChangeKinds DEF Init, HoldInv, StrandInv, TurnInv, TurnAt

RecordInv == IInv /\ FreshInv /\ OnceInv /\ CapInv /\ HoldInv /\ StrandInv

LEMMA RecordKeeps == RecordInv /\ [Next]_vars => RecordInv'
<1> SUFFICES ASSUME RecordInv, [Next]_vars PROVE RecordInv'
  OBVIOUS
<1>1. IInv /\ IInv' /\ Grown /\ RegistryMove /\ UNCHANGED cap
  BY NextKeeps, StepGrows, MovesRegistry DEF RecordInv
<1>2. FreshInv' /\ OnceInv' /\ CapInv' /\ HoldInv'
  BY <1>1, FreshKeeps, OnceKeeps, CapKeeps, HoldKeeps DEF RecordInv
<1>3. StrandInv'
  BY <1>1, <1>2, StrandKeeps DEF RecordInv
<1>. QED  BY <1>1, <1>2, <1>3 DEF RecordInv

LEMMA RecordStarts == Init => RecordInv
BY InitHolds, RegistryStarts, RecordsStart DEF RecordInv

\* The hub lists no device whose credential nobody holds, whatever is lost, runs late or
\* dies and in whatever order the calls are handled: what a device gives up on, or what
\* fails it, leaves the row its record or what it parked.
THEOREM NobodyStranded == Spec => []NoneStranded
<1>1. RecordInv => NoneStranded
  BY DEF RecordInv, StrandInv, NoneStranded
<1>. QED  BY <1>1, RecordStarts, RecordKeeps, PTL DEF Spec

\* A device that is signed in is taken out by what it asked under that enrollment, by
\* another device or while it holds no socket, as long as the hub handles its calls in
\* the order it made them.
THEOREM LeavesOnlyAsked == ASSUME ~Overtaken PROVE Spec => LeavesWhenAsked
<1> DEFINE J == RecordInv /\ TurnInv
<1>1. Init => J
  BY RecordStarts, RecordsStart
<1>2. J /\ [Next]_vars => J'
  BY RecordKeeps, TurnKeeps DEF RecordInv
<1>3. J /\ [Next]_vars =>
          [\A d \in Devices :
              stored[d] # None /\ rows[d] = stored[d] /\ rows'[d] # rows[d] =>
                  \/ \E r \in revokes :
                        r.target = d /\ (creds[r.by].device = d => r.by = rows[d].credential)
                  \/ SocketsIn(rows[d].account, d) = {}]_vars
  BY LeavesWell DEF RecordInv
<1>. QED  BY <1>1, <1>2, <1>3, PTL DEF Spec, LeavesWhenAsked

--------------------------------------------------------------------------------
(* Dials: a ticket, its upgrade, its admission and its socket come one after   *)
(* the other.                                                                  *)

Connecting(a) == admission[a] # None /\ admission[a].kind = "connect"
\* A dial is made once under a credential that has its row.
MintInv ==
    \A n \in Dials : dials[n].credential = 0 \/ (WellMade(n) /\ dials[n].credential \notin Pending)
SocketInv ==
    /\ opens \in Seq(Dials)
    /\ \A i, j \in 1..Len(opens) : opens[i] = opens[j] => i = j
    /\ \A n \in sockets : n \notin tickets /\ n \notin Range(opens)
    /\ \A a \in Accounts : Connecting(a) =>
           /\ admission[a].no \notin tickets \cup sockets \cup Range(opens)
           /\ dials[admission[a].no].account = a
    /\ \A n, m \in sockets :
          dials[n].device = dials[m].device /\ dials[n].account = dials[m].account => n = m

DialsStay ==
    \A n \in Dials : /\ dials'[n].device = dials[n].device
                     /\ dials'[n].account = dials[n].account
                     /\ dials'[n].credential = dials[n].credential
ConnectingLess ==
    \A a \in Accounts : Connecting(a)' => Connecting(a) /\ admission'[a] = admission[a]
\* What a step may do to the dials of the hub.
SocketLess ==
    /\ DialsStay /\ ConnectingLess /\ UNCHANGED opens
    /\ tickets' \subseteq tickets /\ sockets' \subseteq sockets

LEMMA DialsStand == ASSUME IInv, NEW a, NEW d, Stands(a, d) PROVE DialsStay
<1>1. dials' = [n \in Dials |-> [dials[n] EXCEPT !.stands = @ \/ n \in SocketsIn(a, d)]]
  BY DEF Stands
<1>2. ASSUME NEW n \in Dials
      PROVE  /\ dials'[n].device = dials[n].device /\ dials'[n].account = dials[n].account
             /\ dials'[n].credential = dials[n].credential
  <2>1. dials[n] \in [device : Nat, account : Accounts \cup {None}, credential : Nat,
                      stands : BOOLEAN]
    BY DEF IInv, DialInv
  <2>2. PICK b \in BOOLEAN : b = (dials[n].stands \/ n \in SocketsIn(a, d))
    OBVIOUS
  <2>3. dials'[n] = [dials[n] EXCEPT !.stands = b]
    BY <1>1, <2>2
  <2>. QED  BY <2>1, <2>3
<1>. QED  BY <1>2 DEF DialsStay

LEMMA SameConnecting == UNCHANGED admission => ConnectingLess
BY DEF ConnectingLess, Connecting

LEMMA FreesConnecting ==
    ASSUME IInv, NEW a \in Accounts, Frees(a)
    PROVE  ConnectingLess /\ ~Connecting(a)'
BY DEF IInv, AdmissionInv, Frees, ConnectingLess, Connecting

LEMMA MovesSockets ==
    ASSUME IInv, [Next]_vars
    PROVE  \/ SocketLess
           \/ \E d \in Devices : Dial(d)
           \/ \E n \in Range(opens) : ConnectTakes(n)
           \/ \E a \in Accounts : ConnectAdmits(a)
<1>1. ASSUME UNCHANGED <<dials, opens, tickets, sockets, admission>> PROVE SocketLess
  BY <1>1, SameConnecting DEF SocketLess, DialsStay
<1>2. ASSUME NEW k \in enrolls, EnrollReads(k) PROVE SocketLess
  <2>1. creds[k].account \in Accounts
    BY CredTypes DEF IInv, CredInv
  <2>2. ConnectingLess
    <3>1. CASE UNCHANGED admission
      BY <3>1, SameConnecting
    <3>2. CASE admission' = [admission EXCEPT ![creds[k].account] =
                 [kind |-> "enroll", no |-> k, fresh |-> rows[creds[k].device] = None]]
      BY <2>1, <3>2 DEF IInv, AdmissionInv, ConnectingLess, Connecting
    <3>. QED  BY <1>2, <3>1, <3>2 DEF EnrollReads
  <2>. QED  BY <1>2, <2>2 DEF EnrollReads, SocketLess, DialsStay, issued
<1>3. ASSUME NEW a \in Accounts, EnrollEvicts(a) \/ EnrollFails(a) \/ ConnectFails(a)
      PROVE  SocketLess
  BY <1>3, SameConnecting, FreesConnecting
  DEF EnrollEvicts, EnrollFails, ConnectFails, SocketLess, DialsStay, issued, calls
<1>4. ASSUME NEW a \in Accounts, EnrollWrites(a) PROVE SocketLess
  <2>1. DialsStay /\ sockets' \subseteq sockets
    BY <1>4, DialsStand DEF EnrollWrites, Closing, Stands, DialsStay
  <2>. QED  BY <1>4, <2>1, FreesConnecting DEF EnrollWrites, SocketLess, calls
<1>5. ASSUME NEW r \in revokes, RevokeRemoves(r) PROVE SocketLess
  <2>1. DialsStay /\ sockets' \subseteq sockets
    BY <1>5, DialsStand DEF RevokeRemoves, Closing, Stands, DialsStay
  <2>. QED  BY <1>5, <2>1, SameConnecting DEF RevokeRemoves, SocketLess
<1>6. ASSUME NEW r \in revokes, RevokeAuths(r) \/ RevokeFails(r) \/ RevokeTimesOut(r)
      PROVE  SocketLess
  BY <1>1, <1>6 DEF RevokeAuths, RevokeFails, RevokeTimesOut, hub
<1>7. ASSUME NEW d \in Devices, Accepted(d) \/ GivesUp(d) \/ SignsItselfOut(d) PROVE SocketLess
  BY <1>1, <1>7 DEF Accepted, GivesUp, SignsItselfOut, SignOut, hub, issued, calls
<1>8. ASSUME NEW d \in Devices,
             \/ (\E a \in Accounts : SignsIn(d, a))
             \/ SignInTimesOut(d) \/ SignsOut(d) \/ AppRestarts(d)
             \/ \E e \in Devices : Removes(d, e)
      PROVE  SocketLess
  BY <1>1, <1>8 DEF SignsIn, SignInTimesOut, SignsOut, SignOut, AppRestarts,
     Removes, hub, issued, calls
<1>9. CASE \/ Hears \/ (\E n \in sockets : Departs(n)) \/ (\E n \in tickets : TicketExpires(n))
           \/ (\E m \in closes : CloseLost(m)) \/ UNCHANGED vars
  BY <1>1, <1>9, SameConnecting DEF Hears, CloseHeard, Departs, TicketExpires, CloseLost, vars,
     hub, issued, calls, SocketLess, DialsStay
<1>. QED
  BY <1>2, <1>3, <1>4, <1>5, <1>6, <1>7, <1>8, <1>9 DEF Next, HubSteps, LinkSteps

LEMMA RemovesAt ==
    ASSUME NEW S, NEW s \in Seq(S), NEW i \in 1..Len(s), NEW t, t = RemoveAt(s, i)
    PROVE  /\ t \in Seq(S) /\ Len(t) = Len(s) - 1
           /\ \A p \in 1..Len(t) : t[p] = IF p < i THEN s[p] ELSE s[p + 1]
<1> DEFINE u == SubSeq(s, 1, i - 1)  v == SubSeq(s, i + 1, Len(s))
<1>1. /\ u \in Seq(S) /\ Len(u) = i - 1 /\ \A p \in 1..(i - 1) : u[p] = s[p]
  OBVIOUS
<1>2. /\ v \in Seq(S) /\ Len(v) = Len(s) - i /\ \A p \in 1..(Len(s) - i) : v[p] = s[p + i]
  OBVIOUS
<1>3. t = u \o v
  BY DEF RemoveAt
<1> HIDE DEF u, v
<1>4. t \in Seq(S) /\ Len(t) = Len(s) - 1
  BY <1>1, <1>2, <1>3
<1>5. ASSUME NEW p \in 1..Len(t) PROVE t[p] = IF p < i THEN s[p] ELSE s[p + 1]
  <2>1. CASE p < i
    BY <1>1, <1>2, <1>3, <1>4, <2>1
  <2>2. CASE ~(p < i)
    <3>1. t[p] = v[p - (i - 1)]
      BY <1>1, <1>2, <1>3, <1>4, <2>2
    <3>2. p - (i - 1) \in 1..(Len(s) - i) /\ (p - (i - 1)) + i = p + 1
      BY <1>4, <2>2
    <3>. QED  BY <1>2, <2>2, <3>1, <3>2
  <2>. QED  BY <2>1, <2>2
<1>. QED  BY <1>4, <1>5

LinkInv ==
    link \in [Devices -> [phase : {"stopped", "backoff", "opening", "connected", "revoked",
                                   "superseded"},
                          dial : Nat]]

\* The dial a device's stored enrollment gets.
DialMade(d, n) ==
    /\ dials'[n].device = d /\ dials'[n].account = stored[d].account
    /\ dials'[n].credential = stored[d].credential
    /\ \A m \in Dials \ {n} : dials'[m] = dials[m]
    /\ Current(stored[d].credential)
    /\ tickets' = tickets \cup {n} /\ opens' = Append(opens, n)
    /\ link' = [link EXCEPT ![d] = [phase |-> "opening", dial |-> n]]

LEMMA DialMakes ==
    ASSUME IInv, LinkInv, NEW d \in Devices, Dial(d)
    PROVE  \/ /\ UNCHANGED <<dials, tickets, opens>>
              /\ link'[d].phase \in {"revoked", "backoff"}
              /\ \A e \in Devices \ {d} : link'[e] = link[e]
           \/ \E n \in Free : DialMade(d, n)
<1>1. CASE /\ UNCHANGED <<dials, tickets, opens>>
           /\ link' = [link EXCEPT ![d].phase =
                 IF stored[d].credential \in revoked THEN "revoked" ELSE @]
  BY <1>1 DEF LinkInv, Dial
<1>2. ASSUME Current(stored[d].credential), NEW n \in Free,
             /\ dials' = [dials EXCEPT ![n] =
                   [device |-> d, account |-> stored[d].account,
                    credential |-> stored[d].credential, stands |-> FALSE]]
             /\ tickets' = tickets \cup {n} /\ opens' = Append(opens, n)
             /\ link' = [link EXCEPT ![d] = [phase |-> "opening", dial |-> n]]
      PROVE  DialMade(d, n)
  <2>1. DOMAIN dials = Dials /\ n \in Dials
    BY DEF IInv, DialInv, Free
  <2>2. dials'[n] = [device |-> d, account |-> stored[d].account,
                     credential |-> stored[d].credential, stands |-> FALSE]
        /\ \A m \in Dials \ {n} : dials'[m] = dials[m]
    BY <1>2, <2>1
  <2>. QED  BY <1>2, <2>2 DEF DialMade
<1>. QED  BY <1>1, <1>2 DEF Dial

LEMMA LinkTypes ==
    ASSUME IInv, LinkInv, [Next]_vars PROVE LinkInv'
<1>1. ASSUME UNCHANGED link PROVE LinkInv'
  BY <1>1 DEF LinkInv
<1>2. ASSUME NEW r, NEW answer, Answered(r, answer) PROVE LinkInv'
  BY <1>1, <1>2 DEF Answered, SignedOut, Delivered, Stopped, LinkInv
<1>3. ASSUME NEW a \in Accounts, EnrollWrites(a) PROVE LinkInv'
  BY <1>1, <1>3 DEF EnrollWrites, Stores, Backoff, LinkInv
<1>4. ASSUME NEW r \in revokes, RevokeAuths(r) \/ RevokeRemoves(r) \/ RevokeFails(r)
      PROVE  LinkInv'
  BY <1>1, <1>2, <1>4 DEF RevokeAuths, RevokeRemoves, RevokeFails
<1>5. ASSUME NEW r \in revokes, RevokeTimesOut(r) PROVE LinkInv'
  BY <1>2, <1>5 DEF RevokeTimesOut
<1>6. ASSUME NEW d \in Devices, AppRestarts(d) PROVE LinkInv'
  BY <1>6 DEF AppRestarts, Backoff, Stopped, LinkInv
<1>7. ASSUME NEW d \in Devices, Dial(d) PROVE LinkInv'
  <2>1. ASSUME NEW n \in Free, DialMade(d, n) PROVE LinkInv'
    BY <2>1, HubAssumption DEF DialMade, LinkInv, Free, Dials
  <2>2. CASE ~Current(stored[d].credential)
    BY <1>7, <2>2 DEF Dial, LinkInv
  <2>. QED  BY <1>7, <2>1, <2>2, DialMakes DEF Dial, DialMade
<1>8. ASSUME NEW d \in Devices, Accepted(d) \/ GivesUp(d) PROVE LinkInv'
  BY <1>8 DEF Accepted, GivesUp, Backoff, LinkInv
<1>9. ASSUME NEW m, CloseHeard(m) PROVE LinkInv'
  BY <1>9 DEF CloseHeard, Verdict, Backoff, LinkInv
<1>10. ASSUME NEW a \in Accounts,
              EnrollEvicts(a) \/ EnrollFails(a) \/ ConnectAdmits(a) \/ ConnectFails(a)
       PROVE  UNCHANGED link
  BY <1>10 DEF EnrollEvicts, EnrollFails, ConnectAdmits, ConnectFails
<1>11. ASSUME NEW d \in Devices,
              \/ SignsItselfOut(d) \/ (\E a \in Accounts : SignsIn(d, a))
              \/ SignInTimesOut(d) \/ SignsOut(d) \/ \E e \in Devices : Removes(d, e)
       PROVE  UNCHANGED link
  BY <1>11 DEF SignsItselfOut, SignsIn, SignInTimesOut, SignsOut, SignOut, Removes
<1>12. CASE \/ (\E k \in enrolls : EnrollReads(k)) \/ (\E n \in sockets : Departs(n))
            \/ (\E n \in Range(opens) : ConnectTakes(n)) \/ (\E n \in tickets : TicketExpires(n))
            \/ (\E m \in closes : CloseLost(m)) \/ UNCHANGED vars
  BY <1>1, <1>12 DEF EnrollReads, Departs, ConnectTakes, TicketExpires, CloseLost, vars
<1>. QED
  BY <1>1, <1>3, <1>4, <1>5, <1>6, <1>7, <1>8, <1>9, <1>10, <1>11, <1>12
  DEF Next, HubSteps, Hears, LinkSteps

LEMMA OpensTaken ==
    ASSUME SocketInv, NEW i \in 1..Len(opens), opens' = RemoveAt(opens, i)
    PROVE  /\ opens' \in Seq(Dials) /\ Len(opens') = Len(opens) - 1
           /\ \A p \in 1..Len(opens') : opens'[p] = IF p < i THEN opens[p] ELSE opens[p + 1]
           /\ \A p, q \in 1..Len(opens') : opens'[p] = opens'[q] => p = q
           /\ Range(opens') = Range(opens) \ {opens[i]}
<1>1. opens \in Seq(Dials) /\ \A p, q \in 1..Len(opens) : opens[p] = opens[q] => p = q
  BY DEF SocketInv
<1>2. /\ opens' \in Seq(Dials) /\ Len(opens') = Len(opens) - 1
      /\ \A p \in 1..Len(opens') : opens'[p] = IF p < i THEN opens[p] ELSE opens[p + 1]
  BY <1>1, RemovesAt
<1>3. /\ Len(opens) \in Nat /\ DOMAIN opens = 1..Len(opens) /\ DOMAIN opens' = 1..Len(opens')
  BY <1>1, <1>2
<1>4. ASSUME NEW p \in 1..Len(opens')
      PROVE  \E q \in 1..Len(opens) : opens'[p] = opens[q] /\ q # i /\ q = IF p < i THEN p ELSE p + 1
  BY <1>2, <1>3
<1>5. \A p, q \in 1..Len(opens') : opens'[p] = opens'[q] => p = q
  BY <1>1, <1>3, <1>4
<1>6. ASSUME NEW q \in 1..Len(opens), q # i PROVE \E p \in 1..Len(opens') : opens'[p] = opens[q]
  <2>1. CASE q < i
    BY <1>2, <1>3, <2>1
  <2>2. CASE q > i
    <3>1. q - 1 \in 1..Len(opens') /\ ~(q - 1 < i) /\ (q - 1) + 1 = q
      BY <1>2, <1>3, <2>2
    <3>. QED  BY <1>2, <3>1
  <2>. QED  BY <1>6, <2>1, <2>2
<1>7. Range(opens') = Range(opens) \ {opens[i]}
  <2>1. ASSUME NEW p \in 1..Len(opens')
        PROVE  opens'[p] \in Range(opens) /\ opens'[p] # opens[i]
    <3>1. PICK q \in 1..Len(opens) : opens'[p] = opens[q] /\ q # i
      BY <1>4
    <3>. QED  BY <1>1, <1>3, <3>1 DEF Range
  <2>2. ASSUME NEW q \in 1..Len(opens), opens[q] # opens[i] PROVE opens[q] \in Range(opens')
    <3>1. PICK p \in 1..Len(opens') : opens'[p] = opens[q]
      BY <1>6, <2>2
    <3>. QED  BY <1>3, <3>1 DEF Range
  <2>. QED  BY <1>3, <2>1, <2>2 DEF Range
<1>. QED  BY <1>2, <1>5, <1>7

LEMMA OpensMade ==
    ASSUME SocketInv, NEW n \in Dials, n \notin Range(opens), opens' = Append(opens, n)
    PROVE  /\ opens' \in Seq(Dials) /\ Len(opens') = Len(opens) + 1
           /\ \A p \in 1..Len(opens) : opens'[p] = opens[p]
           /\ opens'[Len(opens) + 1] = n
           /\ \A p, q \in 1..Len(opens') : opens'[p] = opens'[q] => p = q
           /\ Range(opens') = Range(opens) \cup {n}
<1>1. opens \in Seq(Dials) /\ \A p, q \in 1..Len(opens) : opens[p] = opens[q] => p = q
  BY DEF SocketInv
<1>2. /\ opens' \in Seq(Dials) /\ Len(opens') = Len(opens) + 1
      /\ \A p \in 1..Len(opens) : opens'[p] = opens[p]
      /\ opens'[Len(opens) + 1] = n
  BY <1>1
<1>3. /\ Len(opens) \in Nat /\ DOMAIN opens = 1..Len(opens) /\ DOMAIN opens' = 1..Len(opens')
  BY <1>1, <1>2
<1>4. \A p \in 1..Len(opens) : opens[p] # n
  BY <1>3 DEF Range
<1>5. \A p \in 1..Len(opens') : p = Len(opens) + 1 \/ p \in 1..Len(opens)
  BY <1>2, <1>3
<1>6. \A p, q \in 1..Len(opens') : opens'[p] = opens'[q] => p = q
  BY <1>1, <1>2, <1>4, <1>5
<1>7. Range(opens') = Range(opens) \cup {n}
  BY <1>2, <1>3, <1>5 DEF Range
<1>. QED  BY <1>2, <1>6, <1>7

LEMMA FreeIsNew ==
    ASSUME NEW n \in Free
    PROVE  /\ n \in Dials /\ n \notin tickets \cup sockets \cup Range(opens)
           /\ \A a \in Accounts : Connecting(a) => admission[a].no # n
           /\ \A d \in Devices : link[d].dial # n
           /\ \A m \in closes : m.dial # n
BY DEF Free, Answerable, Connecting

\* A dial is in one place at a time.
LEMMA SocketKeeps ==
    ASSUME IInv, LinkInv, SocketInv, [Next]_vars PROVE SocketInv'
<1>1. /\ sockets \subseteq Dials
      /\ \A a \in Accounts : Connecting(a) => admission[a].no \in Dials
  BY DEF IInv, DialInv, AdmissionInv, Connecting
<1>2. CASE SocketLess
  BY <1>1, <1>2 DEF SocketLess, DialsStay, ConnectingLess, SocketInv
<1>3. ASSUME NEW d \in Devices, Dial(d) PROVE SocketInv'
  <2>0. UNCHANGED <<sockets, admission>>
    BY <1>3 DEF Dial
  <2>1. CASE UNCHANGED <<dials, tickets, opens>>
    BY <2>0, <2>1 DEF SocketInv, Connecting
  <2>2. ASSUME NEW n \in Free, DialMade(d, n) PROVE SocketInv'
    <3>1. /\ n \in Dials /\ n \notin tickets \cup sockets \cup Range(opens)
          /\ \A a \in Accounts : Connecting(a) => admission[a].no # n
      BY FreeIsNew
    <3>2. /\ opens' \in Seq(Dials) /\ Range(opens') = Range(opens) \cup {n}
          /\ \A p, q \in 1..Len(opens') : opens'[p] = opens'[q] => p = q
      BY <2>2, <3>1, OpensMade DEF DialMade
    <3>3. tickets' = tickets \cup {n} /\ \A m \in Dials \ {n} : dials'[m] = dials[m]
      BY <2>2 DEF DialMade
    <3>4. \A m \in sockets' : m \notin tickets' /\ m \notin Range(opens')
      BY <2>0, <3>1, <3>2, <3>3 DEF SocketInv
    <3>5. \A a \in Accounts : Connecting(a)' =>
             /\ admission'[a].no \notin tickets' \cup sockets' \cup Range(opens')
             /\ dials'[admission'[a].no].account = a
      BY <1>1, <2>0, <3>1, <3>2, <3>3 DEF SocketInv, Connecting
    <3>6. \A p, q \in sockets' :
             dials'[p].device = dials'[q].device /\ dials'[p].account = dials'[q].account => p = q
      BY <1>1, <2>0, <3>1, <3>3 DEF SocketInv
    <3>. QED  BY <3>2, <3>4, <3>5, <3>6 DEF SocketInv
  <2>. QED  BY <1>3, <2>1, <2>2, DialMakes
<1>4. ASSUME NEW n, ConnectTakes(n) PROVE SocketInv'
  <2>1. PICK i \in 1..Len(opens) : opens[i] = n /\ opens' = RemoveAt(opens, i)
    BY <1>4 DEF ConnectTakes
  <2>2. /\ opens' \in Seq(Dials) /\ Range(opens') = Range(opens) \ {n}
        /\ \A p, q \in 1..Len(opens') : opens'[p] = opens'[q] => p = q
    BY <2>1, OpensTaken
  <2>3. /\ UNCHANGED <<sockets, dials>> /\ tickets' = tickets \ {n}
        /\ \/ UNCHANGED admission
           \/ n \in tickets /\ admission' = [admission EXCEPT ![dials[n].account] =
                                                [kind |-> "connect", no |-> n]]
    BY <1>4 DEF ConnectTakes, issued
  <2>4. n \in Range(opens)
    BY <2>1 DEF Range, SocketInv
  <2>5. \A m \in sockets' : m \notin tickets' /\ m \notin Range(opens')
    BY <2>2, <2>3 DEF SocketInv
  <2>6. ASSUME NEW a \in Accounts, Connecting(a)'
        PROVE  /\ admission'[a].no \notin tickets' \cup sockets' \cup Range(opens')
               /\ dials'[admission'[a].no].account = a
    <3>1. CASE admission'[a] = admission[a]
      BY <2>2, <2>3, <2>6, <3>1 DEF SocketInv, Connecting
    <3>2. CASE dials[n].account = a /\ admission'[a].no = n
      BY <2>2, <2>3, <2>4, <3>2 DEF SocketInv
    <3>3. DOMAIN admission = Accounts
      BY DEF IInv, AdmissionInv
    <3>. QED  BY <2>3, <3>1, <3>2, <3>3
  <2>. QED  BY <2>2, <2>3, <2>5, <2>6 DEF SocketInv
<1>5. ASSUME NEW a \in Accounts, ConnectAdmits(a) PROVE SocketInv'
  <2> DEFINE n == admission[a].no
  <2>1. Connecting(a) /\ UNCHANGED <<tickets, opens, dials>>
    BY <1>5 DEF ConnectAdmits, Connecting, issued, calls
  <2>2. n \in Dials /\ n \notin tickets \cup sockets \cup Range(opens) /\ dials[n].account = a
    BY <1>1, <2>1 DEF SocketInv
  <2>3. ConnectingLess /\ ~Connecting(a)'
    BY <1>5, FreesConnecting DEF ConnectAdmits
  <2>4. \/ UNCHANGED sockets
        \/ sockets' = (sockets \ SocketsIn(a, dials[n].device)) \cup {n}
    BY <1>5 DEF ConnectAdmits
  <2>5. \A m \in sockets' : m \notin tickets' /\ m \notin Range(opens')
    BY <2>1, <2>2, <2>4 DEF SocketInv
  <2>6. ASSUME NEW b \in Accounts, Connecting(b)'
        PROVE  /\ admission'[b].no \notin tickets' \cup sockets' \cup Range(opens')
               /\ dials'[admission'[b].no].account = b
    <3>1. Connecting(b) /\ admission'[b] = admission[b] /\ b # a
      BY <2>3, <2>6 DEF ConnectingLess
    <3>2. /\ admission[b].no \notin tickets \cup sockets \cup Range(opens)
          /\ dials[admission[b].no].account = b
      BY <3>1 DEF SocketInv
    <3>. QED  BY <2>1, <2>2, <2>4, <3>1, <3>2
  <2>7. \A p, q \in sockets' :
           dials'[p].device = dials'[q].device /\ dials'[p].account = dials'[q].account => p = q
    BY <2>1, <2>2, <2>4 DEF SocketInv, SocketsIn
  <2>. QED  BY <2>1, <2>5, <2>6, <2>7 DEF SocketInv
<1>. QED  BY <1>2, <1>3, <1>4, <1>5, MovesSockets

\* A dial's credential is no more on its way, and never comes to be again.
LEMMA MintKeeps ==
    ASSUME IInv, OnceInv, LinkInv, MintInv, [Next]_vars PROVE MintInv'
<1>1. Grown /\ Pending' \cap DOMAIN creds \subseteq Pending
  BY StepGrows, MovesRegistry, PendingFades
<1>2. ASSUME NEW n \in Dials, dials'[n].device = dials[n].device,
             dials'[n].account = dials[n].account, dials'[n].credential = dials[n].credential
      PROVE  \/ dials'[n].credential = 0
             \/ WellMade(n)' /\ dials'[n].credential \notin Pending'
  <2>1. CASE dials[n].credential = 0
    BY <1>2, <2>1
  <2>2. CASE WellMade(n) /\ dials[n].credential \notin Pending
    <3>1. WellMade(n)'
      BY <1>1, <1>2, <2>2, WellMadeStays
    <3>2. dials[n].credential \in DOMAIN creds
      BY <2>2 DEF WellMade
    <3>. QED  BY <1>1, <1>2, <2>2, <3>1, <3>2
  <2>. QED  BY <2>1, <2>2 DEF MintInv
<1>3. CASE DialsStay
  BY <1>2, <1>3 DEF MintInv, DialsStay
<1>4. ASSUME NEW d \in Devices, NEW n \in Free, Dial(d), DialMade(d, n) PROVE MintInv'
  <2> DEFINE k == stored[d].credential
  <2>1. /\ k \in DOMAIN creds /\ creds[k].device = d
        /\ creds[k].account = stored[d].account
    BY <1>4, CredInDomain DEF Dial
  <2>2. /\ dials'[n].device = d /\ dials'[n].account = stored[d].account
        /\ dials'[n].credential = k /\ rows[d] = Row(k)
        /\ \A m \in Dials \ {n} : dials'[m] = dials[m]
    BY <1>4, <2>1 DEF DialMade, Current
  <2>3. rows[d] # None /\ rows[d].credential = k
    BY <2>1, <2>2, RowIsNone DEF Row
  <2>4. k \notin Pending'
    BY <1>1, <2>1, <2>3 DEF OnceInv
  <2>5. WellMade(n)'
    BY <1>1, <2>1, <2>2 DEF WellMade, Grown
  <2>. QED  BY <1>2, <2>2, <2>4, <2>5 DEF MintInv
<1>5. ASSUME UNCHANGED dials PROVE MintInv'
  BY <1>3, <1>5 DEF DialsStay
<1>6. ASSUME NEW d \in Devices, Dial(d) PROVE MintInv'
  BY <1>4, <1>5, <1>6, DialMakes
<1>. QED
  BY <1>3, <1>5, <1>6, MovesSockets DEF SocketLess, ConnectTakes, ConnectAdmits, issued

\* An enrollment that has its row, or had it, gets none anew.
LEMMA CurrentBefore ==
    ASSUME IInv, Grown, RegistryMove, NEW k \in DOMAIN creds, k \notin Pending, Current(k)'
    PROVE  Current(k)
<1>1. creds[k].device \in Devices /\ creds'[k] = creds[k] /\ DOMAIN rows = Devices
  BY CredTypes DEF Grown, IInv, RowInv, Records
<1>2. PICK d \in Devices : d = creds[k].device
  BY <1>1
<1>3. rows'[d] = [account |-> creds[k].account, credential |-> k] /\ Row(k) # None
  BY <1>1, <1>2, RowIsNone DEF Current, Row
<1>4. rows'[d] = Row(k)
  BY <1>3 DEF Row
<1>5. rows[d] = Row(k)
  <2>1. CASE UNCHANGED rows
    BY <1>4, <2>1
  <2>2. CASE Removal
    BY <1>1, <1>3, <1>4, <2>2 DEF Removal, RemovesRow
  <2>3. CASE Writing
    <3>1. PICK a \in Accounts :
            /\ Enrolling(a)
            /\ \/ UNCHANGED rows
               \/ rows' = [rows EXCEPT ![creds[admission[a].no].device] = Row(admission[a].no)]
      BY <2>3 DEF Writing
    <3>2. admission[a].no # k
      BY <3>1 DEF Pending
    <3>. QED  BY <1>1, <1>4, <3>1, <3>2 DEF Row
  <2>. QED  BY <2>1, <2>2, <2>3 DEF RegistryMove, Reading
<1>. QED  BY <1>2, <1>5 DEF Current

DialsInv == LinkInv /\ MintInv /\ SocketInv

LEMMA DialsStart == Init => DialsInv
<1> SUFFICES ASSUME Init PROVE DialsInv
  OBVIOUS
<1>1. MintInv
  BY DEF Init, MintInv
<1>2. LinkInv
  BY DEF Init, LinkInv, Backoff, Stopped
<1>3. opens \in Seq(Dials) /\ Range(opens) = {} /\ Len(opens) = 0
  BY DEF Init, Range
<1>4. SocketInv
  BY <1>3 DEF Init, SocketInv, Connecting
<1>. QED  BY <1>1, <1>2, <1>4 DEF DialsInv

LEMMA DialsKeep == RecordInv /\ DialsInv /\ [Next]_vars => DialsInv'
BY LinkTypes, MintKeeps, SocketKeeps DEF RecordInv, DialsInv

LEMMA DialsOK == RecordInv /\ DialsInv => TypeOK
<1> SUFFICES ASSUME RecordInv, DialsInv PROVE TypeOK
  OBVIOUS
<1>1. ASSUME NEW f, Records(f), NEW d \in Devices
      PROVE  f[d] \in {None} \cup {Row(k) : k \in DOMAIN creds}
  <2>1. CASE f[d] # None
    <3>1. f[d] = Row(f[d].credential) /\ f[d].credential \in DOMAIN creds
      BY <1>1, <2>1, NamesRow DEF Records, Names
    <3>. QED  BY <3>1
  <2>. QED  BY <2>1
<1>2. \A d \in Devices : {rows[d], stored[d], parked[d]}
          \subseteq {None} \cup {Row(k) : k \in DOMAIN creds}
  BY <1>1 DEF RecordInv, IInv, RowInv, AccountInv
<1>3. \A d \in Devices : rows[d] # None => rows[d].credential \notin revoked
  BY DEF RecordInv, OnceInv
<1>4. Range(opens) \subseteq Dials
  BY DEF DialsInv, SocketInv, Range
<1>5. tickets \cup sockets \cup Range(opens) \subseteq Dials
      /\ enrolls \subseteq DOMAIN creds
  BY <1>4 DEF RecordInv, IInv, DialInv, CredInv
<1>6. sockets \cap tickets = {} /\ sockets \cap Range(opens) = {}
  BY DEF DialsInv, SocketInv
<1>7. ASSUME NEW a \in Accounts, NEW d \in Devices PROVE Cardinality(SocketsIn(a, d)) <= 1
  <2>1. CASE SocketsIn(a, d) = {}
    BY <2>1, FS_EmptySet
  <2>2. ASSUME NEW n \in SocketsIn(a, d) PROVE Cardinality(SocketsIn(a, d)) <= 1
    <3>1. SocketsIn(a, d) = {n}
      BY <2>2 DEF SocketsIn, DialsInv, SocketInv
    <3>2. Cardinality({n}) = 1
      BY FS_Singleton
    <3>. QED  BY <3>1, <3>2
  <2>. QED  BY <2>1, <2>2
<1>8. \A a \in Accounts : Cardinality(Rows(a)) <= cap
  BY DEF RecordInv, CapInv
<1>. QED  BY <1>2, <1>3, <1>5, <1>6, <1>7, <1>8 DEF TypeOK

\* Every record and row names an enrollment, a device has one socket in an
\* account's object, a dial is in one place and an account holds no more devices than its cap, whatever the order.
THEOREM HubTypes == Spec => []TypeOK
<1>1. Init => RecordInv /\ DialsInv
  BY RecordStarts, DialsStart
<1>2. (RecordInv /\ DialsInv) /\ [Next]_vars => (RecordInv /\ DialsInv)'
  BY RecordKeeps, DialsKeep
<1>. QED  BY <1>1, <1>2, DialsOK, PTL DEF Spec

--------------------------------------------------------------------------------
(* The last dial: what a device gave up on comes before what it holds.         *)

\* A dial whose credential has its row no more.
Stale(n) == WellMade(n) /\ ~Current(dials[n].credential)
Alike(m, n) == dials[m].credential = dials[n].credential \/ Stale(m)
Admitting == {admission[a].no : a \in {b \in Accounts : Connecting(b)}}
\* The dial a link holds is the last of its device's that the hub comes to: no other is
\* behind it, and one before it is of its credential or no good.
LastAt(d, n) ==
    /\ dials[n].device = d /\ WellMade(n)
    /\ \A m \in Range(opens) : dials[m].device = d => n \in Range(opens) /\ Alike(m, n)
    /\ \A i, j \in 1..Len(opens) : opens[i] = n /\ i < j => dials[opens[j]].device # d
    /\ \A m \in Admitting \ {n} : dials[m].device = d =>
           Stale(m) \/ (n \in Range(opens) /\ Alike(m, n))
    /\ \A m \in closes : m.dial = n => m.code # "superseded"
Linked(d) == link[d].phase \in {"opening", "connected"}
LastInv ==
    /\ \A n \in Range(opens) : WellMade(n)
    /\ \A d \in Devices : Linked(d) => link[d].dial \in Dials
    /\ \A d \in Devices, n \in Dials : Linked(d) /\ link[d].dial = n => LastAt(d, n)
    /\ \A d \in Devices : link[d].phase # "superseded"

SameDial(n) ==
    /\ dials'[n].device = dials[n].device /\ dials'[n].account = dials[n].account
    /\ dials'[n].credential = dials[n].credential
\* What a step that is no dial and no accept may do to the links and to the closes.
LinkLess ==
    \A d \in Devices :
        /\ Linked(d)' => Linked(d) /\ link'[d].dial = link[d].dial
        /\ link'[d].phase = "superseded" => link[d].phase = "superseded"
ClosesLess == \A m \in closes' : m \in closes \/ m.code # "superseded"

LEMMA StaleStays ==
    ASSUME IInv, MintInv, Grown, RegistryMove, NEW m \in Dials, SameDial(m), Stale(m)
    PROVE  Stale(m)'
<1>1. PICK k : k = dials[m].credential
  OBVIOUS
<1>2. WellMade(m)' /\ k \in DOMAIN creds /\ ~Current(k)
  BY <1>1, WellMadeStays DEF Stale, SameDial, WellMade
<1>3. k # 0
  BY <1>2, CredLength
<1>4. k \notin Pending
  BY <1>1, <1>3 DEF MintInv
<1>5. ~Current(k)'
  BY <1>2, <1>4, CurrentBefore
<1>6. dials'[m].credential = k
  BY <1>1 DEF SameDial
<1>. QED  BY <1>2, <1>5, <1>6 DEF Stale, Current, Row

LEMMA AlikeStays ==
    ASSUME IInv, MintInv, Grown, RegistryMove, NEW m \in Dials, SameDial(m),
           NEW n, SameDial(n), Alike(m, n)
    PROVE  Alike(m, n)'
<1>1. CASE Stale(m)
  BY <1>1, StaleStays DEF Alike
<1>2. CASE dials[m].credential = dials[n].credential
  BY <1>2 DEF Alike, SameDial
<1>. QED  BY <1>1, <1>2 DEF Alike

LEMMA OpensDials == SocketInv => Range(opens) \subseteq Dials
BY DEF SocketInv, Range

LEMMA AdmittingDials == IInv => Admitting \subseteq Dials
BY DEF IInv, AdmissionInv, Admitting, Connecting

\* A dial that stays in its place stays the last of its device's.
LEMMA LastStays ==
    ASSUME IInv, MintInv, SocketInv, Grown, RegistryMove,
           NEW d \in Devices, NEW n \in Dials, LastAt(d, n),
           \A m \in Range(opens) \cup Admitting \cup {n} : SameDial(m),
           \A m \in Range(opens') : m \in Range(opens) \/ dials'[m].device # d,
           n \in Range(opens) => n \in Range(opens'),
           \A i, j \in 1..Len(opens') : opens'[i] = n /\ i < j => dials'[opens'[j]].device # d,
           \A m \in Admitting' : m \in Range(opens) \cup Admitting \cup {n} \/ dials'[m].device # d,
           \A m \in closes' : m.dial = n => m \in closes \/ m.code # "superseded"
    PROVE  LastAt(d, n)'
<1>1. dials'[n].device = d /\ WellMade(n)'
  BY WellMadeStays DEF LastAt, SameDial
<1>2. \A m \in Range(opens) \cup Admitting : m \in Dials /\ SameDial(m) /\ SameDial(n)
  BY OpensDials, AdmittingDials
<1>3. ASSUME NEW m \in Range(opens'), dials'[m].device = d
      PROVE  n \in Range(opens') /\ Alike(m, n)'
  <2>1. m \in Range(opens) /\ dials[m].device = d
    BY <1>2, <1>3 DEF SameDial
  <2>. QED  BY <1>2, <2>1, AlikeStays DEF LastAt
<1>4. ASSUME NEW m \in Admitting' \ {n}, dials'[m].device = d
      PROVE  Stale(m)' \/ (n \in Range(opens') /\ Alike(m, n)')
  <2>1. m \in Range(opens) \cup Admitting /\ dials[m].device = d
    BY <1>2, <1>4 DEF SameDial
  <2>2. Stale(m) \/ (n \in Range(opens) /\ Alike(m, n))
    BY <1>4, <2>1 DEF LastAt
  <2>. QED  BY <1>2, <2>1, <2>2, AlikeStays, StaleStays
<1>5. \A m \in closes' : m.dial = n => m.code # "superseded"
  BY DEF LastAt
<1>. QED  BY <1>1, <1>3, <1>4, <1>5 DEF LastAt

LEMMA LinksLast ==
    ASSUME LastInv, LinkLess, \A n \in Range(opens') : WellMade(n)',
           \A d \in Devices, n \in Dials :
               Linked(d) /\ link[d].dial = n /\ LastAt(d, n) => LastAt(d, n)'
    PROVE  LastInv'
<1>1. ASSUME NEW d \in Devices, Linked(d)'
      PROVE  Linked(d) /\ link'[d].dial = link[d].dial /\ link[d].dial \in Dials
  BY <1>1 DEF LinkLess, LastInv
<1>2. ASSUME NEW d \in Devices, NEW n \in Dials, Linked(d)', link'[d].dial = n
      PROVE  LastAt(d, n)'
  <2>1. Linked(d) /\ link[d].dial = n
    BY <1>1, <1>2
  <2>. QED  BY <2>1 DEF LastInv
<1>3. \A d \in Devices : link'[d].phase # "superseded"
  BY DEF LinkLess, LastInv
<1>. QED  BY <1>1, <1>2, <1>3 DEF LastInv

LEMMA OpensWell ==
    ASSUME LastInv, SocketInv, Grown, DialsStay, Range(opens') \subseteq Range(opens)
    PROVE  \A n \in Range(opens') : WellMade(n)'
BY OpensDials, WellMadeStays DEF LastInv, DialsStay

LEMMA QuietLast ==
    ASSUME IInv, MintInv, SocketInv, LastInv, Grown, RegistryMove,
           SocketLess, LinkLess, ClosesLess
    PROVE  LastInv'
<1>1. \A m \in Range(opens) \cup Admitting \cup Dials : SameDial(m)
  BY OpensDials, AdmittingDials DEF SocketLess, DialsStay, SameDial
<1>2. Admitting' \subseteq Admitting
  BY DEF SocketLess, ConnectingLess, Admitting
<1>3. ASSUME NEW d \in Devices, NEW n \in Dials, LastAt(d, n) PROVE LastAt(d, n)'
  <2>1. \A i, j \in 1..Len(opens') : opens'[i] = n /\ i < j => dials'[opens'[j]].device # d
    <3>. SUFFICES ASSUME NEW i \in 1..Len(opens), NEW j \in 1..Len(opens), opens[i] = n, i < j
                  PROVE  dials'[opens[j]].device # d
      BY DEF SocketLess
    <3>1. opens[j] \in Dials /\ dials[opens[j]].device # d
      BY <1>3 DEF SocketInv, LastAt
    <3>. QED  BY <1>1, <3>1 DEF SameDial
  <2>. QED  BY <1>1, <1>2, <1>3, <2>1, LastStays DEF SocketLess, ClosesLess
<1>4. \A n \in Range(opens') : WellMade(n)'
  BY OpensWell DEF SocketLess
<1>. QED  BY <1>3, <1>4, LinksLast

LEMMA DialLast ==
    ASSUME IInv, MintInv, LinkInv, SocketInv, LastInv, Grown, RegistryMove,
           NEW e \in Devices, Dial(e)
    PROVE  LastInv'
<1>1. UNCHANGED <<rows, creds, sockets, admission, closes>> /\ Admitting' = Admitting
  BY DEF Dial, Admitting, Connecting
<1>2. CASE /\ UNCHANGED <<dials, tickets, opens>>
           /\ link'[e].phase \in {"revoked", "backoff"}
           /\ \A d \in Devices \ {e} : link'[d] = link[d]
  <2>1. SocketLess
    BY <1>1, <1>2, SameConnecting DEF SocketLess, DialsStay
  <2>2. LinkLess /\ ClosesLess
    BY <1>1, <1>2 DEF LinkLess, ClosesLess, Linked
  <2>. QED  BY <2>1, <2>2, QuietLast
<1>3. ASSUME NEW n \in Free, DialMade(e, n) PROVE LastInv'
  <2> DEFINE k == stored[e].credential
  <2>1. /\ n \in Dials /\ n \notin Range(opens) /\ n \notin Admitting
        /\ \A d \in Devices : link[d].dial # n
        /\ \A m \in closes : m.dial # n
    BY FreeIsNew DEF Admitting
  <2>2. /\ Range(opens') = Range(opens) \cup {n} /\ Len(opens') = Len(opens) + 1
        /\ \A p \in 1..Len(opens) : opens'[p] = opens[p]
        /\ opens'[Len(opens) + 1] = n
        /\ \A p, q \in 1..Len(opens') : opens'[p] = opens'[q] => p = q
    BY <1>3, <2>1, OpensMade DEF DialMade
  <2>3. /\ dials'[n].device = e /\ dials'[n].account = stored[e].account
        /\ dials'[n].credential = k /\ \A m \in Dials \ {n} : SameDial(m)
    BY <1>3 DEF DialMade, SameDial
  <2>4. \A m \in Range(opens) \cup Admitting : m \in Dials \ {n} /\ SameDial(m)
    BY <2>1, <2>3, OpensDials, AdmittingDials
  <2>5. /\ k \in DOMAIN creds /\ creds[k].device = e /\ creds[k].account = stored[e].account
    BY CredInDomain DEF Dial
  <2>6. WellMade(n)'
    BY <2>3, <2>5 DEF WellMade, Grown
  <2>7. \A m \in Range(opens') : WellMade(m)'
    BY <2>2, <2>4, <2>6, WellMadeStays DEF LastInv, SameDial
  <2>8. ASSUME NEW m \in Dials \ {n}, WellMade(m), dials[m].device = e
        PROVE  Alike(m, n)'
    <3>1. rows[e] = Row(k)
      BY <1>3, <2>5 DEF DialMade, Current
    <3>2. CASE dials[m].credential = k
      BY <2>3, <3>2 DEF SameDial, Alike
    <3>3. CASE dials[m].credential # k
      <4>1. Stale(m)
        BY <2>8, <3>1, <3>3 DEF Stale, Current, Row, WellMade
      <4>. QED  BY <2>3, <4>1, StaleStays DEF Alike
    <3>. QED  BY <3>2, <3>3
  <2>9. LastAt(e, n)'
    <3>1. \A m \in Range(opens') : dials'[m].device = e => n \in Range(opens') /\ Alike(m, n)'
      <4>1. Alike(n, n)'
        BY DEF Alike
      <4>. QED  BY <2>2, <2>4, <2>8, <4>1 DEF LastInv, SameDial
    <3>2. \A i, j \in 1..Len(opens') : opens'[i] = n /\ i < j => dials'[opens'[j]].device # e
      <4>1. Len(opens) + 1 \in 1..Len(opens') /\ Len(opens) \in Nat
        BY <2>2 DEF SocketInv
      <4>2. \A i \in 1..Len(opens') : opens'[i] = n => i = Len(opens')
        BY <2>2, <4>1
      <4>. QED  BY <4>1, <4>2, <2>2
    <3>3. \A m \in Admitting' \ {n} : dials'[m].device = e =>
              Stale(m)' \/ (n \in Range(opens') /\ Alike(m, n)')
      <4>1. \A m \in Admitting : WellMade(m)
        BY DEF IInv, AdmissionInv, Admitting, Connecting
      <4>. QED  BY <1>1, <2>2, <2>4, <2>8, <4>1 DEF SameDial
    <3>. QED  BY <1>1, <2>1, <2>3, <2>6, <3>1, <3>2, <3>3 DEF LastAt
  <2>10. DOMAIN link = Devices /\ link' = [link EXCEPT ![e] = [phase |-> "opening", dial |-> n]]
    BY <1>3 DEF DialMade, LinkInv
  <2>11. ASSUME NEW d \in Devices \ {e}, Linked(d)'
         PROVE  /\ link'[d].dial \in Dials
                /\ \A m \in Dials : link'[d].dial = m => LastAt(d, m)'
    <3>1. link'[d] = link[d] /\ Linked(d) /\ link[d].dial \in Dials
      BY <2>10, <2>11 DEF Linked, LastInv
    <3>2. ASSUME NEW m \in Dials, link[d].dial = m PROVE LastAt(d, m)'
      <4>1. LastAt(d, m) /\ m # n
        BY <2>1, <3>1, <3>2 DEF LastInv
      <4>2. \A i, j \in 1..Len(opens') : opens'[i] = m /\ i < j => dials'[opens'[j]].device # d
        <5>. SUFFICES ASSUME NEW i \in 1..Len(opens'), NEW j \in 1..Len(opens'),
                             opens'[i] = m, i < j
                      PROVE  dials'[opens'[j]].device # d
          OBVIOUS
        <5>0. Len(opens) \in Nat /\ opens \in Seq(Dials)
          BY DEF SocketInv
        <5>1. CASE j = Len(opens) + 1
          BY <2>2, <2>3, <5>1
        <5>2. CASE j \in 1..Len(opens)
          <6>1. i \in 1..Len(opens) /\ opens[i] = m /\ opens'[j] = opens[j]
            BY <2>2, <5>0, <5>2
          <6>2. dials[opens[j]].device # d /\ opens[j] \in Range(opens)
            BY <4>1, <5>0, <5>2, <6>1 DEF LastAt, Range
          <6>. QED  BY <2>4, <6>1, <6>2 DEF SameDial
        <5>. QED  BY <2>2, <5>0, <5>1, <5>2
      <4>. QED  BY <1>1, <2>2, <2>3, <2>4, <4>1, <4>2, LastStays
    <3>. QED  BY <3>1, <3>2
  <2>12. link'[e] = [phase |-> "opening", dial |-> n] /\ \A d \in Devices \ {e} : link'[d] = link[d]
    BY <2>10
  <2>13. \A d \in Devices : link'[d].phase # "superseded"
    BY <2>12 DEF LastInv
  <2>. QED  BY <2>1, <2>7, <2>9, <2>11, <2>12, <2>13 DEF LastInv
<1>. QED  BY <1>2, <1>3, DialMakes

\* A dial is taken after those its device made before.
LEMMA TakesLast ==
    ASSUME ~Overtaken, IInv, MintInv, SocketInv, LastInv, Grown, RegistryMove,
           NEW m, ConnectTakes(m), LinkLess, ClosesLess
    PROVE  LastInv'
<1>1. PICK i \in 1..Len(opens) :
        /\ opens[i] = m /\ opens' = RemoveAt(opens, i)
        /\ \A j \in 1..(i - 1) : dials[opens[j]].device # dials[m].device
  BY DEF ConnectTakes
<1>2. /\ Len(opens') = Len(opens) - 1 /\ Range(opens') = Range(opens) \ {m}
      /\ \A p \in 1..Len(opens') : opens'[p] = IF p < i THEN opens[p] ELSE opens[p + 1]
  BY <1>1, OpensTaken
<1>3. Len(opens) \in Nat /\ DOMAIN opens = 1..Len(opens) /\ m \in Range(opens) /\ m \in Dials
  BY <1>1, OpensDials DEF SocketInv, Range
<1>4. UNCHANGED dials /\ \A n : SameDial(n)
  BY DEF ConnectTakes, issued, SameDial
<1>5. /\ admission[dials[m].account] = None
      /\ \/ UNCHANGED admission
         \/ admission' = [admission EXCEPT ![dials[m].account] = [kind |-> "connect", no |-> m]]
  BY DEF ConnectTakes
<1>6. Admitting' \subseteq Admitting \cup {m}
  <2>1. CASE UNCHANGED admission
    BY <2>1 DEF Admitting, Connecting
  <2>2. CASE admission' = [admission EXCEPT ![dials[m].account] = [kind |-> "connect", no |-> m]]
    BY <2>2 DEF IInv, AdmissionInv, Admitting, Connecting
  <2>. QED  BY <1>5, <2>1, <2>2
<1>7. \A n \in Range(opens') : WellMade(n)'
  BY <1>2, <1>4, OpensWell DEF DialsStay
<1>8. ASSUME NEW d \in Devices, NEW n \in Dials, LastAt(d, n) PROVE LastAt(d, n)'
  <2>1. CASE m # n
    <3>1. ASSUME NEW p \in 1..Len(opens'), NEW q \in 1..Len(opens'), opens'[p] = n, p < q
          PROVE  dials'[opens'[q]].device # d
      <4>1. PICK a \in 1..Len(opens) : a = (IF p < i THEN p ELSE p + 1) /\ opens[a] = n
        BY <1>2, <1>3, <3>1
      <4>2. PICK b \in 1..Len(opens) : b = (IF q < i THEN q ELSE q + 1) /\ opens[b] = opens'[q]
        BY <1>2, <1>3
      <4>3. a < b
        BY <3>1, <4>1, <4>2
      <4>. QED  BY <1>4, <1>8, <4>1, <4>2, <4>3 DEF LastAt
    <3>. QED  BY <1>2, <1>3, <1>4, <1>6, <1>8, <2>1, <3>1, LastStays DEF ClosesLess
  <2>2. CASE m = n
    <3>1. dials[m].device = d /\ WellMade(m)
      BY <1>8, <2>2 DEF LastAt
    <3>2. ASSUME NEW q \in 1..Len(opens), dials[opens[q]].device = d PROVE q = i
      <4>1. ~(q \in 1..(i - 1))
        BY <1>1, <3>1, <3>2
      <4>2. ~(i < q)
        BY <1>1, <1>8, <2>2, <3>2 DEF LastAt
      <4>. QED  BY <1>3, <4>1, <4>2
    <3>3. \A x \in Range(opens') : dials'[x].device # d
      <4>. SUFFICES ASSUME NEW x \in Range(opens'), dials[x].device = d PROVE FALSE
        BY <1>4
      <4>1. x # m /\ x \in Range(opens)
        BY <1>2
      <4>2. PICK q \in 1..Len(opens) : opens[q] = x
        BY <1>3, <4>1 DEF Range
      <4>. QED  BY <1>1, <3>2, <4>1, <4>2
    <3>4. \A p, q \in 1..Len(opens') : opens'[p] = n /\ p < q => dials'[opens'[q]].device # d
      BY <1>2, <2>2, <3>3 DEF Range, SocketInv
    <3>5. ASSUME NEW x \in Admitting' \ {n}, dials'[x].device = d PROVE Stale(x)'
      <4>1. x \in Admitting /\ dials[x].device = d /\ x \in Dials
        BY <1>4, <1>6, <2>2, <3>5, AdmittingDials
      <4>2. Stale(x) \/ Alike(x, n)
        BY <1>8, <3>5, <4>1 DEF LastAt
      <4>3. PICK a \in Accounts : Connecting(a) /\ admission[a].no = x
        BY <4>1 DEF Admitting
      <4>4. dials[x].account = a /\ WellMade(x)
        BY <4>3 DEF SocketInv, IInv, AdmissionInv, Connecting
      <4>5. dials[x].credential # dials[n].credential
        <5>1. dials[x].credential = dials[n].credential => dials[n].account = a
          BY <2>2, <3>1, <4>4 DEF WellMade
        <5>. QED  BY <1>5, <2>2, <4>3, <5>1 DEF Connecting
      <4>. QED  BY <1>4, <4>1, <4>2, <4>5, StaleStays DEF Alike
    <3>6. \A c \in closes' : c.dial = n => c.code # "superseded"
      BY <1>8 DEF LastAt, ClosesLess
    <3>7. WellMade(n)'
      BY <1>4, <2>2, <3>1, WellMadeStays
    <3>. QED  BY <1>4, <2>2, <3>1, <3>3, <3>4, <3>5, <3>6, <3>7 DEF LastAt
  <2>. QED  BY <2>1, <2>2
<1>. QED  BY <1>7, <1>8, LinksLast

\* What an accept takes the place of is no dial a link holds.
LEMMA AdmitsLast ==
    ASSUME IInv, MintInv, SocketInv, LastInv, Grown, RegistryMove,
           NEW a \in Accounts, ConnectAdmits(a)
    PROVE  LastInv'
<1> DEFINE m == admission[a].no
<1>1. Connecting(a) /\ UNCHANGED <<tickets, opens, dials, link>> /\ \A n : SameDial(n)
  BY DEF ConnectAdmits, Connecting, issued, calls, SameDial
<1>2. m \in Admitting /\ m \notin sockets
  BY <1>1 DEF Admitting, SocketInv
<1>3. Admitting' \subseteq Admitting
  <2>1. ConnectingLess
    BY FreesConnecting DEF ConnectAdmits
  <2>. QED  BY <2>1 DEF ConnectingLess, Admitting
<1>4. LinkLess
  BY <1>1 DEF LinkLess, Linked
<1>5. \A n \in Range(opens') : WellMade(n)'
  BY <1>1, OpensWell DEF DialsStay
<1>6. ASSUME NEW d \in Devices, NEW n \in Dials, LastAt(d, n) PROVE LastAt(d, n)'
  <2>1. ASSUME NEW c \in closes', c.dial = n, c \notin closes, c.code = "superseded" PROVE FALSE
    <3>1. Current(dials[m].credential) /\ n \in SocketsIn(a, dials[m].device)
      BY <2>1 DEF ConnectAdmits, Rejects, Admissible
    <3>2. n \in sockets /\ dials[m].device = d /\ n # m
      BY <1>2, <1>6, <3>1 DEF SocketsIn, LastAt
    <3>3. n \notin Range(opens)
      BY <3>2 DEF SocketInv
    <3>4. Stale(m)
      BY <1>2, <1>6, <3>2, <3>3 DEF LastAt
    <3>. QED  BY <3>1, <3>4 DEF Stale
  <2>2. \A i, j \in 1..Len(opens') : opens'[i] = n /\ i < j => dials'[opens'[j]].device # d
    BY <1>1, <1>6 DEF LastAt
  <2>. QED  BY <1>1, <1>3, <1>6, <2>1, <2>2, LastStays
<1>. QED  BY <1>4, <1>5, <1>6, LinksLast

LEMMA LinksLess ==
    ASSUME IInv, LinkInv, LastInv, [Next]_vars
    PROVE  \/ LinkLess /\ ClosesLess
           \/ \E d \in Devices : Dial(d)
           \/ \E a \in Accounts : ConnectAdmits(a)
<1>0. DOMAIN link = Devices
  BY DEF LinkInv
<1>1. ASSUME UNCHANGED link PROVE LinkLess
  BY <1>1 DEF LinkLess, Linked
<1>2. ASSUME \A d \in Devices :
                 link'[d] = link[d] \/ link'[d].phase \in {"stopped", "backoff"}
      PROVE  LinkLess
  BY <1>2 DEF LinkLess, Linked
<1>3. ASSUME closes' \subseteq closes PROVE ClosesLess
  BY <1>3 DEF ClosesLess
<1>4. Backoff.phase = "backoff" /\ Stopped.phase = "stopped"
  BY DEF Backoff, Stopped
<1>5. ASSUME NEW r, NEW answer, Answered(r, answer) PROVE LinkLess
  BY <1>0, <1>1, <1>2, <1>4, <1>5 DEF Answered, SignedOut, Delivered
<1>6. ASSUME NEW those, NEW code, code # "superseded", Closing(those, code) PROVE ClosesLess
  BY <1>6 DEF Closing, ClosesLess
<1>7. ASSUME NEW a \in Accounts, EnrollWrites(a) PROVE LinkLess /\ ClosesLess
  <2>1. \/ UNCHANGED link
        \/ link' = [link EXCEPT ![creds[admission[a].no].device] = Backoff]
    BY <1>7 DEF EnrollWrites, Stores
  <2>2. \/ UNCHANGED closes
        \/ \E those : Closing(those, "rotated")
    BY <1>7 DEF EnrollWrites, Stands
  <2>3. LinkLess
    BY <1>0, <1>1, <1>2, <1>4, <2>1
  <2>4. ClosesLess
    BY <1>3, <1>6, <2>2
  <2>. QED  BY <2>3, <2>4
<1>8. ASSUME NEW r \in revokes, RevokeAuths(r) \/ RevokeRemoves(r) \/ RevokeFails(r)
      PROVE  LinkLess /\ ClosesLess
  BY <1>1, <1>3, <1>5, <1>6, <1>8 DEF RevokeAuths, RevokeRemoves, RevokeFails, Stands
<1>9. ASSUME NEW r \in revokes, RevokeTimesOut(r) PROVE LinkLess /\ ClosesLess
  BY <1>3, <1>5, <1>9 DEF RevokeTimesOut
<1>10. ASSUME NEW d \in Devices, AppRestarts(d) PROVE LinkLess /\ ClosesLess
  <2>1. link'[d] \in {Backoff, Stopped} /\ \A e \in Devices \ {d} : link'[e] = link[e]
    BY <1>0, <1>10 DEF AppRestarts
  <2>2. closes' \subseteq closes
    BY <1>10 DEF AppRestarts
  <2>. QED  BY <1>2, <1>3, <1>4, <2>1, <2>2
<1>11. ASSUME NEW d \in Devices, Accepted(d) PROVE LinkLess /\ ClosesLess
  <2>1. /\ link'[d].phase = "connected" /\ link'[d].dial = link[d].dial /\ Linked(d)
        /\ \A e \in Devices \ {d} : link'[e] = link[e]
    BY <1>11 DEF Accepted, Linked, LinkInv
  <2>. QED  BY <1>3, <1>11, <2>1 DEF LinkLess, Linked, Accepted
<1>12. ASSUME NEW d \in Devices, GivesUp(d) PROVE LinkLess /\ ClosesLess
  <2>1. link'[d] = Backoff /\ \A e \in Devices \ {d} : link'[e] = link[e]
    BY <1>0, <1>12 DEF GivesUp
  <2>2. closes' \subseteq closes
    BY <1>12 DEF GivesUp
  <2>. QED  BY <1>2, <1>3, <1>4, <2>1, <2>2
<1>13. ASSUME NEW m \in closes, CloseHeard(m) PROVE LinkLess /\ ClosesLess
  <2>1. ASSUME NEW d \in Devices, Holds(d, m.dial)
        PROVE  link'[d].phase \in {"backoff", "revoked"}
    <3>1. m.code # "superseded"
      BY <2>1 DEF Holds, LastInv, Linked, LastAt
    <3>. QED  BY <1>4, <1>13, <2>1, <3>1 DEF CloseHeard, Verdict
  <2>2. \A d \in Devices : ~Holds(d, m.dial) => link'[d] = link[d]
    BY <1>13 DEF CloseHeard
  <2>. QED  BY <1>3, <1>13, <2>1, <2>2 DEF LinkLess, Linked, CloseHeard
<1>14. ASSUME NEW a \in Accounts, EnrollEvicts(a) \/ EnrollFails(a) \/ ConnectFails(a)
       PROVE  LinkLess /\ ClosesLess
  BY <1>1, <1>14 DEF EnrollEvicts, EnrollFails, ConnectFails, Rejects, ClosesLess
<1>15. ASSUME NEW d \in Devices,
              \/ SignsItselfOut(d) \/ (\E a \in Accounts : SignsIn(d, a))
              \/ SignInTimesOut(d) \/ SignsOut(d) \/ \E e \in Devices : Removes(d, e)
       PROVE  LinkLess /\ ClosesLess
  BY <1>1, <1>3, <1>15 DEF SignsItselfOut, SignsIn, SignInTimesOut, SignsOut, SignOut, Removes
<1>16. ASSUME NEW n, ConnectTakes(n) PROVE LinkLess /\ ClosesLess
  BY <1>1, <1>16 DEF ConnectTakes, Rejects, ClosesLess
<1>17. CASE \/ (\E k \in enrolls : EnrollReads(k)) \/ (\E n \in sockets : Departs(n))
            \/ (\E n \in tickets : TicketExpires(n)) \/ (\E m \in closes : CloseLost(m))
            \/ UNCHANGED vars
  BY <1>1, <1>3, <1>17 DEF EnrollReads, Departs, TicketExpires, CloseLost, vars
<1>. QED
  BY <1>7, <1>8, <1>9, <1>10, <1>11, <1>12, <1>13, <1>14, <1>15, <1>16, <1>17
  DEF Next, HubSteps, Hears, LinkSteps

LEMMA LastKeeps ==
    ASSUME ~Overtaken, RecordInv, DialsInv, LastInv, [Next]_vars PROVE LastInv'
<1>1. IInv /\ MintInv /\ LinkInv /\ SocketInv /\ Grown /\ RegistryMove
  BY StepGrows, MovesRegistry DEF RecordInv, DialsInv
<1>2. CASE \E d \in Devices : Dial(d)
  BY <1>1, <1>2, DialLast
<1>3. CASE \E a \in Accounts : ConnectAdmits(a)
  BY <1>1, <1>3, AdmitsLast
<1>4. CASE LinkLess /\ ClosesLess
  BY <1>1, <1>2, <1>3, <1>4, MovesSockets, QuietLast, TakesLast
<1>. QED  BY <1>1, <1>2, <1>3, <1>4, LinksLess

\* A device that runs once is never taken for two, as long as the hub handles its calls
\* in the order it made them: what it gave up on comes before the dial it holds, and the
\* hub does not take a dial in the place of a later one.
THEOREM BlocksNotItself == ASSUME ~Overtaken PROVE Spec => []NeverBlocksItself
<1> DEFINE J == RecordInv /\ DialsInv /\ LastInv
<1>1. Init => LastInv
  <2>1. Init => Range(opens) = {}
    BY DEF Init, Range
  <2>. QED  BY <2>1 DEF Init, LastInv, Linked, Backoff, Stopped
<1>2. Init => J
  BY <1>1, RecordStarts, DialsStart
<1>3. J /\ [Next]_vars => J'
  BY RecordKeeps, DialsKeep, LastKeeps
<1>4. J => NeverBlocksItself
  BY DEF LastInv, NeverBlocksItself
<1>. QED  BY <1>2, <1>3, <1>4, PTL DEF Spec

================================================================================
