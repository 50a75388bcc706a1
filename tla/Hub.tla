----------------------------------- MODULE Hub -----------------------------------
(* The device hub and the devices of its accounts: the registry of enrolled    *)
(* devices (hub/src/Registry.ts), an account's object with its tickets and     *)
(* sockets (hubObject.ts, Tickets.ts), the Worker before them (worker.ts), and *)
(* on each device the account (app/shared/account/) and the hub connection     *)
(* under its supervisor (app/shared/hub/connection.ts, remote/supervisor.ts).  *)
(*                                                                             *)
(* What is abstracted. A credential is the number of the enrollment that made  *)
(* it, and a dial stands for its ticket and its socket. A device runs one      *)
(* instance. A write and the closes that follow its answer are one step, as    *)
(* are the last read of a connect and the accept; a mint is one. An eviction   *)
(* takes any offline device. Left out: a browser's tabs, the cap on tickets,   *)
(* the relay and the roster, renames, tombstones that grow old.                *)
EXTENDS Naturals, Sequences, FiniteSets, SequencesExt

CONSTANTS
    None,
    NDevices,
    Accounts,
    Home,           \* the account of the devices enrolled at the start
    Caps,           \* what an account's cap on devices (MAX_ACCOUNT_DEVICES) may be
    Overtaken,      \* a device's calls may be handled out of their order
    MaxDials,       \* the dials at once
    MaxAsks,        \* sign-ins, sign-outs and removals
    MaxTroubles     \* what fails, is lost, runs late or dies

ASSUME HubAssumption ==
    /\ Home \in Accounts /\ Overtaken \in BOOLEAN
    /\ {NDevices, MaxDials} \cup Caps \subseteq Nat \ {0}
    /\ {MaxAsks, MaxTroubles} \subseteq Nat
ASSUME NoneAssumption == None \notin [account : Accounts, credential : Nat]

VARIABLES
    rows,       \* the registry
    revoked,    \* the tombstones
    tickets, sockets,
    admission,  \* who holds an account's admission permit
    creds, dials,
    enrolls, revokes, opens,    \* the calls on their way
    stored, parked,             \* the device's account record
    change,     \* the account change under way
    link,       \* the hub connection
    closes,     \* the closes on their way to the devices
    cut,        \* the devices that know nothing of how an enrollment went
    cap,        \* the cap, the same throughout
    spent

hub == <<rows, revoked, tickets, sockets, admission>>
issued == <<creds, dials>>
calls == <<enrolls, revokes, opens>>
account == <<stored, parked, change>>
vars == <<hub, issued, calls, account, link, closes, cut, cap, spent>>

Devices == 1..NDevices
Dials == 1..MaxDials
Row(k) == [account |-> creds[k].account, credential |-> k]
Rows(a) == {d \in Devices : rows[d] # None /\ rows[d].account = a}
Current(k) == rows[creds[k].device] = Row(k)
\* A device's sockets in an account's object (getWebSockets).
SocketsIn(a, d) == {n \in sockets : dials[n].account = a /\ dials[n].device = d}
Spend(kind, bound) ==
    spent[kind] < bound /\ spent' = [spent EXCEPT ![kind] = @ + 1] /\ UNCHANGED cap
Trouble == Spend("troubles", MaxTroubles)
Smooth == UNCHANGED <<cap, spent>>

\* A device's sockets close, each told why (closeDevice).
Closing(those, code) ==
    /\ sockets' = sockets \ those
    /\ closes' = closes \cup {[dial |-> n, code |-> code] : n \in those}

NoChange == [kind |-> "none", account |-> None, no |-> 0]
Stopped == [phase |-> "stopped", dial |-> 0]
Backoff == [phase |-> "backoff", dial |-> 0]

--------------------------------------------------------------------------------
(* A device's account: sign-in, sign-out and the revoke a sign-out parked      *)
(* (enroll.ts).                                                                *)

Asked(d, a) == [kind |-> "enroll", account |-> a, no |-> Len(creds) + 1]
Enrolls(d, a) ==
    /\ creds' = Append(creds, [device |-> d, account |-> a])
    /\ enrolls' = enrolls \cup {Len(creds) + 1}
SignsIn(d, a) ==
    /\ stored[d] = None /\ change[d].kind = "none" /\ Spend("asks", MaxAsks)
    /\ Enrolls(d, a)
    /\ change' = [change EXCEPT ![d] = Asked(d, a)]
    /\ UNCHANGED <<hub, dials, revokes, opens, stored, parked, link, closes, cut>>
\* The enrollment is stored, what was parked goes, and the link dials.
Stores(d, k) ==
    /\ stored' = [stored EXCEPT ![d] = Row(k)]
    /\ parked' = [parked EXCEPT ![d] = None]
    /\ change' = [change EXCEPT ![d] = NoChange]
    /\ link' = [link EXCEPT ![d] = Backoff]
\* It is not waited for any longer, though the hub may still take it.
SignInTimesOut(d) ==
    /\ change[d].kind = "enroll" /\ Trouble
    /\ change' = [change EXCEPT ![d] = NoChange]
    /\ cut' = cut \cup {d}
    /\ UNCHANGED <<hub, issued, calls, stored, parked, link, closes>>

Revoke(d, k) == [target |-> d, by |-> k, authed |-> FALSE, heard |-> TRUE]
SignOut(d) ==
    /\ stored[d] # None /\ change[d].kind = "none"
    /\ change' = [change EXCEPT ![d] =
          [kind |-> "signOut", account |-> None, no |-> stored[d].credential]]
    /\ revokes' = revokes \cup {Revoke(d, stored[d].credential)}
    /\ UNCHANGED <<hub, issued, enrolls, opens, stored, parked, link, closes, cut>>
SignsOut(d) == SignOut(d) /\ Spend("asks", MaxAsks)
\* A device the hub says was removed signs itself out.
SignsItselfOut(d) == link[d].phase = "revoked" /\ SignOut(d) /\ Smooth
\* A person removes another device of the account.
Removes(d, e) ==
    /\ d # e /\ stored[d] # None /\ e \in Rows(stored[d].account) /\ Spend("asks", MaxAsks)
    /\ revokes' = revokes \cup {Revoke(e, stored[d].credential)}
    /\ UNCHANGED <<hub, issued, enrolls, opens, account, link, closes, cut>>

\* Slip: what a sign-out could not deliver is let go.
UndeliveredLetGo(answer) == FALSE
\* What a revoke's answer, or none in time, makes of the account: undelivered, it
\* is parked; a parked one's end lets the enrollment it stood behind be asked again.
Undelivered(answer) == answer = "failed"
SignedOut(d, answer) ==
    /\ stored' = [stored EXCEPT ![d] = None]
    /\ parked' = [parked EXCEPT ![d] = IF Undelivered(answer) THEN stored[d] ELSE @]
    /\ change' = [change EXCEPT ![d] = NoChange]
    /\ link' = [link EXCEPT ![d] = Stopped]
    /\ UNCHANGED <<creds, enrolls>>
Delivered(d, answer) ==
    /\ parked' = [parked EXCEPT ![d] = IF Undelivered(answer) THEN @ ELSE None]
    /\ IF change[d].kind = "deliver" /\ ~Undelivered(answer)
       THEN /\ Enrolls(d, change[d].account)
            /\ change' = [change EXCEPT ![d] = Asked(d, change[d].account)]
       ELSE /\ change' = [change EXCEPT ![d] = IF @.kind = "deliver" THEN NoChange ELSE @]
            /\ UNCHANGED <<creds, enrolls>>
    /\ UNCHANGED <<stored, link>>
Answered(r, answer) ==
    LET d == r.target
    IN IF r.heard /\ change[d].kind = "signOut" /\ change[d].no = r.by THEN SignedOut(d, answer)
       ELSE IF r.heard /\ parked[d] # None /\ parked[d].credential = r.by
       THEN Delivered(d, answer)
       ELSE UNCHANGED <<account, link, creds, enrolls>>
Unheard(r) == [r EXCEPT !.heard = FALSE]
RevokeTimesOut(r) ==
    /\ r \in revokes /\ r.heard /\ Trouble
    /\ revokes' = (revokes \ {r}) \cup {Unheard(r)}
    /\ Answered(r, "failed")
    /\ UNCHANGED <<hub, dials, opens, closes, cut>>

\* The app dies and is started again, hears no answer to what it asked, and
\* delivers what is parked.
AppRestarts(d) ==
    /\ Trouble
    /\ cut' = IF change[d].kind = "enroll" THEN cut \cup {d} ELSE cut
    /\ change' = [change EXCEPT ![d] = NoChange]
    /\ link' = [link EXCEPT ![d] = IF stored[d] # None THEN Backoff ELSE Stopped]
    /\ revokes' = {IF r.target = d THEN Unheard(r) ELSE r : r \in revokes}
          \cup (IF parked[d] = None THEN {} ELSE {Revoke(d, parked[d].credential)})
    /\ UNCHANGED <<hub, issued, enrolls, opens, stored, parked, closes>>

--------------------------------------------------------------------------------
(* The account's object: enrollment, one at a time with the admissions (admit, *)
(* enroll), and revocation (revoke).                                           *)

\* A device's calls are handled in the order it made them.
InTurn(d, k) ==
    Overtaken \/ /\ \A j \in enrolls : creds[j].device = d => j >= k
                 /\ \A r \in revokes : r.target = d /\ creds[r.by].device = d => r.by >= k

Refuses(k) ==
    LET d == creds[k].device
    IN change' = [change EXCEPT ![d] =
           IF @.kind = "enroll" /\ @.no = k THEN NoChange ELSE @]
\* Another account has the device: a parked revoke is delivered and it asks again.
EnrolledElsewhere(k) ==
    LET d == creds[k].device
        asks == change[d].kind = "enroll" /\ change[d].no = k
    IN IF asks /\ parked[d] # None
       THEN /\ change' = [change EXCEPT ![d].kind = "deliver",
                                           ![d].no = parked[d].credential]
            /\ revokes' = revokes \cup {Revoke(d, parked[d].credential)}
       ELSE Refuses(k) /\ UNCHANGED revokes
EnrollReads(k) ==
    LET d == creds[k].device  a == creds[k].account
    IN /\ k \in enrolls /\ admission[a] = None /\ InTurn(d, k)
       /\ enrolls' = enrolls \ {k}
       /\ IF d \in Rows(a) \/ rows[d] = None
          THEN /\ admission' = [admission EXCEPT ![a] =
                     [kind |-> "enroll", no |-> k, fresh |-> rows[d] = None]]
               /\ UNCHANGED <<change, revokes>>
          ELSE EnrolledElsewhere(k) /\ UNCHANGED admission
    /\ UNCHANGED <<rows, revoked, tickets, sockets, issued, opens, stored, parked,
                   link, closes, cut, cap, spent>>

\* The registry takes a device out (Registry.remove) and its sockets close, or the
\* answer is lost and they stand.
RemovesRow(d) ==
    /\ rows' = [rows EXCEPT ![d] = None]
    /\ revoked' = IF rows[d] = None THEN revoked ELSE revoked \cup {rows[d].credential}
Stands(a, d) ==
    /\ Trouble
    /\ dials' = [n \in Dials |-> [dials[n] EXCEPT !.stands = @ \/ n \in SocketsIn(a, d)]]
    /\ UNCHANGED <<sockets, closes>>

\* Slip: full one device late.
FullLate(a) == Cardinality(Rows(a)) > cap
\* Room is made by dropping an offline device, or the account is full.
Full(a) == Cardinality(Rows(a)) >= cap
Enrolling(a) == admission[a] # None /\ admission[a].kind = "enroll"
Frees(a) == admission' = [admission EXCEPT ![a] = None]
\* Slip: a device that is online is dropped too.
EvictableAny(a) == Rows(a)
Evictable(a) == {e \in Rows(a) : SocketsIn(a, e) = {}}
EnrollEvicts(a) ==
    /\ Enrolling(a) /\ admission[a].fresh /\ Full(a)
    /\ \/ \E e \in Evictable(a) : RemovesRow(e)
          /\ UNCHANGED <<change, admission>>
       \/ /\ Evictable(a) = {}
          /\ Refuses(admission[a].no) /\ Frees(a)
          /\ UNCHANGED <<rows, revoked>>
    /\ UNCHANGED <<tickets, sockets, issued, calls, stored, parked, link, closes,
                   cut, cap, spent>>
\* The row is written, unless another account has the device by now, and where it had
\* one before, what was admitted under the old credential closes.
EnrollWrites(a) ==
    LET k == admission[a].no  d == creds[k].device
    IN /\ Enrolling(a) /\ ~(admission[a].fresh /\ Full(a))
       /\ Frees(a)
       /\ IF rows[d] = None \/ d \in Rows(a)
          THEN /\ rows' = [rows EXCEPT ![d] = Row(k)]
               /\ \/ /\ Closing(IF admission[a].fresh THEN {} ELSE SocketsIn(a, d), "rotated")
                     /\ UNCHANGED <<dials, cut>> /\ Smooth
                     /\ IF change[d].kind = "enroll" /\ change[d].no = k THEN Stores(d, k)
                        ELSE UNCHANGED <<account, link>>
                  \/ Stands(a, d) /\ cut' = cut \cup {d} /\ UNCHANGED <<account, link>>
          ELSE /\ Refuses(k)
               /\ UNCHANGED <<rows, sockets, closes, dials, stored, parked, link, cut, cap,
                              spent>>
    /\ UNCHANGED <<revoked, tickets, creds, calls>>
EnrollFails(a) ==
    /\ Enrolling(a) /\ Trouble
    /\ Frees(a) /\ Refuses(admission[a].no)
    /\ UNCHANGED <<rows, revoked, tickets, sockets, issued, calls, stored, parked,
                   link, closes, cut>>

\* The Worker knows the caller by its credential ...
RevokeAuths(r) ==
    /\ r \in revokes /\ ~r.authed
    /\ IF Current(r.by)
       THEN /\ revokes' = (revokes \ {r}) \cup {[r EXCEPT !.authed = TRUE]}
            /\ UNCHANGED <<account, link, creds, enrolls>>
       ELSE revokes' = revokes \ {r} /\ Answered(r, "refused")
    /\ UNCHANGED <<hub, dials, opens, closes, cut, cap, spent>>
\* ... and the object takes the device out of the caller's account.
RevokeRemoves(r) ==
    LET a == creds[r.by].account
        here == r.target \in Rows(a)
    IN /\ r \in revokes /\ r.authed /\ admission[a] = None
       /\ revokes' = revokes \ {r}
       /\ IF here THEN RemovesRow(r.target) ELSE UNCHANGED <<rows, revoked>>
       /\ \/ /\ Closing(SocketsIn(a, r.target), "revoked")
             /\ UNCHANGED dials /\ Smooth
             /\ Answered(r, IF here THEN "removed" ELSE "failed")
          \/ Stands(a, r.target) /\ Answered(r, "failed")
       /\ UNCHANGED <<tickets, admission, opens, cut>>
RevokeFails(r) ==
    /\ r \in revokes /\ Trouble
    /\ revokes' = revokes \ {r} /\ Answered(r, "failed")
    /\ UNCHANGED <<hub, dials, opens, closes, cut>>

--------------------------------------------------------------------------------
(* A dial: the ticket, the upgrade and the accept (connection.ts's dial,       *)
(* Tickets.ts, the object's fetch).                                            *)

\* The dials the hub still has a word to say to.
Answerable == sockets \cup Range(opens) \cup {m.dial : m \in closes}
    \cup {admission[a].no : a \in {b \in Accounts :
              admission[b] # None /\ admission[b].kind = "connect"}}
Free == Dials \ (tickets \cup Answerable \cup {link[d].dial : d \in Devices})

\* A fresh ticket for the stored credential, or the hub's word on it: it was revoked,
\* or it is refused and asked for again.
Dial(d) ==
    /\ link[d].phase = "backoff" /\ stored[d] # None
    /\ LET k == stored[d].credential
       IN IF Current(k)
          THEN \E n \in Free :
                 /\ \A m \in Free : n <= m
                 /\ dials' = [dials EXCEPT ![n] =
                       [device |-> d, account |-> stored[d].account, credential |-> k,
                        stands |-> FALSE]]
                 /\ tickets' = tickets \cup {n} /\ opens' = Append(opens, n)
                 /\ link' = [link EXCEPT ![d] = [phase |-> "opening", dial |-> n]]
          ELSE /\ link' = [link EXCEPT ![d].phase = IF k \in revoked THEN "revoked" ELSE @]
               /\ UNCHANGED <<dials, tickets, opens>>
    /\ UNCHANGED <<rows, revoked, sockets, admission, creds, enrolls, revokes,
                   account, closes, cut, cap, spent>>
TicketExpires(n) ==
    /\ n \in tickets /\ Trouble /\ tickets' = tickets \ {n}
    /\ UNCHANGED <<rows, revoked, sockets, admission, issued, calls, account, link,
                   closes, cut>>

Rejects(n) == closes' = closes \cup {[dial |-> n, code |-> "rejected"]}
\* The ticket is burned whatever comes of it ...
ConnectTakes(n) ==
    LET a == dials[n].account
    IN /\ admission[a] = None
       /\ \E i \in 1..Len(opens) :
             /\ opens[i] = n
             /\ Overtaken \/ \A j \in 1..(i - 1) : dials[opens[j]].device # dials[n].device
             /\ opens' = RemoveAt(opens, i)
       /\ tickets' = tickets \ {n}
       /\ IF n \in tickets
          THEN /\ admission' = [admission EXCEPT ![a] = [kind |-> "connect", no |-> n]]
               /\ UNCHANGED closes
          ELSE Rejects(n) /\ UNCHANGED admission
       /\ UNCHANGED <<rows, revoked, sockets, issued, enrolls, revokes, account,
                      link, cut, cap, spent>>
\* Slip: it is enough that the device is enrolled.
AdmissibleEnrolled(dial) == rows[dial.device] # None
Admissible(dial) == Current(dial.credential)
\* ... and admits its device under the credential it was minted with, in the place
\* of the socket the device had in the account.
ConnectAdmits(a) ==
    LET n == admission[a].no  dial == dials[n]
    IN /\ admission[a] # None /\ admission[a].kind = "connect"
       /\ Frees(a)
       /\ IF Admissible(dial)
          THEN /\ sockets' = (sockets \ SocketsIn(a, dial.device)) \cup {n}
               /\ closes' = closes \cup {[dial |-> m, code |-> "superseded"] :
                                            m \in SocketsIn(a, dial.device)}
          ELSE Rejects(n) /\ UNCHANGED sockets
       /\ UNCHANGED <<rows, revoked, tickets, issued, calls, account, link, cut,
                      cap, spent>>
ConnectFails(a) ==
    /\ admission[a] # None /\ admission[a].kind = "connect" /\ Trouble
    /\ Frees(a) /\ Rejects(admission[a].no)
    /\ UNCHANGED <<rows, revoked, tickets, sockets, issued, calls, account, link,
                   cut>>

--------------------------------------------------------------------------------
(* The connection under its supervisor.                                        *)

\* The first roster is the accept.
Accepted(d) ==
    /\ link[d].phase = "opening" /\ link[d].dial \in sockets
    /\ link' = [link EXCEPT ![d].phase = "connected"]
    /\ UNCHANGED <<hub, issued, calls, account, closes, cut, cap, spent>>
\* Slip: a rejected ticket blocks as well.
VerdictRejected(code) ==
    IF code \in {"revoked", "superseded", "rejected"} THEN [phase |-> code, dial |-> 0]
    ELSE Backoff
\* A close it did not make: two codes block, any other dials again.
Verdict(code) ==
    IF code \in {"revoked", "superseded"} THEN [phase |-> code, dial |-> 0] ELSE Backoff
\* Slip: the close of a dial it gave up on counts.
HoldsAny(d, n) == link[d].phase \in {"opening", "connected"} /\ dials[n].device = d
Holds(d, n) == link[d].phase \in {"opening", "connected"} /\ link[d].dial = n
CloseHeard(m) ==
    /\ m \in closes /\ closes' = closes \ {m}
    /\ link' = [d \in Devices |-> IF Holds(d, m.dial) THEN Verdict(m.code) ELSE link[d]]
    /\ UNCHANGED <<hub, issued, calls, account, cut, cap, spent>>
CloseLost(m) ==
    /\ m \in closes /\ closes' = closes \ {m} /\ Trouble
    /\ UNCHANGED <<hub, issued, calls, account, link, cut>>
\* No accept in time, or no answer to a ping: its socket is cut.
GivesUp(d) ==
    /\ link[d].phase \in {"opening", "connected"}
    /\ IF link[d].dial \in Answerable THEN Trouble ELSE Smooth
    /\ link' = [link EXCEPT ![d] = Backoff]
    /\ UNCHANGED <<hub, issued, calls, account, closes, cut>>
\* The hub hears that the device let go of a socket, or finds it silent.
Departs(n) ==
    /\ n \in sockets /\ \A d \in Devices : ~Holds(d, n)
    /\ sockets' = sockets \ {n}
    /\ UNCHANGED <<rows, revoked, tickets, admission, issued, calls, account, link,
                   closes, cut, cap, spent>>

--------------------------------------------------------------------------------
Init ==
    /\ cap \in Caps
    /\ creds = [d \in Devices |-> [device |-> d, account |-> Home]]
    /\ rows = [d \in Devices |-> IF d <= cap THEN Row(d) ELSE None]
    /\ stored = rows /\ parked = [d \in Devices |-> None]
    /\ link = [d \in Devices |-> IF d <= cap THEN Backoff ELSE Stopped]
    /\ dials = [n \in Dials |-> [device |-> 0, account |-> None, credential |-> 0,
                             stands |-> FALSE]]
    /\ change = [d \in Devices |-> NoChange]
    /\ admission = [a \in Accounts |-> None]
    /\ opens = <<>>
    /\ revoked = {} /\ tickets = {} /\ sockets = {} /\ enrolls = {}
    /\ revokes = {} /\ closes = {} /\ cut = {}
    /\ spent = [asks |-> 0, troubles |-> 0]

HubSteps ==
    \/ \E k \in enrolls : EnrollReads(k)
    \/ \E a \in Accounts : EnrollEvicts(a) \/ EnrollWrites(a) \/ ConnectAdmits(a)
    \/ \E r \in revokes : RevokeAuths(r) \/ RevokeRemoves(r)
    \/ \E n \in Range(opens) : ConnectTakes(n)
    \/ \E n \in sockets : Departs(n)
LinkSteps(d) == Dial(d) \/ Accepted(d) \/ GivesUp(d) \/ SignsItselfOut(d)
Hears == \E m \in closes : CloseHeard(m)
Next ==
    \/ HubSteps \/ Hears
    \/ \E d \in Devices :
          \/ LinkSteps(d)
          \/ \E a \in Accounts : SignsIn(d, a)
          \/ SignInTimesOut(d) \/ SignsOut(d) \/ AppRestarts(d)
          \/ \E e \in Devices : Removes(d, e)
    \/ \E a \in Accounts : EnrollFails(a) \/ ConnectFails(a)
    \/ \E r \in revokes : RevokeFails(r) \/ RevokeTimesOut(r)
    \/ \E n \in tickets : TicketExpires(n)
    \/ \E m \in closes : CloseLost(m)

Spec == Init /\ [][Next]_vars
\* The hub answers, its closes arrive, and each device's supervisor goes on.
FairSpec ==
    /\ Spec
    /\ WF_vars(HubSteps) /\ WF_vars(Hears)
    /\ \A d \in Devices : WF_vars(LinkSteps(d))

--------------------------------------------------------------------------------
Held(r) == r = None \/ Current(r.credential)
TypeOK ==
    /\ \A d \in Devices : {rows[d], stored[d], parked[d]}
          \subseteq {None} \cup {Row(k) : k \in DOMAIN creds}
    /\ \A d \in Devices : rows[d] # None => rows[d].credential \notin revoked
    /\ tickets \cup sockets \cup Range(opens) \subseteq Dials
    /\ sockets \cap tickets = {} /\ sockets \cap Range(opens) = {}
    /\ enrolls \subseteq DOMAIN creds
    /\ \A a \in Accounts, d \in Devices : Cardinality(SocketsIn(a, d)) <= 1
    /\ \A a \in Accounts : Cardinality(Rows(a)) <= cap

\* No socket outlives the credential it was admitted under: not a removal, an
\* eviction or an enrollment anew, unless the registry's answer to it was lost.
AdmittedHolds ==
    \A n \in sockets : Current(dials[n].credential) \/ dials[n].stands

\* A device that runs once is never taken for two: a dial of its own that it gave
\* up on does not take the hub from a later one.
NeverBlocksItself == \A d \in Devices : link[d].phase # "superseded"

\* A device that is signed in leaves the account by a sign-out of this enrollment,
\* by another device's removal, or while it has no socket in the account: never by
\* what it asked under an earlier enrollment.
LeavesWhenAsked ==
    [][\A d \in Devices :
          stored[d] # None /\ rows[d] = stored[d] /\ rows'[d] # rows[d] =>
              \/ \E r \in revokes :
                    r.target = d /\ (creds[r.by].device = d => r.by = rows[d].credential)
              \/ SocketsIn(rows[d].account, d) = {}]_vars

\* The hub lists no device whose credential nobody holds: with no call of it under
\* way, its record or what it parked is the row's, unless it gave up on an
\* enrollment.
NoneStranded ==
    \A d \in Devices \ cut :
        /\ change[d].kind = "none" /\ rows[d] # None
        /\ ~\E k \in enrolls : creds[k].device = d
        /\ \A a \in Accounts : ~(Enrolling(a) /\ creds[admission[a].no].device = d)
        => rows[d] \in {stored[d], parked[d]}

\* A device the hub lists under the record it holds comes to have a socket.
Listed(d) == stored[d] # None /\ rows[d] = stored[d]
Connects ==
    \A d \in Devices :
        Listed(d) ~> ~Listed(d) \/ (link[d].phase = "connected" /\ link[d].dial \in sockets)

\* A device that was removed signs itself out, unless the answer to its removal was
\* lost and its socket stands.
RemovedSignsOut ==
    \A d \in Devices :
        stored[d] # None /\ rows[d] = None ~>
            \/ stored[d] = None \/ rows[d] # None
            \/ \E n \in sockets : Holds(d, n) /\ dials[n].stands

\* Every device comes to what the registry says of it: connected or signed out.
LinksSettle == Connects /\ RemovedSignsOut
================================================================================
