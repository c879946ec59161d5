---------------------- MODULE RecoveryAdmission_proofs ----------------------
(***************************************************************************)
(* Proofs about RecoveryAdmission for any executions and credentials.      *)
(*                                                                         *)
(* The types first, then what each store operation does to a lease.  An    *)
(* operation of one execution is local: it leaves the leases and the calls *)
(* of the others alone, unless selectionMu excludes the others anyway.  So *)
(* the invariant is a conjunction over executions, each operation is shown *)
(* to keep the part of its own execution, and locality keeps the rest.     *)
(***************************************************************************)
EXTENDS RecoveryAdmission, TLAPS

\* Well-formed entries of the guard: an absent one and an unowned one carry nothing.
GoodAccounts == {e \in Entries : /\ ~e.on => ~e.ready /\ ~e.cooling /\ e.owner = Nobody
                                 /\ e.owner = Nobody => ~e.dispatched /\ ~e.aged /\ ~e.current}
\* Well-formed entries of the ban store.
GoodBans == {b \in BanEntries : /\ ~b.on => /\ ~b.half /\ ~b.cooling /\ ~b.current
                                            /\ b.owner = Nobody /\ ~b.leased
                                /\ ~b.half => b.owner = Nobody /\ ~b.leased}

\* TypeOK with its conditions on the entries made part of their types.
Shape ==
    /\ accounts \in [Credential -> GoodAccounts]
    /\ bans \in [Credential -> GoodBans]
    /\ requests \in [Request -> RequestEntries]
    /\ call \in [Request -> Calls]
    /\ ending \in [Request -> Endings]
    /\ reported \subseteq Indexed

\* The constant entries are well formed.
LEMMA NoAccountGood == NoAccount \in GoodAccounts /\ NoBan \in GoodBans /\ Cooldown \in GoodBans
  BY DEF NoAccount, NoBan, Cooldown, GoodAccounts, GoodBans, Entries, BanEntries, Owners

\* What Unowned leaves of an entry, field by field.
LEMMA UnownedEntry ==
  ASSUME NEW e \in Entries
  PROVE  /\ Unowned(e) \in Entries
         /\ Unowned(e).on = e.on /\ Unowned(e).ready = e.ready
         /\ Unowned(e).cooling = e.cooling /\ Unowned(e).owner = Nobody
         /\ ~Unowned(e).dispatched /\ ~Unowned(e).aged /\ ~Unowned(e).current
  BY DEF Unowned, Entries, Owners

\* Entries with equal fields are equal.
LEMMA SameEntry ==
  ASSUME NEW e \in Entries, NEW f \in Entries,
         e.on = f.on, e.ready = f.ready, e.cooling = f.cooling, e.owner = f.owner,
         e.dispatched = f.dispatched, e.aged = f.aged, e.current = f.current
  PROVE  e = f
  BY DEF Entries

\* GoodAccounts and GoodBans say what TypeOK says of an entry.
LEMMA GoodAccountsMeaning ==
  ASSUME NEW e \in Entries
  PROVE  e \in GoodAccounts <=> /\ e.on \/ e = NoAccount
                                /\ e.owner = Nobody => Unowned(e) = e
<1>1. NoAccount \in Entries
  BY NoAccountGood DEF GoodAccounts
<1>2. e \in GoodAccounts => e.on \/ e = NoAccount
  BY <1>1, SameEntry DEF GoodAccounts, NoAccount, Entries
<1>3. e \in GoodAccounts /\ e.owner = Nobody => Unowned(e) = e
  BY UnownedEntry, SameEntry DEF GoodAccounts, Entries
<1>4. ASSUME e.on \/ e = NoAccount, e.owner = Nobody => Unowned(e) = e
      PROVE  e \in GoodAccounts
  <2>1. e.owner = Nobody => ~e.dispatched /\ ~e.aged /\ ~e.current
    BY <1>4, UnownedEntry
  <2> QED BY <1>4, <2>1 DEF NoAccount, GoodAccounts
<1> QED BY <1>2, <1>3, <1>4

\* The same for the ban store.
LEMMA GoodBansMeaning ==
  ASSUME NEW b \in BanEntries
  PROVE  b \in GoodBans <=> /\ b.on \/ b = NoBan
                            /\ b.half \/ (b.owner = Nobody /\ ~b.leased)
  BY DEF GoodBans, BanEntries, NoBan

\* Shape and TypeOK are the same predicate.
LEMMA ShapeIsTypeOK == Shape <=> TypeOK
<1>1. ASSUME Shape PROVE TypeOK
  <2>1. accounts \in [Credential -> Entries] /\ bans \in [Credential -> BanEntries]
    BY <1>1 DEF Shape, GoodAccounts, GoodBans
  <2>2. \A c \in Credential : accounts[c] \in GoodAccounts /\ bans[c] \in GoodBans
    BY <1>1 DEF Shape
  <2>3. \A c \in Credential : accounts[c] \in Entries /\ bans[c] \in BanEntries
    BY <2>1
  <2> QED BY <1>1, <2>1, <2>2, <2>3, GoodAccountsMeaning, GoodBansMeaning DEF Shape, TypeOK
<1>2. ASSUME TypeOK PROVE Shape
  <2>1. \A c \in Credential : accounts[c] \in Entries /\ bans[c] \in BanEntries
    BY <1>2 DEF TypeOK
  <2>2. \A c \in Credential : accounts[c] \in GoodAccounts /\ bans[c] \in GoodBans
    BY <1>2, <2>1, GoodAccountsMeaning, GoodBansMeaning DEF TypeOK
  <2> QED BY <1>2, <2>2 DEF Shape, TypeOK
<1> QED BY <1>1, <1>2

\* A lease that ends leaves an entry well formed.
LEMMA FinishedGood ==
  ASSUME NEW e \in GoodAccounts, NEW success \in BOOLEAN
  PROVE  Finished(e, success) \in GoodAccounts
<1> DEFINE f == [e EXCEPT !.cooling = @ \/ e.dispatched, !.ready = @ /\ ~e.dispatched]
<1>1. f \in Entries /\ f.on = e.on /\ f.ready = (e.ready /\ ~e.dispatched)
                    /\ f.cooling = (e.cooling \/ e.dispatched)
  BY DEF GoodAccounts, Entries
<1>2. Unowned(f) \in GoodAccounts
  BY <1>1, UnownedEntry DEF GoodAccounts
<1> QED BY <1>2, NoAccountGood DEF Finished

\* Evidence that a credential is exhausted keeps an entry well formed.
LEMMA EvidenceGood ==
  ASSUME NEW e \in GoodAccounts, NEW cool \in BOOLEAN
  PROVE  Evidence(e, cool) \in GoodAccounts
  BY DEF Evidence, GoodAccounts, Entries

\* A reservation keeps an entry well formed.
LEMMA ReservedGood ==
  ASSUME NEW e \in GoodAccounts, NEW r \in Request
  PROVE  Reserved(e, r) \in GoodAccounts
<1>1. [Unowned(e) EXCEPT !.owner = r, !.current = TRUE] \in Entries
  BY UnownedEntry DEF GoodAccounts, Entries, Owners
<1>2. e.on => [Unowned(e) EXCEPT !.owner = r, !.current = TRUE] \in GoodAccounts
  BY <1>1, UnownedEntry, RequestAssumption DEF GoodAccounts, Entries
<1> QED BY <1>2 DEF Reserved

\* A probe that is allowed keeps an entry well formed.
LEMMA ProbingGood ==
  ASSUME NEW b \in GoodBans, NEW o \in Owners, ProbeAllowed(b, o)
  PROVE  Probing(b, o) \in GoodBans
  BY DEF Probing, ProbeAllowed, GoodBans, BanEntries, Owners

\* A 429 keeps an entry well formed.
LEMMA Recorded429Good ==
  ASSUME NEW b \in GoodBans
  PROVE  Recorded429(b) \in GoodBans
  BY NoAccountGood DEF Recorded429, GoodBans, BanEntries

\* What a call's beginning, its end and a mark leave is a request entry.
LEMMA RequestOps ==
  ASSUME NEW rq \in RequestEntries, NEW r \in Request, NEW b \in BOOLEAN
  PROVE  /\ Returned(rq) \in RequestEntries
         /\ Detached(rq) \in RequestEntries
         /\ Begun(r, rq) \in RequestEntries
         /\ MarkIf(b, rq) \in RequestEntries
<1>1. Returned(rq) \in RequestEntries
  BY DEF Returned, RequestEntries
<1>2. Detached(rq) \in RequestEntries
  BY DEF Detached, RequestEntries
<1>3. Begun(r, rq) \in RequestEntries
  BY <1>1 DEF Begun, RequestEntries
<1>4. MarkIf(b, rq) \in RequestEntries
  BY DEF MarkIf, RequestEntries
<1> QED BY <1>1, <1>2, <1>3, <1>4

\* Settling the leases of an execution keeps both stores well formed.
LEMMA SettledTypes ==
  ASSUME Shape, NEW r \in Owners, NEW except, NEW success \in BOOLEAN
  PROVE  /\ FinishExcept(accounts, r, except, success) \in [Credential -> GoodAccounts]
         /\ CompleteOwnedExcept(bans, r, except, success) \in [Credential -> GoodBans]
<1>1. FinishExcept(accounts, r, except, success) \in [Credential -> GoodAccounts]
  BY FinishedGood DEF FinishExcept, Shape
<1>2. CompleteOwnedExcept(bans, r, except, success) \in [Credential -> GoodBans]
  BY NoAccountGood DEF CompleteOwnedExcept, Shape
<1> QED BY <1>1, <1>2

\* The initial state is well typed.
LEMMA ShapeInit == Init => Shape
  BY NoAccountGood DEF Init, Shape, NewRequest, RequestEntries, NoCall, Calls, Owners,
                       NotEnding, Endings

\* The calls that the steps write are calls.
LEMMA CallTypes ==
  ASSUME Shape, NEW at \in {"idle", "rejected", "settled"} \cup Picking \cup Admitting,
         NEW c \in Credential, NEW o \in Owners, NEW g \in BOOLEAN
  PROVE  /\ [NoCall EXCEPT !.at = at, !.auth = c, !.owner = o] \in Calls
         /\ [NoCall EXCEPT !.at = at, !.auth = c, !.guarded = g] \in Calls
  BY DEF Shape, NoCall, Calls, Owners

\* A call that moves on, or ends, is a call.
LEMMA CallMoves ==
  ASSUME Shape, NEW r \in Request
  PROVE  /\ NoCall \in Calls
         /\ \A at \in {"rejected", "settled"} \cup Picking \cup Admitting :
               /\ [NoCall EXCEPT !.at = at] \in Calls
               /\ [call[r] EXCEPT !.at = at] \in Calls
  BY DEF Shape, NoCall, Calls, Owners

\* A pick keeps the types.
LEMMA ShapePick ==
  ASSUME Shape, NEW r \in Request, Pick(r)
  PROVE  Shape'
<1>1. ASSUME NEW c \in Credential, PickRank(r, c) PROVE Shape'
  <2>1. requests' \in [Request -> RequestEntries]
    BY <1>1, RequestOps DEF PickRank, Shape
  <2>2. call' \in [Request -> Calls]
    BY <1>1, CallTypes DEF PickRank, Shape, Picking, Owners
  <2> QED BY <1>1, <2>1, <2>2 DEF PickRank, Shape, stores
<1>2. CASE PickLease(r)
  <2>1. bans' \in [Credential -> GoodBans]
    <3>1. call[r].auth \in Credential =>
            bans[call[r].auth] \in GoodBans
      BY DEF Shape
    <3>2. call[r].owner \in Owners
      BY DEF Shape, Calls
    <3>3. call[r].auth \in Credential /\ ProbeAllowed(bans[call[r].auth], call[r].owner) =>
             Probing(bans[call[r].auth], call[r].owner) \in GoodBans
      BY <3>1, <3>2, ProbingGood
    <3> QED BY <1>2, <3>3 DEF PickLease, Shape
  <2>2. call' \in [Request -> Calls]
    <3>1. [call[r] EXCEPT !.at = "leased"] \in Calls /\ NoCall \in Calls
      BY CallMoves DEF Picking
    <3> QED BY <1>2, <3>1 DEF PickLease, Shape
  <2> QED BY <1>2, <2>1, <2>2 DEF PickLease, Shape
<1>3. CASE PickAdmit(r)
  <2>1. requests' \in [Request -> RequestEntries]
    <3>1. [requests[r] EXCEPT !.auth = call[r].auth] \in RequestEntries
      BY DEF Shape, Calls, RequestEntries
    <3> QED BY <1>3, <3>1 DEF PickAdmit, Shape
  <2>2. call' \in [Request -> Calls]
    BY <1>3, CallMoves DEF PickAdmit, Shape
  <2> QED BY <1>3, <2>1, <2>2 DEF PickAdmit, Shape, stores
<1> QED BY <1>1, <1>2, <1>3 DEF Pick

\* An after-auth call keeps the types.
LEMMA ShapeAfter ==
  ASSUME Shape, NEW r \in Request, After(r)
  PROVE  Shape'
<1>1. ASSUME NEW c \in Credential, AfterReserve(r, c) PROVE Shape'
  <2> DEFINE settled == FinishOther(accounts, r, c)
  <2>1. settled \in [Credential -> GoodAccounts]
    BY SettledTypes DEF FinishOther, Owners
  <2>2. accounts' \in [Credential -> GoodAccounts]
    BY <1>1, <2>1, ReservedGood DEF AfterReserve
  <2>3. bans' \in [Credential -> GoodBans]
    BY <1>1, SettledTypes DEF AfterReserve, Owners
  <2>4. requests' \in [Request -> RequestEntries]
    <3>1. [requests[r] EXCEPT !.life = "registered", !.auth = c] \in RequestEntries
      BY DEF Shape, RequestEntries
    <3> QED BY <1>1, <3>1, RequestOps DEF AfterReserve, Shape
  <2>5. call' \in [Request -> Calls]
    <3>1. settled[c].on \in BOOLEAN
      BY <2>1 DEF GoodAccounts, Entries
    <3>2. [NoCall EXCEPT !.at = "reserved", !.auth = c, !.guarded = settled[c].on] \in Calls
      BY <3>1, CallTypes DEF Admitting, Owners
    <3> QED BY <1>1, <3>2 DEF AfterReserve, Shape
  <2> QED BY <1>1, <2>2, <2>3, <2>4, <2>5 DEF AfterReserve, Shape
<1>2. CASE AfterProbe(r)
  <2>1. bans' \in [Credential -> GoodBans]
    BY <1>2, ProbingGood DEF AfterProbe, Shape, Calls, Owners
  <2>2. call' \in [Request -> Calls]
    <3>1. [call[r] EXCEPT !.at = "probed"] \in Calls /\ NoCall \in Calls
      BY CallMoves DEF Admitting
    <3> QED BY <1>2, <3>1 DEF AfterProbe, Shape
  <2> QED BY <1>2, <2>1, <2>2 DEF AfterProbe, Shape
<1>3. CASE AfterDispatch(r)
  <2>1. accounts' \in [Credential -> GoodAccounts]
    <3>1. \A c \in Credential : accounts[c].owner = r =>
              [accounts[c] EXCEPT !.dispatched = TRUE] \in GoodAccounts
      BY RequestAssumption DEF Shape, GoodAccounts, Entries
    <3> QED BY <1>3, <3>1 DEF AfterDispatch, Shape
  <2>2. call' \in [Request -> Calls]
    BY <1>3, CallMoves DEF AfterDispatch, Shape
  <2>3. requests' \in [Request -> RequestEntries]
    <3>1. \A u \in {"probe", "plain"} :
              [requests[r] EXCEPT !.dispatched = TRUE, !.upstream = u] \in RequestEntries
      BY DEF Shape, RequestEntries
    <3> QED BY <1>3, <3>1 DEF AfterDispatch, Shape
  <2> QED BY <1>3, <2>1, <2>2, <2>3 DEF AfterDispatch, Shape
<1> QED BY <1>1, <1>2, <1>3 DEF After

\* The release of a rejected attempt keeps the types.
LEMMA ShapeRejection ==
  ASSUME Shape, NEW r \in Request, Rejection(r)
  PROVE  Shape'
<1>1. CASE ReleaseAttempt(r)
  <2> DEFINE c == requests[r].auth
  <2>1. accounts' \in [Credential -> GoodAccounts]
    <3>1. c \in Credential => Evidence(accounts[c], TRUE) \in GoodAccounts
      BY EvidenceGood DEF Shape
    <3> QED BY <1>1, <3>1 DEF ReleaseAttempt, Shape
  <2>2. bans' \in [Credential -> GoodBans]
    BY <1>1, NoAccountGood DEF ReleaseAttempt, Shape
  <2>3. requests' \in [Request -> RequestEntries]
    <3>1. Begun(r, Detached(requests[r])) \in RequestEntries
      BY RequestOps DEF Shape
    <3>2. \A o \in Request :
             MarkIf(c \in Indexed /\ OnCredential(o, c), requests[o]) \in RequestEntries
      <4>1. \A o \in Request : (c \in Indexed /\ OnCredential(o, c)) \in BOOLEAN
        BY DEF OnCredential
      <4> QED BY <4>1, RequestOps DEF Shape
    <3> QED BY <1>1, <3>1, <3>2 DEF ReleaseAttempt
  <2>4. call' \in [Request -> Calls]
    <3>1. [NoCall EXCEPT !.at = "rejected"] \in Calls
      BY CallMoves
    <3> QED BY <1>1, <3>1 DEF ReleaseAttempt, Shape
  <2> QED BY <1>1, <2>1, <2>2, <2>3, <2>4 DEF ReleaseAttempt, Shape
<1>2. CASE RejectedGuard(r)
  <2>1. accounts' \in [Credential -> GoodAccounts]
    BY <1>2, SettledTypes DEF RejectedGuard, Owners
  <2>2. call' \in [Request -> Calls]
    <3>1. [call[r] EXCEPT !.at = "settled"] \in Calls
      BY CallMoves
    <3> QED BY <1>2, <3>1 DEF RejectedGuard, Shape
  <2> QED BY <1>2, <2>1, <2>2 DEF RejectedGuard, Shape
<1>3. CASE RejectedBan(r)
  <2>1. bans' \in [Credential -> GoodBans]
    BY <1>3, SettledTypes DEF RejectedBan, Owners
  <2>2. call' \in [Request -> Calls]
    BY <1>3, CallMoves DEF RejectedBan, Shape
  <2> QED BY <1>3, <2>1, <2>2 DEF RejectedBan, Shape
<1> QED BY <1>1, <1>2, <1>3 DEF Rejection

\* A terminal callback keeps the types.
LEMMA ShapeCompletion ==
  ASSUME Shape, NEW r \in Request, Completion(r)
  PROVE  Shape'
<1>1. ASSUME NEW success \in BOOLEAN, Complete(r, success) PROVE Shape'
  <2>1. ending' \in [Request -> Endings]
    BY <1>1 DEF Complete, Shape, Endings
  <2>2. requests' \in [Request -> RequestEntries]
    <3>1. \A b \in BOOLEAN : [requests[r] EXCEPT !.overlapped = b] \in RequestEntries
      BY DEF Shape, RequestEntries
    <3>2. (call[r] # NoCall) \in BOOLEAN
      OBVIOUS
    <3> QED BY <1>1, <3>1, <3>2 DEF Complete, Shape
  <2> QED BY <1>1, <2>1, <2>2 DEF Complete, Shape, stores
<1>2. CASE CompleteGuard(r)
  <2>1. accounts' \in [Credential -> GoodAccounts]
    <3>1. ending[r].success \in BOOLEAN
      BY DEF Shape, Endings
    <3> QED BY <1>2, <3>1, SettledTypes DEF CompleteGuard, Owners
  <2>2. ending' \in [Request -> Endings]
    BY <1>2 DEF CompleteGuard, Shape, Endings
  <2> QED BY <1>2, <2>1, <2>2 DEF CompleteGuard, Shape
<1>3. CASE CompleteBan(r)
  <2>1. bans' \in [Credential -> GoodBans]
    <3>1. ending[r].success \in BOOLEAN
      BY DEF Shape, Endings
    <3> QED BY <1>3, <3>1, SettledTypes DEF CompleteBan, Owners
  <2>2. ending' \in [Request -> Endings]
    BY <1>3 DEF CompleteBan, Shape, Endings
  <2> QED BY <1>3, <2>1, <2>2 DEF CompleteBan, Shape
<1>4. CASE CompleteSlot(r)
  <2>1. requests' \in [Request -> RequestEntries]
    <3>1. Detached(Returned(requests[r])) \in RequestEntries
      BY RequestOps DEF Shape
    <3>2. [Detached(Returned(requests[r])) EXCEPT !.life = "ended"] \in RequestEntries
      BY <3>1 DEF RequestEntries
    <3> QED BY <1>4, <3>2 DEF CompleteSlot, Shape
  <2>2. ending' \in [Request -> Endings]
    BY <1>4 DEF CompleteSlot, Shape, NotEnding, Endings
  <2> QED BY <1>4, <2>1, <2>2 DEF CompleteSlot, Shape, stores
<1> QED BY <1>1, <1>2, <1>3, <1>4 DEF Completion

\* Reports of usage and quota keep the types.
LEMMA ShapeReports ==
  ASSUME Shape, NEW c \in Credential, Reports(c)
  PROVE  Shape'
<1>1. \A b \in BOOLEAN, r \in Request : MarkIf(b, requests[r]) \in RequestEntries
  BY RequestOps DEF Shape
<1>2. \A r \in Request : OnCredential(r, c) \in BOOLEAN
  BY DEF OnCredential
<1>3. \A b \in BOOLEAN : Evidence(accounts[c], b) \in GoodAccounts
  BY EvidenceGood DEF Shape
<1>4. CASE Report429(c)
  <2>1. bans' \in [Credential -> GoodBans]
    <3>1. Recorded429(bans[c]) \in GoodBans
      BY Recorded429Good DEF Shape
    <3> QED BY <1>4, <3>1 DEF Report429, Shape
  <2>2. requests' \in [Request -> RequestEntries]
    <3>1. \A r \in Request :
             [requests[r] EXCEPT !.after429 = @ \/ OnCredential(r, c)] \in RequestEntries
      BY <1>2 DEF Shape, RequestEntries
    <3> QED BY <1>4, <3>1 DEF Report429
  <2> QED BY <1>4, <2>1, <2>2 DEF Report429, Shape
<1>5. CASE Require(c)
  <2>1. accounts' \in [Credential -> GoodAccounts]
    BY <1>5, <1>3 DEF Require, Shape
  <2>2. requests' \in [Request -> RequestEntries]
    BY <1>5, <1>1, <1>2 DEF Require
  <2> QED BY <1>5, <2>1, <2>2 DEF Require, Shape
<1>6. CASE ObserveExhausted(c)
  <2>1. accounts' \in [Credential -> GoodAccounts]
    BY <1>6, <1>3 DEF ObserveExhausted, Shape
  <2>2. requests' \in [Request -> RequestEntries]
    BY <1>6, <1>1, <1>2 DEF ObserveExhausted
  <2> QED BY <1>6, <2>1, <2>2 DEF ObserveExhausted, Shape
<1>7. CASE ObserveHealthy(c)
  BY <1>7 DEF ObserveHealthy, Shape, GoodAccounts, Entries
<1>8. ASSUME NEW success \in BOOLEAN, UsageDone(c, success) PROVE Shape'
  BY <1>8, NoAccountGood DEF UsageDone, Shape
<1> QED BY <1>4, <1>5, <1>6, <1>7, <1>8 DEF Reports

\* The passing of deadlines keeps the types.
LEMMA ShapeTime ==
  ASSUME Shape, NEW c \in Credential, Time(c)
  PROVE  Shape'
<1>1. CASE GuardCools(c)
  BY <1>1 DEF GuardCools, Shape, GoodAccounts, Entries
<1>2. CASE ReservationAges(c)
  BY <1>2 DEF ReservationAges, Shape, GoodAccounts, Entries
<1>3. CASE BanCools(c)
  BY <1>3 DEF BanCools, Shape, GoodBans, BanEntries
<1>4. CASE ProbeLeaseExpires(c)
  BY <1>4 DEF ProbeLeaseExpires, Shape, GoodBans, BanEntries
<1> QED BY <1>1, <1>2, <1>3, <1>4 DEF Time

\* Unbanning keeps the types.
LEMMA ShapeUnban ==
  ASSUME Shape, NEW lifted, Unban(lifted)
  PROVE  Shape'
<1>1. accounts' \in [Credential -> GoodAccounts] /\ bans' \in [Credential -> GoodBans]
  BY NoAccountGood DEF Unban, Shape
<1>2. requests' \in [Request -> RequestEntries]
  <2>1. \A r \in Request : \A u \in {"no", "plain", "probe"} :
            [requests[r] EXCEPT !.upstream = u] \in RequestEntries
    BY DEF Shape, RequestEntries
  <2>2. \A r \in Request : requests[r].upstream \in {"no", "plain", "probe"}
    BY DEF Shape, RequestEntries
  <2> QED BY <2>1, <2>2 DEF Unban
<1> QED BY <1>1, <1>2 DEF Unban, Shape

\* A restart keeps the types.
LEMMA ShapeRestart ==
  ASSUME Shape, HostRestart
  PROVE  Shape'
<1>1. accounts' \in [Credential -> GoodAccounts]
  <2>1. \A c \in Credential : Finished(accounts[c], FALSE) \in GoodAccounts
    BY FinishedGood DEF Shape
  <2>2. \A e \in GoodAccounts : [e EXCEPT !.ready = FALSE] \in GoodAccounts
    BY DEF GoodAccounts, Entries
  <2> QED BY <2>1, <2>2 DEF HostRestart
<1>2. bans' \in [Credential -> GoodBans]
  BY NoAccountGood DEF HostRestart, Shape
<1>3. requests' \in [Request -> RequestEntries]
  BY DEF HostRestart, NewRequest, RequestEntries
<1>4. call' \in [Request -> Calls] /\ ending' \in [Request -> Endings]
  BY DEF HostRestart, NoCall, Calls, Owners, NotEnding, Endings
<1> QED BY <1>1, <1>2, <1>3, <1>4 DEF HostRestart, Shape

\* Every step keeps the types.
LEMMA ShapeStep == Shape /\ [Next]_vars => Shape'
<1> SUFFICES ASSUME Shape, [Next]_vars PROVE Shape'
  OBVIOUS
<1>1. ASSUME NEW r \in Request, Before(r) PROVE Shape'
  BY <1>1 DEF Before, Shape, RequestEntries, stores
<1>2. ASSUME NEW c \in Credential, Reconcile(c) PROVE Shape'
  BY <1>2, NoAccountGood DEF Reconcile, Shape
<1>3. CASE UNCHANGED vars
  BY <1>3 DEF vars, Shape
<1> QED BY <1>1, <1>2, <1>3, ShapePick, ShapeAfter, ShapeRejection, ShapeCompletion,
           ShapeReports, ShapeTime, ShapeUnban, ShapeRestart DEF Next

\* The types hold in every reachable state.
THEOREM ShapeInvariant == Spec => []Shape
  BY ShapeInit, ShapeStep, PTL DEF Spec

\* For any executions and credentials every variable of the recovery guard and the ban
\* store keeps its type, and an entry that is absent or unowned carries nothing of an old
\* lease (recovery_guard.go, main.go).
THEOREM TypeCorrect == Spec => []TypeOK
  BY ShapeInvariant, ShapeIsTypeOK, PTL
-----------------------------------------------------------------------------
\* A lease that ends is nobody's, and only the success of a dispatched attempt that
\* nothing overruled removes a requirement.
LEMMA FinishedFacts ==
  ASSUME NEW e \in GoodAccounts, NEW success \in BOOLEAN
  PROVE  LET f == Finished(e, success) IN
         /\ f.owner = Nobody /\ ~f.dispatched /\ ~f.current
         /\ e.on /\ ~f.on => success /\ e.dispatched /\ e.current
<1> DEFINE f == [e EXCEPT !.cooling = @ \/ e.dispatched, !.ready = @ /\ ~e.dispatched]
<1>1. f \in Entries /\ f.on = e.on
  BY DEF GoodAccounts, Entries
<1>2. /\ Unowned(f).owner = Nobody /\ ~Unowned(f).dispatched /\ ~Unowned(f).current
      /\ Unowned(f).on = e.on
  BY <1>1, UnownedEntry
<1> QED BY <1>2 DEF Finished, NoAccount

\* Evidence leaves the lease and voids its success.
LEMMA EvidenceFacts ==
  ASSUME NEW e \in GoodAccounts, NEW cool \in BOOLEAN
  PROVE  /\ Evidence(e, cool).owner = e.owner
         /\ Evidence(e, cool).dispatched = e.dispatched
         /\ ~Evidence(e, cool).current
  BY DEF Evidence, GoodAccounts, Entries

\* A reservation that is granted takes no dispatched lease of another execution.
LEMMA ReservedFacts ==
  ASSUME NEW e \in GoodAccounts, NEW r \in Request, Reservable(e, r)
  PROVE  \/ Reserved(e, r) = e /\ e.owner \in {Nobody, r}
         \/ /\ Reserved(e, r).owner = r /\ ~Reserved(e, r).dispatched
            /\ e.owner # r /\ (e.owner = Nobody \/ ~e.dispatched)
<1>1. CASE e.on /\ e.owner # r
  <2>1. Reserved(e, r).owner = r /\ ~Reserved(e, r).dispatched
    BY <1>1, UnownedEntry DEF Reserved, GoodAccounts, Entries
  <2>2. e.owner = Nobody \/ ~e.dispatched
    BY <1>1 DEF Reservable, Held
  <2> QED BY <1>1, <2>1, <2>2
<1>2. CASE ~(e.on /\ e.owner # r)
  BY <1>2 DEF Reserved, GoodAccounts
<1> QED BY <1>1, <1>2

\* A probe that is granted takes no owned probe of another execution.
LEMMA ProbingFacts ==
  ASSUME NEW b \in GoodBans, NEW o \in Owners, ProbeAllowed(b, o)
  PROVE  /\ b.owner \in {Nobody, o}
         /\ Probing(b, o).owner \in {Nobody, o}
         /\ ~b.on => Probing(b, o) = b
         /\ b.owner # Nobody => Probing(b, o) = b
<1>1. b.owner \in {Nobody, o}
  BY DEF ProbeAllowed, ProbeReady, HalfOpen, GoodBans
<1>2. Probing(b, o).owner \in {Nobody, o}
  BY <1>1 DEF Probing, GoodBans, BanEntries
<1>3. b.owner # Nobody => b.half
  BY DEF GoodBans
<1>4. (~b.on => Probing(b, o) = b) /\ (b.owner # Nobody => Probing(b, o) = b)
  BY <1>1, <1>3 DEF Probing
<1> QED BY <1>1, <1>2, <1>4

\* A 429 leaves an owned probe and voids its success.
LEMMA Recorded429Facts ==
  ASSUME NEW b \in GoodBans
  PROVE  Recorded429(b).owner = b.owner /\ ~Recorded429(b).current
  BY NoAccountGood DEF Recorded429, GoodBans, BanEntries, Cooldown, NoBan

\* Settling an execution ends its leases outside except and touches no other.
LEMMA SettledFacts ==
  ASSUME Shape, NEW r \in Request, NEW except, NEW success \in BOOLEAN, NEW c \in Credential
  PROVE  LET a == FinishExcept(accounts, r, except, success)[c]
             b == CompleteOwnedExcept(bans, r, except, success)[c]
         IN  /\ IF accounts[c].owner = r /\ c \notin except
                THEN a.owner = Nobody /\ ~a.dispatched /\ ~a.current ELSE a = accounts[c]
             /\ IF bans[c].owner = r /\ c \notin except
                THEN b.owner = Nobody /\ ~b.current ELSE b = bans[c]
<1>1. accounts[c] \in GoodAccounts /\ bans[c] \in GoodBans
  BY DEF Shape
<1>2. bans[c].owner = r => bans[c].half
  BY <1>1, RequestAssumption DEF GoodBans
<1>3. /\ NoBan.owner = Nobody /\ ~NoBan.current
      /\ Cooldown.owner = Nobody /\ ~Cooldown.current
  BY DEF NoBan, Cooldown
<1> QED BY <1>1, <1>2, <1>3, FinishedFacts DEF FinishExcept, CompleteOwnedExcept

\* The same for the settlement of a failed attempt.
LEMMA FailedFacts ==
  ASSUME Shape, NEW r \in Request, NEW except, NEW c \in Credential
  PROVE  /\ accounts[c].owner = r /\ c \notin except =>
               /\ FinishExcept(accounts, r, except, FALSE)[c].owner = Nobody
               /\ ~FinishExcept(accounts, r, except, FALSE)[c].dispatched
         /\ accounts[c].owner # r \/ c \in except =>
               FinishExcept(accounts, r, except, FALSE)[c] = accounts[c]
         /\ bans[c].owner = r /\ c \notin except =>
               CompleteOwnedExcept(bans, r, except, FALSE)[c].owner = Nobody
         /\ bans[c].owner # r \/ c \in except =>
               CompleteOwnedExcept(bans, r, except, FALSE)[c] = bans[c]
<1>1. PICK failed \in BOOLEAN : failed = FALSE
  OBVIOUS
<1> QED BY <1>1, SettledFacts

\* What a mark changes of a request entry.
LEMMA MarkFacts ==
  ASSUME NEW rq \in RequestEntries, NEW b \in BOOLEAN
  PROVE  /\ MarkIf(b, rq).life = rq.life /\ MarkIf(b, rq).auth = rq.auth
         /\ MarkIf(b, rq).overlapped = rq.overlapped /\ MarkIf(b, rq).upstream = rq.upstream
         /\ MarkIf(b, rq).after429 = rq.after429
         /\ MarkIf(b, rq).afterQuota = (rq.afterQuota \/ b)
  BY DEF MarkIf, RequestEntries

\* What the return of an attempt, the beginning of a call and the loss of the booked
\* credential change of a request entry.
LEMMA RequestFacts ==
  ASSUME NEW rq \in RequestEntries, NEW r \in Request
  PROVE  /\ Returned(rq) \in RequestEntries
         /\ Returned(rq).life = rq.life /\ Returned(rq).auth = rq.auth
         /\ Returned(rq).overlapped = rq.overlapped
         /\ Returned(rq).upstream = "no" /\ ~Returned(rq).after429 /\ ~Returned(rq).afterQuota
         /\ Begun(r, rq).life = rq.life /\ Begun(r, rq).auth = rq.auth
         /\ Begun(r, rq).overlapped = (rq.overlapped \/ ending[r].at # "none")
         /\ Begun(r, rq).upstream = "no" /\ ~Begun(r, rq).after429 /\ ~Begun(r, rq).afterQuota
         /\ Detached(rq) \in RequestEntries
         /\ Detached(rq).life = rq.life /\ Detached(rq).overlapped = rq.overlapped
         /\ Detached(rq).upstream = rq.upstream /\ Detached(rq).after429 = rq.after429
         /\ Detached(rq).afterQuota = rq.afterQuota
<1>1. /\ Returned(rq) \in RequestEntries
      /\ Returned(rq).life = rq.life /\ Returned(rq).auth = rq.auth
      /\ Returned(rq).overlapped = rq.overlapped
      /\ Returned(rq).upstream = "no" /\ ~Returned(rq).after429 /\ ~Returned(rq).afterQuota
  BY DEF Returned, RequestEntries
<1>2. /\ Begun(r, rq).life = rq.life /\ Begun(r, rq).auth = rq.auth
      /\ Begun(r, rq).overlapped = (rq.overlapped \/ ending[r].at # "none")
      /\ Begun(r, rq).upstream = "no" /\ ~Begun(r, rq).after429 /\ ~Begun(r, rq).afterQuota
  BY <1>1 DEF Begun, RequestEntries
<1>3. /\ Detached(rq) \in RequestEntries
      /\ Detached(rq).life = rq.life /\ Detached(rq).overlapped = rq.overlapped
      /\ Detached(rq).upstream = rq.upstream /\ Detached(rq).after429 = rq.after429
      /\ Detached(rq).afterQuota = rq.afterQuota
  BY DEF Detached, RequestEntries
<1> QED BY <1>1, <1>2, <1>3

-----------------------------------------------------------------------------
\* selectionMu: one pick or after-auth call at a time.
Exclusion ==
    \A r, o \in Request :
        call[r].at \in Picking \cup Admitting /\ call[o].at \in Picking \cup Admitting => r = o

\* Where an execution may be: in a call, upstream or ending.
PhasesOf(r) ==
    /\ requests[r].upstream # "no" => call[r] = NoCall /\ requests[r].life = "registered"
    /\ requests[r].upstream = "no" => ~requests[r].after429 /\ ~requests[r].afterQuota
    /\ ending[r].success => requests[r].upstream # "no"
    /\ ending[r].at = "none" => ending[r] = NotEnding
    /\ ending[r].at # "none" => requests[r].life = "registered"
    /\ call[r].owner \in {r, Nobody}
    /\ call[r].at \in Picking \cup Admitting => call[r].auth \in Credential
    /\ call[r].at \in Admitting => requests[r].life # "new"
    /\ call[r].at \in Admitting /\ requests[r].life = "registered" =>
          requests[r].auth = call[r].auth

\* While an after-auth call runs, no other execution holds a dispatched lease on its
\* credential, nor, once it has probed, the probe; and it holds none elsewhere.
AdmissionOf(r) ==
    call[r].at \in Admitting =>
        /\ accounts[call[r].auth].dispatched => accounts[call[r].auth].owner = r
        /\ call[r].at = "probed" => bans[call[r].auth].owner \in {Nobody, r}
        /\ \A c \in Credential : c # call[r].auth => accounts[c].owner # r /\ bans[c].owner # r

\* r was dispatched to test c and has not ended.
ProbesOn(r, c) == requests[r].upstream = "probe" /\ requests[r].auth = c /\ ending[r] = NotEnding

\* An execution dispatched to test a credential holds a lease there that time does not end.
LeaseOf(r) ==
    requests[r].upstream = "probe" /\ ending[r] = NotEnding =>
        LET c == requests[r].auth IN
        /\ c \in Credential
        /\ \/ accounts[c].owner = r /\ accounts[c].dispatched
           \/ bans[c].owner = r

\* A lease of an execution upstream that its success would still redeem is on the
\* credential it was sent to, and that store took no evidence since.
FreshOf(r) ==
    requests[r].upstream # "no" =>
        \A c \in Credential :
            /\ accounts[c].owner = r /\ accounts[c].dispatched /\ accounts[c].current =>
                  requests[r].auth = c /\ ~requests[r].afterQuota
            /\ bans[c].owner = r /\ bans[c].current =>
                  requests[r].auth = c /\ ~requests[r].after429

\* An execution whose terminal callback overlapped no call leaves no lease behind: the
\* parts of the callback clear one store each, and a call begun later takes none.
SettledOf(r) ==
    ~requests[r].overlapped =>
        /\ ending[r].at # "none" => call[r] = NoCall
        /\ ending[r].at \in {"ban", "slot"} => \A c \in Credential : accounts[c].owner # r
        /\ ending[r].at = "slot" => \A c \in Credential : bans[c].owner # r
        /\ requests[r].life = "ended" =>
              /\ call[r].at \in Picking => call[r].owner = Nobody
              /\ call[r].at \in Admitting => ~call[r].guarded
              /\ \A c \in Credential : /\ ~(accounts[c].owner = r /\ accounts[c].dispatched)
                                       /\ bans[c].owner # r

\* The inductive invariant.
Inductive ==
    /\ Shape
    /\ Exclusion
    /\ OneProbeInFlight
    /\ \A r \in Request : PhasesOf(r) /\ AdmissionOf(r) /\ LeaseOf(r) /\ FreshOf(r) /\ SettledOf(r)

\* o gains no lease and keeps the dispatched and owned ones it has.
KeepsLeases(o) ==
    \A c \in Credential :
        /\ accounts'[c].owner = o =>
              /\ accounts[c].owner = o
              /\ accounts'[c].dispatched => accounts[c].dispatched
              /\ accounts'[c].current => accounts[c].current
        /\ accounts[c].owner = o /\ accounts[c].dispatched =>
              accounts'[c].owner = o /\ accounts'[c].dispatched
        /\ bans'[c].owner = o => bans[c].owner = o /\ (bans'[c].current => bans[c].current)
        /\ bans[c].owner = o => bans'[c].owner = o

\* Evidence that o's history records has voided its leases.
Marked(o) ==
    /\ requests[o].upstream = "no" =>
          /\ requests'[o].afterQuota = requests[o].afterQuota
          /\ requests'[o].after429 = requests[o].after429
    /\ requests'[o].afterQuota /\ requests[o].auth \in Credential =>
          requests[o].afterQuota \/ ~accounts'[requests[o].auth].current
    /\ requests'[o].after429 /\ requests[o].auth \in Credential =>
          requests[o].after429 \/ ~bans'[requests[o].auth].current

\* The step leaves execution o alone.
Bystander(o) ==
    /\ call'[o] = call[o]
    /\ ending'[o] = ending[o]
    /\ requests'[o].life = requests[o].life
    /\ requests'[o].auth = requests[o].auth
    /\ requests'[o].upstream = requests[o].upstream
    /\ requests'[o].overlapped = requests[o].overlapped
    /\ KeepsLeases(o)
    /\ Marked(o)

\* The step dispatches no reservation and hands out no probe.
NoNewLease ==
    \A c \in Credential :
        /\ accounts'[c].dispatched =>
              accounts[c].dispatched /\ accounts'[c].owner = accounts[c].owner
        /\ bans'[c].owner \in {Nobody, bans[c].owner}

\* A step of r leaves the other executions alone, and hands out leases only under
\* selectionMu.
Local(r) ==
    /\ \A o \in Request \ {r} : Bystander(o)
    /\ NoNewLease \/ call[r].at \in Picking \cup Admitting

\* A step that leaves o alone keeps every part of the invariant about o; the part about
\* its admission if the step hands out no lease either.
LEMMA BystanderKeeps ==
  ASSUME Shape, NEW o \in Request, Bystander(o), PhasesOf(o)
  PROVE  /\ PhasesOf(o)'
         /\ NoNewLease /\ AdmissionOf(o) => AdmissionOf(o)'
         /\ LeaseOf(o) => LeaseOf(o)'
         /\ FreshOf(o) => FreshOf(o)'
         /\ SettledOf(o) => SettledOf(o)'
         /\ \A c \in Credential : ProbesOn(o, c)' => ProbesOn(o, c)
<1>1. PhasesOf(o)'
  BY DEF Bystander, Marked, PhasesOf
<1>2. ASSUME NoNewLease, AdmissionOf(o) PROVE AdmissionOf(o)'
  <2> SUFFICES ASSUME call[o].at \in Admitting PROVE AdmissionOf(o)'
    BY DEF AdmissionOf, Bystander
  <2> DEFINE c == call[o].auth
  <2>1. c \in Credential
    BY DEF PhasesOf
  <2>2. accounts'[c].dispatched => accounts'[c].owner = o
    BY <1>2, <2>1 DEF NoNewLease, AdmissionOf
  <2>3. call[o].at = "probed" => bans'[c].owner \in {Nobody, o}
    BY <1>2, <2>1 DEF NoNewLease, AdmissionOf
  <2>4. \A d \in Credential : d # c => accounts'[d].owner # o /\ bans'[d].owner # o
    BY <1>2 DEF AdmissionOf, Bystander, KeepsLeases
  <2> QED BY <2>2, <2>3, <2>4 DEF AdmissionOf, Bystander
<1>3. LeaseOf(o) => LeaseOf(o)'
  BY DEF LeaseOf, Bystander, KeepsLeases
<1>4. FreshOf(o) => FreshOf(o)'
  BY DEF FreshOf, Bystander, KeepsLeases, Marked
<1>5. SettledOf(o) => SettledOf(o)'
  BY DEF SettledOf, Bystander, KeepsLeases
<1>6. \A c \in Credential : ProbesOn(o, c)' => ProbesOn(o, c)
  BY DEF ProbesOn, Bystander
<1> QED BY <1>1, <1>2, <1>3, <1>4, <1>5, <1>6

\* A pick is local.
LEMMA LocalPick ==
  ASSUME Shape, NEW r \in Request, PhasesOf(r), Pick(r)
  PROVE  Local(r)
<1>1. ASSUME NEW c \in Credential, PickRank(r, c) PROVE Local(r)
  BY <1>1 DEF PickRank, Local, NoNewLease, Bystander, KeepsLeases, Marked, stores, Shape
<1>2. CASE PickLease(r)
  <2> DEFINE c == call[r].auth
  <2>1. c \in Credential /\ call[r].owner \in {r, Nobody} /\ call[r].at \in Picking
    BY <1>2 DEF PickLease, PhasesOf, Picking
  <2>2. ASSUME NEW o \in Request \ {r} PROVE Bystander(o)
    <3>1. ASSUME NEW d \in Credential
          PROVE  /\ bans'[d].owner = o => bans'[d] = bans[d]
                 /\ bans[d].owner = o => bans'[d] = bans[d]
      <4>1. ProbeAllowed(bans[c], call[r].owner) =>
              /\ bans[c].owner \in {Nobody, r}
              /\ Probing(bans[c], call[r].owner).owner \in {Nobody, r}
        BY <2>1, ProbingFacts DEF Shape, Owners
      <4> QED BY <1>2, <4>1, RequestAssumption DEF PickLease, Shape
    <3> QED BY <1>2, <3>1 DEF PickLease, Bystander, KeepsLeases, Marked, Shape
  <2> QED BY <2>1, <2>2 DEF Local
<1>3. CASE PickAdmit(r)
  BY <1>3 DEF PickAdmit, Local, Bystander, KeepsLeases, Marked, stores, Shape, NoNewLease
<1> QED BY <1>1, <1>2, <1>3 DEF Pick

\* What an after-auth call settles and reserves.
LEMMA ReserveEffects ==
  ASSUME Shape, NEW r \in Request, NEW c \in Credential, AfterReserve(r, c)
  PROVE  /\ \A d \in Credential : d # c =>
               /\ IF accounts[d].owner = r
                  THEN accounts'[d].owner = Nobody /\ ~accounts'[d].dispatched
                  ELSE accounts'[d] = accounts[d]
               /\ IF bans[d].owner = r THEN bans'[d].owner = Nobody ELSE bans'[d] = bans[d]
         /\ \/ accounts'[c] = accounts[c]
            \/ /\ accounts'[c].owner = r /\ ~accounts'[c].dispatched
               /\ accounts[c].owner # r /\ (accounts[c].owner = Nobody \/ ~accounts[c].dispatched)
         /\ bans'[c] = bans[c]
         /\ \/ call'[r] = call[r]
            \/ /\ call'[r].at = "reserved" /\ call'[r].auth = c /\ call'[r].owner = Nobody
               /\ call'[r].guarded = accounts[c].on
               /\ ~(accounts[c].on /\ requests[r].life = "ended")
               /\ accounts'[c].owner \in {Nobody, r}
<1> DEFINE settled == FinishOther(accounts, r, c)
           released == CompleteOwnedExcept(bans, r, {c}, FALSE)
<1>1. \A d \in Credential : d # c =>
         /\ IF accounts[d].owner = r THEN settled[d].owner = Nobody /\ ~settled[d].dispatched
            ELSE settled[d] = accounts[d]
         /\ IF bans[d].owner = r THEN released[d].owner = Nobody ELSE released[d] = bans[d]
  BY FailedFacts DEF FinishOther
<1>2. settled[c] = accounts[c] /\ released[c] = bans[c]
  BY DEF FinishOther, FinishExcept, CompleteOwnedExcept
<1>3. settled \in [Credential -> GoodAccounts]
  BY SettledTypes DEF FinishOther, Owners
<1>4. /\ \A d \in Credential : d # c => accounts'[d] = settled[d]
      /\ accounts'[c] = IF Reservable(accounts[c], r) THEN Reserved(accounts[c], r)
                                                      ELSE accounts[c]
      /\ bans' = released
  BY <1>2, <1>3 DEF AfterReserve
<1>5. \/ accounts'[c] = accounts[c]
      \/ /\ accounts'[c].owner = r /\ ~accounts'[c].dispatched
         /\ accounts[c].owner # r /\ (accounts[c].owner = Nobody \/ ~accounts[c].dispatched)
  BY <1>4, ReservedFacts DEF Shape
<1>6. Reservable(accounts[c], r) => accounts'[c].owner \in {Nobody, r}
  BY <1>4, ReservedFacts DEF Shape
<1>7. CASE call' = call
  BY <1>1, <1>2, <1>4, <1>5, <1>7
<1>8. ASSUME /\ Reservable(accounts[c], r)
             /\ ~(accounts[c].on /\ requests[r].life = "ended")
             /\ call' = [call EXCEPT ![r] = [NoCall EXCEPT !.at = "reserved", !.auth = c,
                                                          !.guarded = accounts[c].on]]
      PROVE  /\ call'[r].at = "reserved" /\ call'[r].auth = c /\ call'[r].owner = Nobody
             /\ call'[r].guarded = accounts[c].on
  BY <1>8 DEF Shape, NoCall
<1>9. \/ call' = call
      \/ /\ Reservable(accounts[c], r)
         /\ ~(accounts[c].on /\ requests[r].life = "ended")
         /\ call' = [call EXCEPT ![r] = [NoCall EXCEPT !.at = "reserved", !.auth = c,
                                                      !.guarded = accounts[c].on]]
  BY <1>2 DEF AfterReserve
<1> QED BY <1>1, <1>2, <1>4, <1>5, <1>6, <1>7, <1>8, <1>9

\* An after-auth call is local: its reservation takes no dispatched lease.
LEMMA LocalAfter ==
  ASSUME Shape, NEW r \in Request, PhasesOf(r), After(r)
  PROVE  Local(r)
<1>1. ASSUME NEW c \in Credential, AfterReserve(r, c) PROVE Local(r)
  <2>1. NoNewLease
    BY <1>1, ReserveEffects DEF NoNewLease
  <2>2. ASSUME NEW o \in Request \ {r} PROVE Bystander(o)
    <3>1. KeepsLeases(o)
      <4>1. ASSUME NEW d \in Credential
            PROVE  /\ accounts'[d].owner = o => accounts'[d] = accounts[d]
                   /\ accounts[d].owner = o /\ accounts[d].dispatched => accounts'[d] = accounts[d]
                   /\ bans'[d].owner = o \/ bans[d].owner = o => bans'[d] = bans[d]
        <5>1. CASE d = c
          BY <1>1, <5>1, ReserveEffects, RequestAssumption
        <5>2. CASE d # c
          BY <1>1, <5>2, ReserveEffects, RequestAssumption
        <5> QED BY <5>1, <5>2
      <4> QED BY <4>1 DEF KeepsLeases
    <3>2. requests'[o] = requests[o] /\ call'[o] = call[o] /\ ending'[o] = ending[o]
      BY <1>1 DEF AfterReserve, Shape
    <3> QED BY <3>1, <3>2 DEF Bystander, Marked
  <2> QED BY <2>1, <2>2 DEF Local
<1>2. CASE AfterProbe(r)
  <2> DEFINE c == call[r].auth
  <2>1. c \in Credential /\ call[r].at \in Admitting
    BY <1>2 DEF AfterProbe, PhasesOf, Admitting
  <2>2. ASSUME NEW o \in Request \ {r} PROVE Bystander(o)
    <3>1. ASSUME NEW d \in Credential
          PROVE  /\ bans'[d].owner = o => bans'[d] = bans[d]
                 /\ bans[d].owner = o => bans'[d] = bans[d]
      <4>1. ProbeAllowed(bans[c], r) =>
              bans[c].owner \in {Nobody, r} /\ Probing(bans[c], r).owner \in {Nobody, r}
        BY <2>1, ProbingFacts DEF Shape, Owners
      <4> QED BY <1>2, <4>1, RequestAssumption DEF AfterProbe, Shape
    <3> QED BY <1>2, <3>1 DEF AfterProbe, Bystander, KeepsLeases, Marked, Shape
  <2> QED BY <2>1, <2>2 DEF Local
<1>3. CASE AfterDispatch(r)
  <2>1. call[r].at \in Admitting
    BY <1>3 DEF AfterDispatch, Admitting
  <2>2. ASSUME NEW o \in Request \ {r} PROVE Bystander(o)
    <3>1. ASSUME NEW d \in Credential
          PROVE  accounts'[d].owner = o \/ accounts[d].owner = o => accounts'[d] = accounts[d]
      BY <1>3 DEF AfterDispatch, Shape, GoodAccounts, Entries
    <3>2. bans' = bans
      BY <1>3 DEF AfterDispatch
    <3>3. KeepsLeases(o)
      BY <3>1, <3>2 DEF KeepsLeases
    <3>4. requests'[o] = requests[o] /\ call'[o] = call[o] /\ ending'[o] = ending[o]
      BY <1>3 DEF AfterDispatch, Shape
    <3> QED BY <3>3, <3>4 DEF Bystander, Marked
  <2> QED BY <2>1, <2>2 DEF Local
<1> QED BY <1>1, <1>2, <1>3 DEF After

\* What the release of a rejected attempt does to the stores.
LEMMA ReleaseEffects ==
  ASSUME Shape, NEW r \in Request, ReleaseAttempt(r), NEW d \in Credential
  PROVE  /\ accounts'[d].owner = accounts[d].owner
         /\ accounts'[d].dispatched = accounts[d].dispatched
         /\ accounts'[d].current => accounts[d].current
         /\ requests[r].auth = d /\ requests[r].auth \in Indexed => ~accounts'[d].current
         /\ bans'[d].owner = bans[d].owner
         /\ bans'[d].current => bans[d].current
<1> DEFINE c == requests[r].auth
<1>1. accounts'[d] = IF c = d /\ c \in Indexed THEN Evidence(accounts[d], TRUE) ELSE accounts[d]
  BY DEF ReleaseAttempt, Shape
<1>2. bans'[d] = IF c = d /\ ~bans[d].on THEN Cooldown ELSE bans[d]
  BY DEF ReleaseAttempt, Shape
<1>3. /\ Evidence(accounts[d], TRUE).owner = accounts[d].owner
      /\ Evidence(accounts[d], TRUE).dispatched = accounts[d].dispatched
      /\ ~Evidence(accounts[d], TRUE).current
  BY EvidenceFacts DEF Shape
<1>4. ~bans[d].on => bans[d].owner = Nobody
  BY DEF Shape, GoodBans
<1>5. Cooldown.owner = Nobody /\ ~Cooldown.current
  BY DEF Cooldown, NoBan
<1> QED BY <1>1, <1>2, <1>3, <1>4, <1>5

\* The release of a rejected attempt is local.
LEMMA LocalRejection ==
  ASSUME Shape, NEW r \in Request, Rejection(r)
  PROVE  Local(r)
<1>1. CASE ReleaseAttempt(r)
  <2> DEFINE c == requests[r].auth
  <2>1. \A d \in Credential :
           /\ accounts'[d].owner = accounts[d].owner
           /\ accounts'[d].dispatched = accounts[d].dispatched
           /\ accounts'[d].current => accounts[d].current
           /\ c = d /\ c \in Indexed => ~accounts'[d].current
           /\ bans'[d].owner = bans[d].owner
           /\ bans'[d].current => bans[d].current
    BY <1>1, ReleaseEffects
  <2>2. NoNewLease
    BY <2>1 DEF NoNewLease
  <2>3. ASSUME NEW o \in Request \ {r} PROVE Bystander(o)
    <3>1. PICK b \in BOOLEAN : b = (c \in Indexed /\ OnCredential(o, c))
      BY DEF OnCredential
    <3>2. requests'[o] = MarkIf(b, requests[o])
      BY <1>1, <3>1 DEF ReleaseAttempt
    <3>3. /\ requests'[o].life = requests[o].life /\ requests'[o].auth = requests[o].auth
          /\ requests'[o].overlapped = requests[o].overlapped
          /\ requests'[o].upstream = requests[o].upstream
          /\ requests'[o].after429 = requests[o].after429
          /\ requests'[o].afterQuota = (requests[o].afterQuota \/ b)
      <4>1. requests[o] \in RequestEntries
        BY DEF Shape
      <4> QED BY <3>2, <4>1, MarkFacts
    <3>4. Marked(o)
      <4>1. b => requests[o].upstream # "no" /\ requests[o].auth = c /\ c \in Indexed
        BY <3>1 DEF OnCredential
      <4>2. requests[o].after429 \in BOOLEAN /\ requests[o].afterQuota \in BOOLEAN
        BY DEF Shape, RequestEntries
      <4>3. b /\ c \in Credential => ~accounts'[c].current
        BY <4>1, <2>1
      <4> QED BY <3>3, <4>1, <4>2, <4>3 DEF Marked
    <3>5. call'[o] = call[o] /\ ending'[o] = ending[o]
      BY <1>1 DEF ReleaseAttempt, Shape
    <3> QED BY <2>1, <3>3, <3>4, <3>5 DEF Bystander, KeepsLeases
  <2> QED BY <2>2, <2>3 DEF Local
<1>2. CASE RejectedGuard(r)
  <2>1. \A d \in Credential :
          IF accounts[d].owner = r THEN accounts'[d].owner = Nobody /\ ~accounts'[d].dispatched
          ELSE accounts'[d] = accounts[d]
    BY <1>2, FailedFacts DEF RejectedGuard
  <2> QED BY <1>2, <2>1, RequestAssumption
          DEF RejectedGuard, Local, NoNewLease, Bystander, KeepsLeases, Marked, Shape
<1>3. CASE RejectedBan(r)
  <2>1. \A d \in Credential :
          IF bans[d].owner = r THEN bans'[d].owner = Nobody ELSE bans'[d] = bans[d]
    BY <1>3, FailedFacts DEF RejectedBan
  <2> QED BY <1>3, <2>1, RequestAssumption
          DEF RejectedBan, Local, NoNewLease, Bystander, KeepsLeases, Marked, Shape
<1> QED BY <1>1, <1>2, <1>3 DEF Rejection

\* A terminal callback is local and hands out no lease.
LEMMA LocalCompletion ==
  ASSUME Shape, NEW r \in Request, Completion(r)
  PROVE  Local(r) /\ NoNewLease
<1>1. ASSUME NEW success \in BOOLEAN, Complete(r, success) PROVE Local(r) /\ NoNewLease
  BY <1>1 DEF Complete, Local, NoNewLease, Bystander, KeepsLeases, Marked, Shape, stores
<1>2. CASE CompleteGuard(r)
  <2>1. ending[r].success \in BOOLEAN
    BY DEF Shape, Endings
  <2>2. \A d \in Credential :
          IF accounts[d].owner = r THEN accounts'[d].owner = Nobody /\ ~accounts'[d].dispatched
          ELSE accounts'[d] = accounts[d]
    BY <1>2, <2>1, SettledFacts DEF CompleteGuard
  <2> QED BY <1>2, <2>2, RequestAssumption
          DEF CompleteGuard, Local, NoNewLease, Bystander, KeepsLeases, Marked, Shape
<1>3. CASE CompleteBan(r)
  <2>1. ending[r].success \in BOOLEAN
    BY DEF Shape, Endings
  <2>2. \A d \in Credential :
          IF bans[d].owner = r THEN bans'[d].owner = Nobody ELSE bans'[d] = bans[d]
    BY <1>3, <2>1, SettledFacts DEF CompleteBan
  <2> QED BY <1>3, <2>2, RequestAssumption
          DEF CompleteBan, Local, NoNewLease, Bystander, KeepsLeases, Marked, Shape
<1>4. CASE CompleteSlot(r)
  BY <1>4 DEF CompleteSlot, Local, NoNewLease, Bystander, KeepsLeases, Marked, Shape, stores
<1> QED BY <1>1, <1>2, <1>3, <1>4 DEF Completion

\* The step leaves every execution alone.
StoresOnly == (\A o \in Request : Bystander(o)) /\ NoNewLease

\* A report of usage or quota leaves every execution alone, but for the marks.
LEMMA ReportsLeases ==
  ASSUME Shape, NEW c \in Credential, Reports(c)
  PROVE  StoresOnly
<1>1. CASE Report429(c)
  <2>1. \A d \in Credential : /\ bans'[d].owner = bans[d].owner
                              /\ bans'[d].current => bans[d].current
                              /\ d = c => ~bans'[d].current
    BY <1>1, Recorded429Facts DEF Report429, Shape
  <2>2. ASSUME NEW o \in Request
        PROVE  /\ requests'[o].life = requests[o].life /\ requests'[o].auth = requests[o].auth
               /\ requests'[o].overlapped = requests[o].overlapped
               /\ requests'[o].upstream = requests[o].upstream
               /\ requests'[o].afterQuota = requests[o].afterQuota
               /\ requests'[o].after429 => requests[o].after429 \/ OnCredential(o, c)
               /\ requests'[o].after429 \in BOOLEAN
               /\ ~OnCredential(o, c) => requests'[o].after429 = requests[o].after429
    <3>1. PICK b \in BOOLEAN : b = OnCredential(o, c)
      BY DEF OnCredential
    <3>2. requests'[o] = [requests[o] EXCEPT !.after429 = @ \/ b]
      BY <1>1, <3>1 DEF Report429
    <3> QED BY <3>1, <3>2 DEF Shape, RequestEntries
  <2>3. ASSUME NEW o \in Request PROVE Bystander(o)
    <3>1. Marked(o)
      <4>1. OnCredential(o, c) => requests[o].upstream # "no" /\ requests[o].auth = c
        BY DEF OnCredential
      <4> QED BY <2>1, <2>2, <4>1 DEF Marked
    <3>2. accounts' = accounts /\ call' = call /\ ending' = ending
      BY <1>1 DEF Report429
    <3> QED BY <2>1, <2>2, <3>1, <3>2 DEF Bystander, KeepsLeases
  <2>4. NoNewLease
    BY <1>1, <2>1 DEF NoNewLease, Report429
  <2> QED BY <2>3, <2>4 DEF StoresOnly
<1>2. ASSUME Require(c) \/ ObserveExhausted(c) PROVE StoresOnly
  <2>1. \A d \in Credential : /\ accounts'[d].owner = accounts[d].owner
                              /\ accounts'[d].dispatched = accounts[d].dispatched
                              /\ accounts'[d].current => accounts[d].current
                              /\ d = c => ~accounts'[d].current
    <3>1. PICK cool \in BOOLEAN : accounts' = [accounts EXCEPT ![c] = Evidence(@, cool)]
      BY <1>2 DEF Require, ObserveExhausted
    <3> QED BY <3>1, EvidenceFacts DEF Shape
  <2>2. ASSUME NEW o \in Request PROVE Bystander(o)
    <3>1. PICK b \in BOOLEAN : b = OnCredential(o, c)
      BY DEF OnCredential
    <3>2. requests'[o] = MarkIf(b, requests[o])
      BY <1>2, <3>1 DEF Require, ObserveExhausted
    <3>3. /\ requests'[o].life = requests[o].life /\ requests'[o].auth = requests[o].auth
          /\ requests'[o].overlapped = requests[o].overlapped
          /\ requests'[o].upstream = requests[o].upstream
          /\ requests'[o].after429 = requests[o].after429
          /\ requests'[o].afterQuota = (requests[o].afterQuota \/ b)
      <4>1. requests[o] \in RequestEntries
        BY DEF Shape
      <4> QED BY <3>2, <4>1, MarkFacts
    <3>4. Marked(o)
      <4>1. b => requests[o].upstream # "no" /\ requests[o].auth = c
        BY <3>1 DEF OnCredential
      <4>2. requests[o].after429 \in BOOLEAN /\ requests[o].afterQuota \in BOOLEAN
        BY DEF Shape, RequestEntries
      <4> QED BY <2>1, <3>3, <4>1, <4>2 DEF Marked
    <3>5. bans' = bans /\ call' = call /\ ending' = ending
      BY <1>2 DEF Require, ObserveExhausted
    <3> QED BY <2>1, <3>3, <3>4, <3>5 DEF Bystander, KeepsLeases
  <2>3. NoNewLease
    BY <1>2, <2>1 DEF NoNewLease, Require, ObserveExhausted
  <2> QED BY <2>2, <2>3 DEF StoresOnly
<1>3. CASE ObserveHealthy(c)
  <2>1. \A d \in Credential : /\ accounts'[d].owner = accounts[d].owner
                              /\ accounts'[d].dispatched = accounts[d].dispatched
                              /\ accounts'[d].current = accounts[d].current
    BY <1>3 DEF ObserveHealthy, Shape, GoodAccounts, Entries
  <2> QED BY <1>3, <2>1 DEF ObserveHealthy, StoresOnly, NoNewLease, Bystander, KeepsLeases, Marked
<1>4. ASSUME NEW success \in BOOLEAN, UsageDone(c, success) PROVE StoresOnly
  <2>1. bans'[c].owner = Nobody
    BY <1>4 DEF UsageDone, Shape, NoBan, Cooldown
  <2>2. \A d \in Credential : d # c => bans'[d] = bans[d]
    BY <1>4 DEF UsageDone, Shape
  <2> QED BY <1>4, <2>1, <2>2, RequestAssumption
          DEF UsageDone, StoresOnly, NoNewLease, Bystander, KeepsLeases, Marked
<1> QED BY <1>1, <1>2, <1>3, <1>4 DEF Reports

\* The passing of deadlines leaves every execution alone.
LEMMA TimeLeases ==
  ASSUME Shape, NEW c \in Credential, Time(c)
  PROVE  StoresOnly
<1>1. \A d \in Credential : /\ accounts'[d].owner = accounts[d].owner
                            /\ accounts'[d].dispatched = accounts[d].dispatched
                            /\ accounts'[d].current = accounts[d].current
                            /\ bans'[d].owner = bans[d].owner
                            /\ bans'[d].current = bans[d].current
  <2>1. CASE GuardCools(c)
    BY <2>1 DEF GuardCools, Shape, GoodAccounts, Entries
  <2>2. CASE ReservationAges(c)
    BY <2>2 DEF ReservationAges, Shape, GoodAccounts, Entries
  <2>3. CASE BanCools(c)
    BY <2>3 DEF BanCools, Shape, GoodBans, BanEntries
  <2>4. CASE ProbeLeaseExpires(c)
    BY <2>4 DEF ProbeLeaseExpires, Shape, GoodBans, BanEntries
  <2> QED BY <2>1, <2>2, <2>3, <2>4 DEF Time
<1>2. requests' = requests /\ call' = call /\ ending' = ending
  BY DEF Time, GuardCools, ReservationAges, BanCools, ProbeLeaseExpires
<1> QED BY <1>1, <1>2 DEF StoresOnly, NoNewLease, Bystander, KeepsLeases, Marked

\* Reconciliation leaves every execution alone: it lifts no entry with a probe.
LEMMA ReconcileLeases ==
  ASSUME Shape, NEW c \in Credential, Reconcile(c)
  PROVE  StoresOnly
<1>1. bans[c].owner = Nobody /\ bans'[c].owner = Nobody
  BY DEF Reconcile, Shape, GoodBans, NoBan
<1>2. \A d \in Credential : d # c => bans'[d] = bans[d]
  BY DEF Reconcile, Shape
<1> QED BY <1>1, <1>2, RequestAssumption
        DEF Reconcile, StoresOnly, NoNewLease, Bystander, KeepsLeases, Marked

\* A registration leaves every other execution alone.
LEMMA BeforeLeases ==
  ASSUME Shape, NEW r \in Request, Before(r)
  PROVE  Local(r) /\ NoNewLease
  BY DEF Before, stores, Shape, Local, NoNewLease, Bystander, KeepsLeases, Marked

-----------------------------------------------------------------------------
\* The parts of the invariant about one execution.
OwnInvariant(r) == PhasesOf(r) /\ AdmissionOf(r) /\ LeaseOf(r) /\ FreshOf(r) /\ SettledOf(r)

\* A pick keeps the invariant of its execution, and puts no probe in flight.
LEMMA OwnPick ==
  ASSUME Shape, NEW r \in Request, OwnInvariant(r), Pick(r)
  PROVE  /\ OwnInvariant(r)'
         /\ \A c \in Credential : ~ProbesOn(r, c)'
         /\ call'[r].at \in Picking \cup Admitting =>
               call[r].at \in Picking \cup Admitting \/ SelectionMuFree
<1>1. ASSUME NEW c \in Credential, PickRank(r, c)
      PROVE  /\ OwnInvariant(r)'
             /\ requests'[r].upstream = "no"
             /\ SelectionMuFree
  <2>1. /\ requests'[r].upstream = "no" /\ ~requests'[r].after429 /\ ~requests'[r].afterQuota
        /\ requests'[r].life = requests[r].life
        /\ requests'[r].overlapped = (requests[r].overlapped \/ ending[r].at # "none")
    BY <1>1, RequestFacts DEF PickRank, Shape
  <2>2. /\ call'[r].at = "ranked" /\ call'[r].auth = c
        /\ call'[r].owner = IF requests[r].life = "registered" THEN r ELSE Nobody
    BY <1>1 DEF PickRank, Shape, NoCall
  <2>3. /\ call[r] = NoCall /\ ~ending[r].success /\ ending' = ending
        /\ accounts' = accounts /\ bans' = bans
    BY <1>1 DEF PickRank, CallStarts, stores
  <2>4. PhasesOf(r)'
    BY <2>1, <2>2, <2>3 DEF OwnInvariant, PhasesOf, Picking, Admitting
  <2>5. AdmissionOf(r)' /\ LeaseOf(r)' /\ FreshOf(r)'
    BY <2>1, <2>2 DEF AdmissionOf, LeaseOf, FreshOf, Admitting
  <2>6. SettledOf(r)'
    BY <2>1, <2>2, <2>3 DEF OwnInvariant, SettledOf, PhasesOf, Admitting
  <2> QED BY <1>1, <2>1, <2>4, <2>5, <2>6 DEF OwnInvariant, PickRank
<1>2. ASSUME PickLease(r)
      PROVE  /\ OwnInvariant(r)'
             /\ requests'[r].upstream = "no"
             /\ call[r].at \in Picking
  <2>1. /\ call[r].at = "ranked" /\ call[r] # NoCall /\ requests[r].upstream = "no"
        /\ requests' = requests /\ ending' = ending /\ accounts' = accounts
    BY <1>2 DEF PickLease, NoCall, OwnInvariant, PhasesOf
  <2>2. \/ call'[r].at = "leased" /\ call'[r].auth = call[r].auth /\ call'[r].owner = call[r].owner
        \/ call'[r] = NoCall
    BY <1>2 DEF PickLease, Shape, Calls
  <2>3. NoCall.at = "idle" /\ NoCall.owner = Nobody
    BY DEF NoCall
  <2>4. PhasesOf(r)'
    BY <2>1, <2>2, <2>3 DEF OwnInvariant, PhasesOf, Picking, Admitting
  <2>5. AdmissionOf(r)' /\ LeaseOf(r)' /\ FreshOf(r)'
    BY <2>1, <2>2, <2>3 DEF AdmissionOf, LeaseOf, FreshOf, Admitting
  <2>6. SettledOf(r)'
    <3> SUFFICES ASSUME ~requests[r].overlapped PROVE SettledOf(r)'
      BY <2>1 DEF SettledOf
    <3>1. ending[r].at = "none"
      BY <2>1 DEF OwnInvariant, SettledOf
    <3>2. ASSUME requests[r].life = "ended", NEW c \in Credential PROVE bans'[c].owner # r
      <4>1. call[r].owner = Nobody
        BY <2>1, <3>2 DEF OwnInvariant, SettledOf, Picking
      <4>2. call[r].auth \in Credential
        BY <2>1 DEF OwnInvariant, PhasesOf, Picking
      <4>3. ProbeAllowed(bans[call[r].auth], Nobody) =>
               Probing(bans[call[r].auth], Nobody).owner = Nobody
        BY <4>2, ProbingFacts DEF Shape, Owners
      <4> QED BY <1>2, <3>2, <4>1, <4>2, <4>3, RequestAssumption
              DEF PickLease, Shape, OwnInvariant, SettledOf
    <3> QED BY <2>1, <2>2, <2>3, <3>1, <3>2
            DEF OwnInvariant, SettledOf, Picking, Admitting
  <2> QED BY <2>1, <2>4, <2>5, <2>6 DEF OwnInvariant, Picking
<1>3. ASSUME PickAdmit(r)
      PROVE  /\ OwnInvariant(r)'
             /\ requests'[r].upstream = "no"
             /\ call[r].at \in Picking
  <2>1. /\ call[r].at = "leased" /\ call[r] # NoCall /\ requests[r].upstream = "no"
        /\ ending' = ending /\ accounts' = accounts /\ bans' = bans /\ call'[r] = NoCall
    BY <1>3 DEF PickAdmit, NoCall, stores, Shape, OwnInvariant, PhasesOf
  <2>2. /\ requests'[r].upstream = requests[r].upstream
        /\ requests'[r].after429 = requests[r].after429
        /\ requests'[r].afterQuota = requests[r].afterQuota
        /\ requests'[r].life = requests[r].life
        /\ requests'[r].overlapped = requests[r].overlapped
    BY <1>3 DEF PickAdmit, Shape, RequestEntries
  <2>3. NoCall.at = "idle" /\ NoCall.owner = Nobody
    BY DEF NoCall
  <2>4. PhasesOf(r)'
    BY <2>1, <2>2, <2>3 DEF OwnInvariant, PhasesOf, Picking, Admitting
  <2>5. AdmissionOf(r)' /\ LeaseOf(r)' /\ FreshOf(r)'
    BY <2>1, <2>2, <2>3 DEF AdmissionOf, LeaseOf, FreshOf, Admitting
  <2>6. SettledOf(r)'
    BY <2>1, <2>2, <2>3 DEF OwnInvariant, SettledOf, Picking, Admitting
  <2> QED BY <2>1, <2>2, <2>4, <2>5, <2>6 DEF OwnInvariant, Picking
<1> QED BY <1>1, <1>2, <1>3 DEF Pick, ProbesOn

\* An after-auth call keeps the invariant of its execution; what it puts in flight has
\* passed both stores.
LEMMA OwnAfter ==
  ASSUME Shape, NEW r \in Request, OwnInvariant(r), After(r)
  PROVE  /\ OwnInvariant(r)'
         /\ \A c \in Credential :
               ProbesOn(r, c)' => call[r].at = "probed" /\ call[r].auth = c
         /\ call'[r].at \in Picking \cup Admitting =>
               call[r].at \in Picking \cup Admitting \/ SelectionMuFree
<1>0. NoCall.at = "idle" /\ NoCall.owner = Nobody
  BY DEF NoCall
<1>1. ASSUME NEW c \in Credential, AfterReserve(r, c)
      PROVE  /\ OwnInvariant(r)'
             /\ requests'[r].upstream = "no"
             /\ SelectionMuFree
  <2>1. /\ requests'[r].upstream = "no" /\ ~requests'[r].after429 /\ ~requests'[r].afterQuota
        /\ ending'[r] = ending[r] /\ call[r] = NoCall /\ ~ending[r].success
        /\ \/ /\ requests[r].life = "ended" /\ requests'[r] = requests[r]
           \/ /\ requests[r].life # "ended"
              /\ requests'[r].life = "registered" /\ requests'[r].auth = c
              /\ requests'[r].overlapped = (requests[r].overlapped \/ ending[r].at # "none")
    <3> DEFINE rq == [requests[r] EXCEPT !.life = "registered", !.auth = c]
    <3>1. rq \in RequestEntries /\ rq.life = "registered" /\ rq.auth = c
          /\ rq.overlapped = requests[r].overlapped
      BY DEF Shape, RequestEntries
    <3>2. CASE requests[r].life = "ended"
      BY <1>1, <3>2 DEF AfterReserve, CallStarts, OwnInvariant, PhasesOf
    <3>3. CASE requests[r].life # "ended"
      <4>1. requests'[r] = Begun(r, rq)
        BY <1>1, <3>3 DEF AfterReserve, Shape
      <4> HIDE DEF rq
      <4> QED BY <1>1, <3>1, <3>3, <4>1, RequestFacts DEF AfterReserve, CallStarts
    <3> QED BY <3>2, <3>3
  <2>2. PhasesOf(r)'
    BY <1>0, <1>1, <2>1, ReserveEffects DEF OwnInvariant, PhasesOf, Picking, Admitting
  <2>3. LeaseOf(r)' /\ FreshOf(r)'
    BY <2>1 DEF LeaseOf, FreshOf
  <2>4. AdmissionOf(r)'
    <3> SUFFICES ASSUME call'[r].at \in Admitting PROVE AdmissionOf(r)'
      BY DEF AdmissionOf
    <3>1. call'[r].at = "reserved" /\ call'[r].auth = c /\ accounts'[c].owner \in {Nobody, r}
      BY <1>0, <1>1, <2>1, ReserveEffects DEF Admitting
    <3>2. accounts'[c].owner = Nobody => ~accounts'[c].dispatched
      <4>1. Shape'
        BY <1>1, ShapeAfter DEF After
      <4> QED BY <4>1 DEF Shape, GoodAccounts
    <3>3. \A d \in Credential : d # c => accounts'[d].owner # r /\ bans'[d].owner # r
      BY <1>1, ReserveEffects, RequestAssumption
    <3> QED BY <3>1, <3>2, <3>3 DEF AdmissionOf
  <2>5. SettledOf(r)'
    <3> SUFFICES ASSUME ~requests'[r].overlapped PROVE SettledOf(r)'
      BY DEF SettledOf
    <3>1. ending'[r].at = "none" /\ ~requests[r].overlapped
      BY <2>1 DEF OwnInvariant, PhasesOf, Shape, RequestEntries
    <3>2. ASSUME requests'[r].life = "ended"
          PROVE  /\ call'[r].at \notin Picking
                 /\ call'[r].at \in Admitting => ~call'[r].guarded
                 /\ \A d \in Credential : /\ ~(accounts'[d].owner = r /\ accounts'[d].dispatched)
                                          /\ bans'[d].owner # r
      <4>1. requests[r].life = "ended"
        BY <2>1, <3>2
      <4>2. \A d \in Credential : /\ ~(accounts[d].owner = r /\ accounts[d].dispatched)
                                  /\ bans[d].owner # r
        BY <3>1, <4>1 DEF OwnInvariant, SettledOf
      <4>3. ASSUME NEW d \in Credential
            PROVE  ~(accounts'[d].owner = r /\ accounts'[d].dispatched) /\ bans'[d].owner # r
        BY <1>1, <4>2, ReserveEffects, RequestAssumption
      <4>4. call'[r].at \notin Picking /\ (call'[r].at \in Admitting => ~call'[r].guarded)
        BY <1>0, <1>1, <2>1, <4>1, ReserveEffects DEF Picking, Admitting
      <4> QED BY <4>3, <4>4
    <3> QED BY <3>1, <3>2 DEF SettledOf
  <2> QED BY <1>1, <2>1, <2>2, <2>3, <2>4, <2>5 DEF OwnInvariant, AfterReserve
<1>2. ASSUME AfterProbe(r)
      PROVE  /\ OwnInvariant(r)'
             /\ requests'[r].upstream = "no"
             /\ call[r].at \in Admitting
  <2> DEFINE c == call[r].auth
  <2>1. /\ call[r].at = "reserved" /\ call[r] # NoCall /\ requests[r].upstream = "no"
        /\ requests' = requests /\ ending' = ending /\ accounts' = accounts
        /\ c \in Credential
    BY <1>2, <1>0 DEF AfterProbe, OwnInvariant, PhasesOf, Admitting
  <2>2. \/ call'[r] = NoCall /\ bans' = bans
        \/ /\ call'[r].at = "probed" /\ call'[r].auth = c
           /\ call'[r].owner = call[r].owner /\ call'[r].guarded = call[r].guarded
           /\ ProbeAllowed(bans[c], r)
           /\ ~(bans[c].on /\ requests[r].life = "ended")
           /\ bans'[c] = Probing(bans[c], r)
           /\ \A d \in Credential : d # c => bans'[d] = bans[d]
    BY <1>2, <2>1 DEF AfterProbe, Shape, Calls
  <2>3. ProbeAllowed(bans[c], r) =>
          /\ Probing(bans[c], r).owner \in {Nobody, r}
          /\ ~bans[c].on => Probing(bans[c], r) = bans[c]
    BY <2>1, ProbingFacts DEF Shape, Owners
  <2>4. PhasesOf(r)'
    BY <1>0, <2>1, <2>2 DEF OwnInvariant, PhasesOf, Picking, Admitting
  <2>5. LeaseOf(r)' /\ FreshOf(r)'
    BY <2>1 DEF LeaseOf, FreshOf
  <2>6. AdmissionOf(r)'
    BY <1>0, <2>1, <2>2, <2>3 DEF OwnInvariant, AdmissionOf, Admitting
  <2>7. SettledOf(r)'
    <3> SUFFICES ASSUME ~requests[r].overlapped PROVE SettledOf(r)'
      BY <2>1 DEF SettledOf
    <3>1. ending[r].at = "none"
      BY <2>1 DEF OwnInvariant, SettledOf
    <3>2. requests[r].life = "ended" => \A d \in Credential : bans'[d] = bans[d]
      BY <2>2, <2>3
    <3> QED BY <1>0, <2>1, <2>2, <3>1, <3>2 DEF OwnInvariant, SettledOf, Picking, Admitting
  <2> QED BY <2>1, <2>4, <2>5, <2>6, <2>7 DEF OwnInvariant, Admitting
<1>3. ASSUME AfterDispatch(r)
      PROVE  /\ OwnInvariant(r)'
             /\ \A c \in Credential : ProbesOn(r, c)' => call[r].auth = c
             /\ call[r].at = "probed"
  <2> DEFINE c == call[r].auth
             leased == call[r].guarded /\ accounts[c].owner = r
  <2>1. /\ call[r].at = "probed" /\ call[r] # NoCall /\ requests[r].upstream = "no"
        /\ call'[r] = NoCall /\ ending' = ending /\ bans' = bans
        /\ c \in Credential
        /\ ~requests[r].after429 /\ ~requests[r].afterQuota
    BY <1>3, <1>0 DEF AfterDispatch, OwnInvariant, PhasesOf, Admitting, Shape
  <2>2. /\ \A d \in Credential : /\ d # c \/ ~leased => accounts'[d] = accounts[d]
                                 /\ accounts'[d].owner = accounts[d].owner
        /\ leased => accounts'[c].dispatched
    BY <1>3, <2>1 DEF AfterDispatch, Shape, GoodAccounts, Entries
  <2>3. \/ requests'[r] = requests[r]
        \/ /\ requests[r].life = "registered"
           /\ requests'[r].upstream = IF leased \/ bans[c].owner = r THEN "probe" ELSE "plain"
           /\ requests'[r].life = requests[r].life /\ requests'[r].auth = requests[r].auth
           /\ requests'[r].overlapped = requests[r].overlapped
           /\ requests'[r].after429 = requests[r].after429
           /\ requests'[r].afterQuota = requests[r].afterQuota
    <3>1. CASE requests' = requests
      BY <3>1
    <3>2. CASE /\ requests[r].life = "registered"
               /\ requests' = [requests EXCEPT
                     ![r].dispatched = TRUE,
                     ![r].upstream = IF leased \/ bans[c].owner = r THEN "probe" ELSE "plain"]
      BY <3>2 DEF Shape, RequestEntries
    <3>3. \/ requests' = requests
          \/ /\ requests[r].life = "registered"
             /\ requests' = [requests EXCEPT
                     ![r].dispatched = TRUE,
                     ![r].upstream = IF leased \/ bans[c].owner = r THEN "probe" ELSE "plain"]
      BY <1>3 DEF AfterDispatch
    <3> QED BY <3>1, <3>2, <3>3
  <2>4. requests'[r].upstream # "no" => requests'[r].auth = c
    BY <2>1, <2>3 DEF OwnInvariant, PhasesOf, Admitting
  <2>5. PhasesOf(r)'
    BY <1>0, <2>1, <2>3 DEF OwnInvariant, PhasesOf, Picking, Admitting
  <2>6. AdmissionOf(r)'
    BY <1>0, <2>1 DEF AdmissionOf, Admitting
  <2>7. LeaseOf(r)'
    BY <2>1, <2>2, <2>3, <2>4 DEF LeaseOf
  <2>8. FreshOf(r)'
    <3> SUFFICES ASSUME requests'[r].upstream # "no" PROVE FreshOf(r)'
      BY DEF FreshOf
    <3>1. ~requests'[r].after429 /\ ~requests'[r].afterQuota
      BY <2>1, <2>3
    <3>2. \A d \in Credential : d # c => accounts'[d].owner # r /\ bans'[d].owner # r
      BY <2>1, <2>2 DEF OwnInvariant, AdmissionOf, Admitting
    <3> QED BY <2>4, <3>1, <3>2 DEF FreshOf
  <2>9. SettledOf(r)'
    <3> SUFFICES ASSUME ~requests[r].overlapped PROVE SettledOf(r)'
      BY <2>3 DEF SettledOf
    <3>1. ending[r].at = "none"
      BY <2>1 DEF OwnInvariant, SettledOf
    <3>2. requests'[r].life = "ended" => requests[r].life = "ended" /\ ~leased
      BY <2>1, <2>3 DEF OwnInvariant, SettledOf, Admitting
    <3> QED BY <1>0, <2>1, <2>2, <3>1, <3>2 DEF OwnInvariant, SettledOf, Picking, Admitting
  <2>10. \A d \in Credential : ProbesOn(r, d)' => c = d
    BY <2>4 DEF ProbesOn
  <2> QED BY <2>1, <2>5, <2>6, <2>7, <2>8, <2>9, <2>10 DEF OwnInvariant
<1> QED BY <1>1, <1>2, <1>3 DEF After, ProbesOn, Admitting

\* The release of a rejected attempt keeps the invariant of its execution.
LEMMA OwnRejection ==
  ASSUME Shape, NEW r \in Request, OwnInvariant(r), Rejection(r)
  PROVE  /\ OwnInvariant(r)'
         /\ \A c \in Credential : ~ProbesOn(r, c)'
         /\ call'[r].at \notin Picking \cup Admitting
<1>0. NoCall.at = "idle" /\ NoCall.owner = Nobody
  BY DEF NoCall
<1>1. /\ call'[r].at \in {"rejected", "settled"} \/ call'[r] = NoCall
      /\ call'[r].owner \in {Nobody, call[r].owner}
      /\ ending'[r] = ending[r]
  <2>1. CASE ReleaseAttempt(r)
    BY <2>1 DEF ReleaseAttempt, Shape, NoCall
  <2>2. CASE RejectedGuard(r)
    BY <2>2 DEF RejectedGuard, Shape, Calls
  <2>3. CASE RejectedBan(r)
    BY <1>0, <2>3 DEF RejectedBan, Shape
  <2> QED BY <2>1, <2>2, <2>3 DEF Rejection
<1>2. /\ requests'[r].upstream = "no" /\ ~requests'[r].after429 /\ ~requests'[r].afterQuota
      /\ requests'[r].life = requests[r].life
      /\ ~requests'[r].overlapped => ~requests[r].overlapped /\ ending[r].at = "none"
      /\ ~ending[r].success
  <2>1. CASE ReleaseAttempt(r)
    <3> DEFINE rq == Detached(requests[r])
    <3>1. requests'[r] = Begun(r, rq) /\ ~ending[r].success
      BY <2>1 DEF ReleaseAttempt, CallStarts
    <3>2. /\ rq \in RequestEntries /\ rq.life = requests[r].life
          /\ rq.overlapped = requests[r].overlapped
      BY RequestFacts DEF Shape
    <3>3. rq.overlapped \in BOOLEAN
      BY <3>2 DEF RequestEntries
    <3> HIDE DEF rq
    <3>4. /\ Begun(r, rq).upstream = "no" /\ ~Begun(r, rq).after429 /\ ~Begun(r, rq).afterQuota
          /\ Begun(r, rq).life = rq.life
          /\ Begun(r, rq).overlapped = (rq.overlapped \/ ending[r].at # "none")
      BY <3>2, RequestFacts
    <3> QED BY <3>1, <3>2, <3>3, <3>4
  <2>2. CASE RejectedGuard(r) \/ RejectedBan(r)
    <3>1. requests' = requests /\ call[r] # NoCall
      BY <1>0, <2>2 DEF RejectedGuard, RejectedBan
    <3> QED BY <3>1 DEF OwnInvariant, PhasesOf, SettledOf
  <2> QED BY <2>1, <2>2 DEF Rejection
<1>3. \A d \in Credential :
        /\ accounts'[d].owner = r /\ accounts'[d].dispatched =>
              accounts[d].owner = r /\ accounts[d].dispatched
        /\ bans'[d].owner = r => bans[d].owner = r
  <2>1. CASE ReleaseAttempt(r)
    BY <2>1, ReleaseEffects
  <2>2. CASE RejectedGuard(r)
    BY <2>2, FailedFacts, RequestAssumption DEF RejectedGuard
  <2>3. CASE RejectedBan(r)
    BY <2>3, FailedFacts, RequestAssumption DEF RejectedBan
  <2> QED BY <2>1, <2>2, <2>3 DEF Rejection
<1>4. call'[r].at \notin Picking \cup Admitting
  BY <1>0, <1>1 DEF Picking, Admitting
<1>5. PhasesOf(r)'
  BY <1>1, <1>2, <1>4 DEF OwnInvariant, PhasesOf
<1>6. AdmissionOf(r)' /\ LeaseOf(r)' /\ FreshOf(r)'
  BY <1>2, <1>4 DEF AdmissionOf, LeaseOf, FreshOf
<1>7. SettledOf(r)'
  BY <1>1, <1>2, <1>3, <1>4 DEF OwnInvariant, SettledOf
<1> QED BY <1>2, <1>4, <1>5, <1>6, <1>7 DEF OwnInvariant, ProbesOn

\* A terminal callback keeps the invariant of its execution.
LEMMA OwnCompletion ==
  ASSUME Shape, NEW r \in Request, OwnInvariant(r), Completion(r)
  PROVE  /\ OwnInvariant(r)'
         /\ \A c \in Credential : ~ProbesOn(r, c)'
         /\ call'[r] = call[r]
<1>1. ASSUME NEW success \in BOOLEAN, Complete(r, success)
      PROVE  OwnInvariant(r)' /\ ending'[r] # NotEnding /\ call'[r] = call[r]
  <2>1. /\ call' = call /\ accounts' = accounts /\ bans' = bans
        /\ requests[r].life = "registered"
        /\ success => requests[r].upstream # "no" /\ call[r] = NoCall
        /\ ending'[r].at = "guard" /\ ending'[r].success = success
    BY <1>1 DEF Complete, stores, Shape
  <2>2. /\ requests'[r].life = requests[r].life /\ requests'[r].auth = requests[r].auth
        /\ requests'[r].upstream = requests[r].upstream
        /\ requests'[r].after429 = requests[r].after429
        /\ requests'[r].afterQuota = requests[r].afterQuota
        /\ requests'[r].overlapped = (call[r] # NoCall)
    BY <1>1 DEF Complete, Shape, RequestEntries
  <2>3. ending'[r] # NotEnding
    BY <2>1 DEF NotEnding
  <2>4. PhasesOf(r)' /\ AdmissionOf(r)' /\ LeaseOf(r)' /\ FreshOf(r)'
    BY <2>1, <2>2, <2>3 DEF OwnInvariant, PhasesOf, AdmissionOf, LeaseOf, FreshOf
  <2>5. SettledOf(r)'
    BY <2>1, <2>2 DEF SettledOf
  <2> QED BY <2>1, <2>3, <2>4, <2>5 DEF OwnInvariant
<1>2. ASSUME CompleteGuard(r) \/ CompleteBan(r)
      PROVE  OwnInvariant(r)' /\ ending'[r] # NotEnding /\ call'[r] = call[r]
  <2>1. /\ call' = call /\ requests' = requests
        /\ ending'[r].success = ending[r].success
        /\ ending[r].at # "none"
        /\ \/ ending'[r].at = "ban" /\ ending[r].at = "guard"
           \/ ending'[r].at = "slot" /\ ending[r].at = "ban"
    BY <1>2 DEF CompleteGuard, CompleteBan, Shape, Endings
  <2>2. \A d \in Credential :
          /\ accounts'[d].owner = r => accounts'[d] = accounts[d] /\ ending[r].at # "guard"
          /\ bans'[d].owner = r => bans'[d] = bans[d] /\ ending[r].at # "ban"
          /\ accounts[d].owner # r => accounts'[d] = accounts[d]
          /\ bans[d].owner # r => bans'[d] = bans[d]
          /\ accounts[d].owner = r => accounts'[d] = accounts[d] \/ ~accounts'[d].dispatched
    <3>1. ending[r].success \in BOOLEAN
      BY DEF Shape, Endings
    <3>2. CASE CompleteGuard(r)
      BY <3>1, <3>2, SettledFacts, RequestAssumption DEF CompleteGuard
    <3>3. CASE CompleteBan(r)
      BY <3>1, <3>3, SettledFacts, RequestAssumption DEF CompleteBan
    <3> QED BY <1>2, <3>2, <3>3
  <2>3. ending'[r] # NotEnding
    BY <2>1 DEF NotEnding
  <2>4. PhasesOf(r)'
    BY <2>1, <2>3 DEF OwnInvariant, PhasesOf
  <2>5. AdmissionOf(r)'
    <3> SUFFICES ASSUME call[r].at \in Admitting PROVE AdmissionOf(r)'
      BY <2>1 DEF AdmissionOf
    <3>1. call[r].auth \in Credential
      BY DEF OwnInvariant, PhasesOf
    <3>2. bans'[call[r].auth].owner \in {Nobody, r} \/ bans'[call[r].auth] = bans[call[r].auth]
      <4>1. ending[r].success \in BOOLEAN
        BY DEF Shape, Endings
      <4>2. CASE CompleteGuard(r)
        BY <4>2 DEF CompleteGuard
      <4>3. CASE CompleteBan(r)
        BY <3>1, <4>1, <4>3, SettledFacts DEF CompleteBan
      <4> QED BY <1>2, <4>2, <4>3
    <3> QED BY <2>1, <2>2, <3>1, <3>2 DEF OwnInvariant, AdmissionOf
  <2>6. LeaseOf(r)'
    BY <2>3 DEF LeaseOf
  <2>7. FreshOf(r)'
    BY <2>1, <2>2 DEF OwnInvariant, FreshOf
  <2>8. SettledOf(r)'
    <3>1. requests[r].life # "ended"
      BY <2>1 DEF OwnInvariant, PhasesOf
    <3> QED BY <2>1, <2>2, <3>1 DEF OwnInvariant, SettledOf
  <2> QED BY <2>1, <2>3, <2>4, <2>5, <2>6, <2>7, <2>8 DEF OwnInvariant
<1>3. ASSUME CompleteSlot(r)
      PROVE  OwnInvariant(r)' /\ requests'[r].upstream = "no" /\ call'[r] = call[r]
  <2>1. /\ call' = call /\ accounts' = accounts /\ bans' = bans
        /\ ending[r].at = "slot" /\ ending'[r] = NotEnding
        /\ call[r].at \notin Admitting
    BY <1>3 DEF CompleteSlot, stores, Shape, GateMuFree
  <2>2. /\ requests'[r].life = "ended" /\ requests'[r].upstream = "no"
        /\ ~requests'[r].after429 /\ ~requests'[r].afterQuota
        /\ requests'[r].overlapped = requests[r].overlapped
    <3> DEFINE rq == Detached(Returned(requests[r]))
    <3>1. /\ rq \in RequestEntries /\ rq.upstream = "no" /\ ~rq.after429 /\ ~rq.afterQuota
          /\ rq.overlapped = requests[r].overlapped
      <4>1. Returned(requests[r]) \in RequestEntries
        BY RequestFacts DEF Shape
      <4> QED BY <4>1, RequestFacts DEF Shape
    <3>2. requests'[r] = [rq EXCEPT !.life = "ended"]
      BY <1>3 DEF CompleteSlot, Shape
    <3> HIDE DEF rq
    <3> QED BY <3>1, <3>2 DEF RequestEntries
  <2>3. NotEnding.at = "none" /\ ~NotEnding.success
    BY DEF NotEnding
  <2>4. PhasesOf(r)' /\ AdmissionOf(r)' /\ LeaseOf(r)' /\ FreshOf(r)'
    BY <2>1, <2>2, <2>3 DEF OwnInvariant, PhasesOf, AdmissionOf, LeaseOf, FreshOf
  <2>5. SettledOf(r)'
    BY <2>1, <2>2, <2>3 DEF OwnInvariant, SettledOf, NoCall, Picking
  <2> QED BY <2>1, <2>2, <2>4, <2>5 DEF OwnInvariant
<1> QED BY <1>1, <1>2, <1>3 DEF Completion, ProbesOn

\* A registration keeps the invariant of its execution.
LEMMA OwnBefore ==
  ASSUME Shape, NEW r \in Request, OwnInvariant(r), Before(r)
  PROVE  /\ OwnInvariant(r)'
         /\ \A c \in Credential : ~ProbesOn(r, c)'
         /\ call'[r] = call[r]
<1>1. /\ call' = call /\ accounts' = accounts /\ bans' = bans /\ ending' = ending
      /\ requests[r].life = "new" /\ requests'[r].life = "registered"
      /\ requests'[r].auth = requests[r].auth /\ requests'[r].upstream = requests[r].upstream
      /\ requests'[r].after429 = requests[r].after429
      /\ requests'[r].afterQuota = requests[r].afterQuota
      /\ requests'[r].overlapped = requests[r].overlapped
  BY DEF Before, stores, Shape, RequestEntries
<1>2. requests[r].upstream = "no" /\ ending[r].at = "none" /\ call[r].at \notin Admitting
  BY <1>1 DEF OwnInvariant, PhasesOf
<1> QED BY <1>1, <1>2 DEF OwnInvariant, PhasesOf, AdmissionOf, LeaseOf, FreshOf, SettledOf, ProbesOn

-----------------------------------------------------------------------------
\* The invariant holds initially.
LEMMA InductiveInit == Init => Inductive
<1> SUFFICES ASSUME Init PROVE Inductive
  OBVIOUS
<1>1. Shape
  BY ShapeInit
<1>2. \A r \in Request :
        /\ requests[r].upstream = "no" /\ requests[r].life = "new"
        /\ ~requests[r].after429 /\ ~requests[r].afterQuota
        /\ call[r].at = "idle" /\ call[r].owner = Nobody
        /\ ending[r] = NotEnding /\ ending[r].at = "none" /\ ~ending[r].success
  BY DEF Init, NewRequest, NoCall, NotEnding
<1>3. Exclusion
  BY <1>2 DEF Exclusion, Picking, Admitting
<1>4. OneProbeInFlight
  BY <1>2 DEF OneProbeInFlight, InFlightProbes
<1>5. \A r \in Request : OwnInvariant(r)
  BY <1>2 DEF OwnInvariant, PhasesOf, AdmissionOf, LeaseOf, FreshOf, SettledOf, Picking, Admitting
<1> QED BY <1>1, <1>3, <1>4, <1>5 DEF Inductive, OwnInvariant

\* A local step that keeps the invariant of its own execution keeps the whole invariant:
\* what it puts in flight passed a guard that another probe in flight would have closed.
LEMMA InductiveRequest ==
  ASSUME Inductive, Shape', NEW r \in Request, Local(r), OwnInvariant(r)',
         \A c \in Credential :
            ProbesOn(r, c)' => call[r].at = "probed" /\ call[r].auth = c,
         call'[r].at \in Picking \cup Admitting =>
            call[r].at \in Picking \cup Admitting \/ SelectionMuFree
  PROVE  Inductive'
<1>1. \A o \in Request : OwnInvariant(o)
  BY DEF Inductive, OwnInvariant
<1>2. \A o \in Request \ {r} : Bystander(o)
  BY DEF Local
<1>3. ASSUME NEW o \in Request \ {r}, call[o].at \in Admitting PROVE NoNewLease
  <2>1. call[r].at \notin Picking \cup Admitting
    BY <1>3 DEF Inductive, Exclusion
  <2> QED BY <2>1 DEF Local
<1>4. ASSUME NEW o \in Request \ {r} PROVE OwnInvariant(o)'
  <2>1. /\ PhasesOf(o)'
        /\ NoNewLease /\ AdmissionOf(o) => AdmissionOf(o)'
        /\ LeaseOf(o)' /\ FreshOf(o)' /\ SettledOf(o)'
    BY <1>1, <1>2, BystanderKeeps DEF Inductive, OwnInvariant
  <2>2. call[o].at \notin Admitting => AdmissionOf(o)'
    BY <1>2 DEF AdmissionOf, Bystander
  <2> QED BY <1>1, <1>3, <2>1, <2>2 DEF OwnInvariant
<1>5. \A o \in Request : OwnInvariant(o)'
  BY <1>4
<1>6. Exclusion'
  <2>1. \A o \in Request \ {r} : call'[o] = call[o]
    BY <1>2 DEF Bystander
  <2>2. call'[r].at \in Picking \cup Admitting =>
           \A o \in Request \ {r} : call[o].at \notin Picking \cup Admitting
    BY DEF Inductive, Exclusion, SelectionMuFree
  <2> QED BY <2>1, <2>2 DEF Inductive, Exclusion
<1>7. ASSUME NEW c \in Credential, NEW o \in Request \ {r}, ProbesOn(r, c)', ProbesOn(o, c)'
      PROVE  FALSE
  <2>1. ProbesOn(o, c)
    BY <1>1, <1>2, <1>7, BystanderKeeps DEF Inductive, OwnInvariant
  <2>2. \/ accounts[c].owner = o /\ accounts[c].dispatched
        \/ bans[c].owner = o
    BY <1>1, <2>1 DEF OwnInvariant, LeaseOf, ProbesOn
  <2>3. call[r].at = "probed" /\ call[r].auth = c /\ call[r].at \in Admitting
    BY <1>7 DEF Admitting
  <2>4. /\ accounts[c].dispatched => accounts[c].owner = r
        /\ bans[c].owner \in {Nobody, r}
    BY <1>1, <2>3 DEF OwnInvariant, AdmissionOf
  <2> QED BY <2>2, <2>4, RequestAssumption
<1>8. ASSUME NEW c \in Credential, NEW o1 \in Request \ {r}, NEW o2 \in Request \ {r},
             ProbesOn(o1, c)', ProbesOn(o2, c)'
      PROVE  o1 = o2
  <2>1. ProbesOn(o1, c) /\ ProbesOn(o2, c)
    BY <1>1, <1>2, <1>8, BystanderKeeps DEF Inductive, OwnInvariant
  <2> QED BY <2>1 DEF Inductive, OneProbeInFlight, InFlightProbes, ProbesOn
<1>9. OneProbeInFlight'
  <2>1. \A c \in Credential, o1, o2 \in Request : ProbesOn(o1, c)' /\ ProbesOn(o2, c)' => o1 = o2
    BY <1>7, <1>8
  <2> QED BY <2>1 DEF OneProbeInFlight, InFlightProbes, ProbesOn
<1> QED BY <1>5, <1>6, <1>9 DEF Inductive, OwnInvariant

\* A step of the stores alone keeps the invariant.
LEMMA InductiveStores ==
  ASSUME Inductive, Shape', StoresOnly
  PROVE  Inductive'
<1>1. \A o \in Request : OwnInvariant(o) /\ Bystander(o)
  BY DEF Inductive, OwnInvariant, StoresOnly
<1>2. ASSUME NEW o \in Request
      PROVE  OwnInvariant(o)' /\ \A c \in Credential : ProbesOn(o, c)' => ProbesOn(o, c)
  BY <1>1, BystanderKeeps DEF Inductive, OwnInvariant, StoresOnly
<1>3. Exclusion'
  BY <1>1 DEF Inductive, Exclusion, Bystander
<1>4. OneProbeInFlight'
  BY <1>2 DEF Inductive, OneProbeInFlight, InFlightProbes, ProbesOn
<1> QED BY <1>2, <1>3, <1>4 DEF Inductive, OwnInvariant

\* Unbanning keeps the invariant: what is in flight on a lifted credential is no probe.
LEMMA InductiveUnban ==
  ASSUME Inductive, Shape', NEW lifted, Unban(lifted)
  PROVE  Inductive'
<1>1. /\ \A c \in Credential : \/ accounts'[c] = accounts[c] /\ bans'[c] = bans[c]
                               \/ /\ c \in lifted
                                  /\ accounts'[c].owner = Nobody /\ ~accounts'[c].dispatched
                                  /\ bans'[c].owner = Nobody
      /\ call' = call /\ ending' = ending
  BY DEF Unban, NoAccount, NoBan
<1>2. ASSUME NEW o \in Request
      PROVE  /\ requests'[o].life = requests[o].life /\ requests'[o].auth = requests[o].auth
             /\ requests'[o].overlapped = requests[o].overlapped
             /\ requests'[o].after429 = requests[o].after429
             /\ requests'[o].afterQuota = requests[o].afterQuota
             /\ requests'[o].upstream = "no" <=> requests[o].upstream = "no"
             /\ requests'[o].upstream = "probe" =>
                   requests[o].upstream = "probe" /\ requests[o].auth \notin lifted
  BY DEF Unban, Inductive, Shape, RequestEntries
<1>3. ASSUME NEW o \in Request PROVE OwnInvariant(o)'
  <2>1. PhasesOf(o)'
    BY <1>1, <1>2 DEF Inductive, PhasesOf
  <2>2. AdmissionOf(o)'
    <3>1. call[o].at \in Admitting => call[o].auth \in Credential
      BY DEF Inductive, PhasesOf
    <3> QED BY <1>1, <3>1, RequestAssumption DEF Inductive, AdmissionOf
  <2>3. LeaseOf(o)'
    BY <1>1, <1>2 DEF Inductive, LeaseOf
  <2>4. FreshOf(o)'
    BY <1>1, <1>2, RequestAssumption DEF Inductive, FreshOf
  <2>5. SettledOf(o)'
    BY <1>1, <1>2, RequestAssumption DEF Inductive, SettledOf
  <2> QED BY <2>1, <2>2, <2>3, <2>4, <2>5 DEF OwnInvariant
<1>4. Exclusion'
  BY <1>1 DEF Inductive, Exclusion
<1>5. OneProbeInFlight'
  BY <1>1, <1>2 DEF Inductive, OneProbeInFlight, InFlightProbes
<1> QED BY <1>3, <1>4, <1>5 DEF Inductive, OwnInvariant

\* A new host process starts with no execution.
LEMMA InductiveRestart ==
  ASSUME Shape', HostRestart
  PROVE  Inductive'
<1>1. \A r \in Request :
        /\ requests'[r].upstream = "no" /\ requests'[r].life = "new"
        /\ ~requests'[r].after429 /\ ~requests'[r].afterQuota
        /\ call'[r].at = "idle" /\ call'[r].owner = Nobody
        /\ ending'[r] = NotEnding /\ ending'[r].at = "none" /\ ~ending'[r].success
  BY DEF HostRestart, NewRequest, NoCall, NotEnding
<1>2. Exclusion'
  BY <1>1 DEF Exclusion, Picking, Admitting
<1>3. OneProbeInFlight'
  BY <1>1 DEF OneProbeInFlight, InFlightProbes
<1>4. \A r \in Request : OwnInvariant(r)'
  BY <1>1 DEF OwnInvariant, PhasesOf, AdmissionOf, LeaseOf, FreshOf, SettledOf, Picking, Admitting
<1> QED BY <1>2, <1>3, <1>4 DEF Inductive, OwnInvariant

\* Every step keeps the invariant.
LEMMA InductiveStep == Inductive /\ [Next]_vars => Inductive'
<1> SUFFICES ASSUME Inductive, [Next]_vars PROVE Inductive'
  OBVIOUS
<1>1. Shape /\ Shape'
  BY ShapeStep DEF Inductive
<1>2. \A r \in Request : OwnInvariant(r) /\ PhasesOf(r)
  BY DEF Inductive, OwnInvariant
<1>3. ASSUME NEW r \in Request, Before(r) PROVE Inductive'
  BY <1>1, <1>2, <1>3, BeforeLeases, OwnBefore, InductiveRequest
<1>4. ASSUME NEW r \in Request, Pick(r) PROVE Inductive'
  BY <1>1, <1>2, <1>4, LocalPick, OwnPick, InductiveRequest
<1>5. ASSUME NEW r \in Request, After(r) PROVE Inductive'
  BY <1>1, <1>2, <1>5, LocalAfter, OwnAfter, InductiveRequest
<1>6. ASSUME NEW r \in Request, Rejection(r) PROVE Inductive'
  BY <1>1, <1>2, <1>6, LocalRejection, OwnRejection, InductiveRequest
<1>7. ASSUME NEW r \in Request, Completion(r) PROVE Inductive'
  BY <1>1, <1>2, <1>7, LocalCompletion, OwnCompletion, InductiveRequest
<1>8. ASSUME NEW c \in Credential, Reports(c) \/ Reconcile(c) \/ Time(c) PROVE Inductive'
  BY <1>1, <1>8, ReportsLeases, ReconcileLeases, TimeLeases, InductiveStores
<1>9. ASSUME NEW lifted, Unban(lifted) PROVE Inductive'
  BY <1>1, <1>9, InductiveUnban
<1>10. CASE HostRestart
  BY <1>1, <1>10, InductiveRestart
<1>11. CASE UNCHANGED vars
  <2>1. StoresOnly
    BY <1>11 DEF vars, StoresOnly, NoNewLease, Bystander, KeepsLeases, Marked
  <2> QED BY <1>1, <2>1, InductiveStores
<1> QED BY <1>3, <1>4, <1>5, <1>6, <1>7, <1>8, <1>9, <1>10, <1>11 DEF Next

\* The inductive invariant holds in every reachable state.
THEOREM InductiveInvariant == Spec => []Inductive
  BY InductiveInit, InductiveStep, PTL DEF Spec

\* For any executions and credentials, whatever 429s, retries, expiring leases and
\* callbacks interleave, at most one execution is in flight to test a credential
\* (README.md:267-268).
THEOREM OneProbe == Spec => []OneProbeInFlight
<1>1. Inductive => OneProbeInFlight
  BY DEF Inductive
<1> QED BY <1>1, InductiveInvariant, PTL

\* For any executions and credentials, an execution whose terminal callback overlapped no
\* other call of it leaves no lease that time would not end (concurrency.go:1047-1048).
THEOREM QuietReleases == Spec => []QuietTerminalEventReleases
<1>1. Inductive => QuietTerminalEventReleases
  BY DEF Inductive, SettledOf, QuietTerminalEventReleases, Leases
<1> QED BY <1>1, InductiveInvariant, PTL

\* Completion with success removes an entry only if nothing overruled its lease.
LEMMA SuccessIsFresh ==
  ASSUME Inductive, NEW r \in Request, NEW c \in Credential
  PROVE  /\ CompleteGuard(r) /\ accounts[c].on /\ ~accounts'[c].on =>
               requests[r].auth = c /\ ~requests[r].afterQuota
         /\ CompleteBan(r) /\ bans[c].on /\ ~bans'[c].on =>
               requests[r].auth = c /\ ~requests[r].after429
<1>1. /\ accounts[c] \in GoodAccounts /\ bans[c] \in GoodBans
      /\ ending[r].success \in BOOLEAN
      /\ ending[r].success => requests[r].upstream # "no"
  BY DEF Inductive, Shape, Endings, PhasesOf
<1>2. ASSUME CompleteGuard(r), accounts[c].on, ~accounts'[c].on
      PROVE  requests[r].auth = c /\ ~requests[r].afterQuota
  <2>1. accounts'[c] = IF accounts[c].owner = r THEN Finished(accounts[c], ending[r].success)
                                                ELSE accounts[c]
    BY <1>2 DEF CompleteGuard, FinishExcept
  <2>2. /\ accounts[c].owner = r /\ ending[r].success
        /\ accounts[c].dispatched /\ accounts[c].current
    BY <1>1, <1>2, <2>1, FinishedFacts
  <2> QED BY <1>1, <2>2 DEF Inductive, FreshOf
<1>3. ASSUME CompleteBan(r), bans[c].on, ~bans'[c].on
      PROVE  requests[r].auth = c /\ ~requests[r].after429
  <2>1. Cooldown.on
    BY DEF Cooldown, NoBan
  <2>2. bans[c].owner = r /\ ending[r].success /\ bans[c].current
    BY <1>3, <2>1 DEF CompleteBan, CompleteOwnedExcept
  <2> QED BY <1>1, <2>2 DEF Inductive, FreshOf
<1> QED BY <1>2, <1>3

\* For any executions and credentials, an attempt dispatched before a 429 or an exhausted
\* observation never lifts the requirement or the ban it left (recovery_guard.go).
THEOREM StaleSuccess == Spec => StaleSuccessClearsNothing
<1>1. Inductive => \A r \in Request : \A c \in Credential :
          /\ (CompleteGuard(r) /\ accounts[c].on /\ ~accounts'[c].on) =>
                requests[r].auth = c /\ ~requests[r].afterQuota
          /\ (CompleteBan(r) /\ bans[c].on /\ ~bans'[c].on) =>
                requests[r].auth = c /\ ~requests[r].after429
  BY SuccessIsFresh
<1> QED BY <1>1, InductiveInvariant, PTL DEF StaleSuccessClearsNothing
=============================================================================
