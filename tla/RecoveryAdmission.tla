------------------------- MODULE RecoveryAdmission --------------------------
(***************************************************************************)
(* How a credential that ran out of quota comes back into use: the         *)
(* recovery guard (recovery_guard.go) and the ban store (main.go), as the  *)
(* scheduler pick, after-auth admission, completion, 429 reports, quota    *)
(* observations, the operator and a host restart drive them.               *)
(*                                                                         *)
(* Each store has a mutex of its own, held for one operation, so every     *)
(* operation on one store is one step.  selectionMu spans a pick and an    *)
(* after-auth call, g.mu spans an after-auth call; completion holds        *)
(* neither while it settles the two stores (concurrency.go:1047-1048).     *)
(*                                                                         *)
(* Simplifications.  A credential keeps one auth index (Indexed) or has    *)
(* none.  Deadlines are flags that time may lower; generations are         *)
(* compared only for equality, so each lease records whether no evidence   *)
(* came after it (current).  The cap on concurrent executions, which can   *)
(* only refuse more, is left to ConcurrencyGate, warmups too.              *)
(***************************************************************************)
EXTENDS Naturals, FiniteSets

CONSTANTS Request,        \* executions, by lifecycle ID
          Nobody,         \* no owner
          Credential,     \* auth IDs
          NoCredential,
          Indexed         \* credentials whose auth index is known

ASSUME RequestAssumption == Nobody \notin Request
ASSUME CredentialAssumption == Indexed \subseteq Credential /\ NoCredential \notin Credential

VARIABLES
    accounts,  \* recovery.accounts: [Credential -> entry]
    bans,      \* banStore.bans: [Credential -> entry]
    requests,  \* g.requests: [Request -> entry], with history
    call,      \* [Request -> host call in progress: pick, after-auth or rejected attempt]
    ending,    \* [Request -> the terminal callback in progress]
    reported   \* credentials whose 429 is in the ban store and not yet in the guard

stores == <<accounts, bans>>
vars == <<accounts, bans, requests, call, ending, reported>>
-----------------------------------------------------------------------------
(* Entries.  on is whether the map has one; cooling is now < RetryAt or     *)
(* now < ResetAt.                                                           *)

NoAccount == [on |-> FALSE, ready |-> FALSE, cooling |-> FALSE, owner |-> Nobody,
              dispatched |-> FALSE, aged |-> FALSE, current |-> FALSE]

\* half is phase half_open; leased, that an anonymous probe lease runs.
NoBan == [on |-> FALSE, half |-> FALSE, cooling |-> FALSE, owner |-> Nobody,
          leased |-> FALSE, current |-> FALSE]
Cooldown == [NoBan EXCEPT !.on = TRUE, !.cooling = TRUE]

\* History: upstream, whether an attempt is in flight, dispatched under a lease or
\* plainly; after429 and afterQuota, the ban store or the guard took evidence since;
\* overlapped, the terminal callback ran during another call of the execution.
NewRequest == [life |-> "new", auth |-> NoCredential, dispatched |-> FALSE,
               upstream |-> "no", after429 |-> FALSE, afterQuota |-> FALSE,
               overlapped |-> FALSE]

NoCall == [at |-> "idle", auth |-> NoCredential, owner |-> Nobody, guarded |-> FALSE]
NotEnding == [at |-> "none", success |-> FALSE]

Picking == {"ranked", "leased"}
Admitting == {"reserved", "probed"}
SelectionMuFree == \A r \in Request : call[r].at \notin Picking \cup Admitting
GateMuFree == \A r \in Request : call[r].at \notin Admitting
-----------------------------------------------------------------------------
(* The recovery guard.                                                      *)

Unowned(e) == [e EXCEPT !.owner = Nobody, !.dispatched = FALSE,
                        !.aged = FALSE, !.current = FALSE]

\* Mutants: success counts whatever came after; the lease stays marked dispatched.
FinishedRegardless(e, success) ==
    IF success /\ e.dispatched THEN NoAccount
    ELSE Unowned([e EXCEPT !.cooling = @ \/ e.dispatched, !.ready = @ /\ ~e.dispatched])
FinishedHalfway(e, success) ==
    IF success /\ e.dispatched /\ e.current THEN NoAccount
    ELSE [e EXCEPT !.owner = Nobody, !.cooling = @ \/ e.dispatched,
                   !.ready = @ /\ ~e.dispatched]

\* What becomes of a lease: removed by a success nothing overruled, a failed
\* attempt if it was dispatched, given back otherwise.
Finished(e, success) ==
    IF success /\ e.dispatched /\ e.current THEN NoAccount
    ELSE Unowned([e EXCEPT !.cooling = @ \/ e.dispatched, !.ready = @ /\ ~e.dispatched])

\* finishExcept
FinishExcept(as, r, except, success) ==
    [c \in Credential |-> IF as[c].owner = r /\ c \notin except
                          THEN Finished(as[c], success) ELSE as[c]]

\* finishOther: r goes to c, an attempt elsewhere has failed.
FinishOther(as, r, c) == FinishExcept(as, r, {c}, FALSE)

\* require and observe of an exhausted window: a lease stays, its success will not count.
Evidence(e, cool) == [e EXCEPT !.on = TRUE, !.ready = FALSE, !.current = FALSE,
                               !.cooling = @ \/ cool]

Held(e, r) == e.owner \notin {Nobody, r} /\ (e.dispatched \/ ~e.aged)
Reservable(e, r) == ~e.on \/ (e.ready /\ ~e.cooling /\ ~Held(e, r))
Reserved(e, r) ==
    IF e.on /\ e.owner # r
    THEN [Unowned(e) EXCEPT !.owner = r, !.current = TRUE]
    ELSE e
-----------------------------------------------------------------------------
(* The ban store.                                                           *)

HalfOpen(b) == b.half /\ (b.owner # Nobody \/ b.leased)
ProbeReady(b) == ~HalfOpen(b) /\ ~b.cooling
Schedulable(b) == ~b.on \/ ProbeReady(b)

\* tryStartProbeOwned
ProbeAllowed(b, o) ==
    \/ ~b.on
    \/ ProbeReady(b)
    \/ o # Nobody /\ b.half /\ (b.owner = o \/ (b.owner = Nobody /\ b.leased))
Probing(b, o) ==
    CASE ~b.on \/ (o # Nobody /\ b.half /\ b.owner = o) -> b
      [] OTHER -> [b EXCEPT !.half = TRUE, !.owner = o, !.leased = (o = Nobody),
                            !.current = (o # Nobody)]

\* Mutant: a 429 ends the lease of the probe in flight.
Recorded429Afresh(b) == [b EXCEPT !.on = TRUE, !.half = FALSE, !.cooling = TRUE, !.owner = Nobody,
                                !.leased = FALSE, !.current = FALSE]

\* record429 by way of setCooldownLocked: an owned lease survives, an anonymous does not.
Recorded429(b) ==
    IF b.half /\ b.owner # Nobody
    THEN [b EXCEPT !.cooling = TRUE, !.current = FALSE]
    ELSE Cooldown

\* Mutant: only a success ends a probe.
CompleteSucceededExcept(bs, r, except, success) ==
    [c \in Credential |->
        IF bs[c].half /\ bs[c].owner = r /\ c \notin except /\ success /\ bs[c].current
        THEN NoBan ELSE bs[c]]

\* completeOwnedProbeExcept
CompleteOwnedExcept(bs, r, except, success) ==
    [c \in Credential |->
        IF ~(bs[c].half /\ bs[c].owner = r /\ c \notin except) THEN bs[c]
        ELSE IF success /\ bs[c].current THEN NoBan ELSE Cooldown]
-----------------------------------------------------------------------------
Init ==
    /\ accounts = [c \in Credential |-> NoAccount]
    /\ bans = [c \in Credential |-> NoBan]
    /\ requests = [r \in Request |-> NewRequest]
    /\ call = [r \in Request |-> NoCall]
    /\ ending = [r \in Request |-> NotEnding]
    /\ reported = {}
-----------------------------------------------------------------------------
(* Calls of the host for one execution, one at a time.                      *)

\* The host starts no call of an execution that it reports as succeeded.
CallStarts(r) == call[r] = NoCall /\ ~ending[r].success

\* The request entry rq of r as a call of r begins: the attempt before is over.
Returned(rq) == [rq EXCEPT !.upstream = "no", !.after429 = FALSE, !.afterQuota = FALSE]
Begun(r, rq) == [Returned(rq) EXCEPT !.overlapped = @ \/ ending[r].at # "none"]
Detached(rq) == [rq EXCEPT !.auth = NoCredential, !.dispatched = FALSE]

Before(r) ==
    /\ requests[r].life = "new"
    /\ requests' = [requests EXCEPT ![r].life = "registered"]
    /\ UNCHANGED <<stores, call, ending, reported>>

\* schedulerPick: the old attempt lets go, c is ranked first, the lifecycle
\* ID of the token is read.
PickRank(r, c) ==
    /\ CallStarts(r)
    /\ SelectionMuFree
    /\ Schedulable(bans[c])
    /\ requests' = [requests EXCEPT ![r] = Begun(r, Detached(@))]
    /\ call' = [call EXCEPT ![r] =
                   [NoCall EXCEPT !.at = "ranked", !.auth = c,
                                  !.owner = IF requests[r].life = "registered"
                                            THEN r ELSE Nobody]]
    /\ UNCHANGED <<stores, ending, reported>>

\* Another pick may have taken the probe since: this one goes on without c.
PickLease(r) ==
    LET c == call[r].auth IN
    /\ call[r].at = "ranked"
    /\ IF ProbeAllowed(bans[c], call[r].owner)
       THEN /\ bans' = [bans EXCEPT ![c] = Probing(@, call[r].owner)]
            /\ call' = [call EXCEPT ![r].at = "leased"]
       ELSE /\ bans' = bans
            /\ call' = [call EXCEPT ![r] = NoCall]
    /\ UNCHANGED <<accounts, requests, ending, reported>>

\* The registration is verified again before the choice is booked.
PickAdmit(r) ==
    /\ call[r].at = "leased"
    /\ call' = [call EXCEPT ![r] = NoCall]
    /\ requests' = IF requests[r].life = "registered"
                   THEN [requests EXCEPT ![r].auth = call[r].auth] ELSE requests
    /\ UNCHANGED <<stores, ending, reported>>

\* concurrencyAfter on c, the booked credential or the host's own choice: leases
\* elsewhere are settled and the guard of c is asked.
AfterReserve(r, c) ==
    LET ended == requests[r].life = "ended"
        settled == FinishOther(accounts, r, c)
        allowed == Reservable(settled[c], r)
        goesOn == allowed /\ ~(settled[c].on /\ ended)
    IN
    /\ CallStarts(r)
    /\ SelectionMuFree
    /\ requests[r].auth \in {NoCredential, c}
    /\ requests' = IF ended THEN requests
                   ELSE [requests EXCEPT ![r] = Begun(r, [@ EXCEPT !.life = "registered",
                                                                   !.auth = c])]
    /\ accounts' = [settled EXCEPT ![c] = IF allowed THEN Reserved(@, r) ELSE @]
    /\ bans' = CompleteOwnedExcept(bans, r, {c}, FALSE)
    /\ call' = IF goesOn
               THEN [call EXCEPT ![r] = [NoCall EXCEPT !.at = "reserved", !.auth = c,
                                                       !.guarded = settled[c].on]]
               ELSE call
    /\ UNCHANGED <<ending, reported>>

AfterProbe(r) ==
    LET c == call[r].auth
        allowed == /\ ~(bans[c].on /\ requests[r].life = "ended")
                   /\ ProbeAllowed(bans[c], r)
    IN
    /\ call[r].at = "reserved"
    /\ bans' = [bans EXCEPT ![c] = IF allowed THEN Probing(@, r) ELSE @]
    /\ call' = [call EXCEPT ![r] = IF allowed THEN [@ EXCEPT !.at = "probed"] ELSE NoCall]
    /\ UNCHANGED <<accounts, requests, ending, reported>>

\* recoveryGuard.dispatched, and the execution goes upstream.
AfterDispatch(r) ==
    LET c == call[r].auth
        lost == call[r].guarded /\ accounts[c].on /\ accounts[c].owner # r
        leased == call[r].guarded /\ accounts[c].owner = r
    IN
    /\ call[r].at = "probed"
    /\ call' = [call EXCEPT ![r] = NoCall]
    /\ accounts' = IF leased THEN [accounts EXCEPT ![c].dispatched = TRUE] ELSE accounts
    /\ requests' = IF lost \/ requests[r].life # "registered" THEN requests
                   ELSE [requests EXCEPT ![r].dispatched = TRUE,
                                         ![r].upstream =
                                            IF leased \/ bans[c].owner = r
                                            THEN "probe" ELSE "plain"]
    /\ UNCHANGED <<bans, ending, reported>>
-----------------------------------------------------------------------------
(* Evidence that a credential is exhausted.                                 *)

MarkIf(cond, rq) == [rq EXCEPT !.afterQuota = @ \/ cond]
OnCredential(r, c) == requests[r].upstream # "no" /\ requests[r].auth = c

\* handleUsage of a 429, and the 429 of a warmup: the ban store first, then the guard.
Report429(c) ==
    /\ c \notin reported
    /\ bans' = [bans EXCEPT ![c] = Recorded429(@)]
    /\ requests' = [r \in Request |-> [requests[r] EXCEPT !.after429 = @ \/ OnCredential(r, c)]]
    /\ reported' = reported \cup ({c} \cap Indexed)
    /\ UNCHANGED <<accounts, call, ending>>

Require(c) ==
    /\ c \in reported
    /\ accounts' = [accounts EXCEPT ![c] = Evidence(@, TRUE)]
    /\ requests' = [r \in Request |-> MarkIf(OnCredential(r, c), requests[r])]
    /\ reported' = reported \ {c}
    /\ UNCHANGED <<bans, call, ending>>

ObserveExhausted(c) ==
    /\ c \in Indexed
    /\ accounts' = [accounts EXCEPT ![c] = Evidence(@, FALSE)]
    /\ requests' = [r \in Request |-> MarkIf(OnCredential(r, c), requests[r])]
    /\ UNCHANGED <<bans, call, ending, reported>>

\* releaseRejectedContinuityAttempt: a 429 before any output isolates the
\* credential and ends the attempt; the leases are settled after g.mu is let go.
ReleaseAttempt(r) ==
    LET c == requests[r].auth IN
    /\ CallStarts(r)
    /\ GateMuFree
    /\ requests[r].dispatched
    /\ accounts' = IF c \in Indexed THEN [accounts EXCEPT ![c] = Evidence(@, TRUE)]
                   ELSE accounts
    /\ bans' = [bans EXCEPT ![c] = IF @.on THEN @ ELSE Cooldown]
    /\ requests' = [o \in Request |->
                       IF o = r THEN Begun(r, Detached(requests[r]))
                       ELSE MarkIf(c \in Indexed /\ OnCredential(o, c), requests[o])]
    /\ call' = [call EXCEPT ![r] = [NoCall EXCEPT !.at = "rejected"]]
    /\ UNCHANGED <<ending, reported>>

RejectedGuard(r) ==
    /\ call[r].at = "rejected"
    /\ accounts' = FinishExcept(accounts, r, {}, FALSE)
    /\ call' = [call EXCEPT ![r].at = "settled"]
    /\ UNCHANGED <<bans, requests, ending, reported>>

RejectedBan(r) ==
    /\ call[r].at = "settled"
    /\ bans' = CompleteOwnedExcept(bans, r, {}, FALSE)
    /\ call' = [call EXCEPT ![r] = NoCall]
    /\ UNCHANGED <<accounts, requests, ending, reported>>
-----------------------------------------------------------------------------
(* handleConcurrencyComplete.  Success is told of an attempt that returned; *)
(* a cancellation may come at any moment, while another call runs too.      *)

Complete(r, success) ==
    /\ requests[r].life = "registered"
    /\ ending[r] = NotEnding
    /\ success => requests[r].upstream # "no" /\ call[r] = NoCall
    /\ ending' = [ending EXCEPT ![r] = [at |-> "guard", success |-> success]]
    /\ requests' = [requests EXCEPT ![r].overlapped = call[r] # NoCall]
    /\ UNCHANGED <<stores, call, reported>>

CompleteGuard(r) ==
    /\ ending[r].at = "guard"
    /\ accounts' = FinishExcept(accounts, r, {}, ending[r].success)
    /\ ending' = [ending EXCEPT ![r].at = "ban"]
    /\ UNCHANGED <<bans, requests, call, reported>>

CompleteBan(r) ==
    /\ ending[r].at = "ban"
    /\ bans' = CompleteOwnedExcept(bans, r, {}, ending[r].success)
    /\ ending' = [ending EXCEPT ![r].at = "slot"]
    /\ UNCHANGED <<accounts, requests, call, reported>>

CompleteSlot(r) ==
    /\ ending[r].at = "slot"
    /\ GateMuFree
    /\ requests' = [requests EXCEPT ![r] = [Detached(Returned(@)) EXCEPT !.life = "ended"]]
    /\ ending' = [ending EXCEPT ![r] = NotEnding]
    /\ UNCHANGED <<stores, call, reported>>
-----------------------------------------------------------------------------
\* handleUsage of any other outcome, which knows the credential and no lifecycle.
UsageDone(c, success) ==
    /\ bans[c].half /\ bans[c].owner = Nobody
    /\ bans' = [bans EXCEPT ![c] = IF success THEN NoBan ELSE Cooldown]
    /\ UNCHANGED <<accounts, requests, call, ending, reported>>

ObserveHealthy(c) ==
    /\ accounts[c].on /\ ~accounts[c].dispatched /\ ~accounts[c].ready
    /\ accounts' = [accounts EXCEPT ![c].ready = TRUE]
    /\ UNCHANGED <<bans, requests, call, ending, reported>>

\* reconcileExternallyResetQuotaBans: only an entry without a probe is lifted.
Reconcile(c) ==
    /\ bans[c].on /\ ~bans[c].half
    /\ bans' = [bans EXCEPT ![c] = NoBan]
    /\ UNCHANGED <<accounts, requests, call, ending, reported>>

\* Unban of one credential or of all; what is in flight is no probe any more.
Unban(lifted) ==
    /\ accounts' = [c \in Credential |-> IF c \in lifted THEN NoAccount ELSE accounts[c]]
    /\ bans' = [c \in Credential |-> IF c \in lifted THEN NoBan ELSE bans[c]]
    /\ accounts' # accounts \/ bans' # bans
    /\ requests' = [r \in Request |-> [requests[r] EXCEPT !.upstream =
                      IF @ = "probe" /\ requests[r].auth \in lifted THEN "plain" ELSE @]]
    /\ UNCHANGED <<call, ending, reported>>

GuardCools(c) ==
    /\ accounts[c].cooling
    /\ accounts' = [accounts EXCEPT ![c].cooling = FALSE]
    /\ UNCHANGED <<bans, requests, call, ending, reported>>

\* The two minutes of a reservation that was not dispatched pass.
ReservationAges(c) ==
    /\ accounts[c].owner # Nobody /\ ~accounts[c].dispatched /\ ~accounts[c].aged
    /\ accounts' = [accounts EXCEPT ![c].aged = TRUE]
    /\ UNCHANGED <<bans, requests, call, ending, reported>>

\* A pick reads the clock once, before it ranks: what passes later it does not see.
ClockRead(c) == \E r \in Request : call[r].at = "ranked" /\ call[r].auth = c

BanCools(c) ==
    /\ bans[c].cooling
    /\ ~ClockRead(c)
    /\ bans' = [bans EXCEPT ![c].cooling = FALSE]
    /\ UNCHANGED <<accounts, requests, call, ending, reported>>

ProbeLeaseExpires(c) ==
    /\ bans[c].leased
    /\ ~ClockRead(c)
    /\ bans' = [bans EXCEPT ![c].leased = FALSE]
    /\ UNCHANGED <<accounts, requests, call, ending, reported>>

\* A new host process loads what was saved (loadPersistedState): executions are
\* gone, so their leases count as failed attempts, and a saved readiness is void.
HostRestart ==
    /\ accounts' = [c \in Credential |->
                      [Finished(accounts[c], FALSE) EXCEPT !.ready = FALSE]]
    /\ bans' = [c \in Credential |-> IF bans[c].half /\ bans[c].owner # Nobody
                                     THEN Cooldown ELSE bans[c]]
    /\ requests' = [r \in Request |-> NewRequest]
    /\ call' = [r \in Request |-> NoCall]
    /\ ending' = [r \in Request |-> NotEnding]
    /\ reported' = {}
-----------------------------------------------------------------------------
Pick(r) == (\E c \in Credential : PickRank(r, c)) \/ PickLease(r) \/ PickAdmit(r)
After(r) == (\E c \in Credential : AfterReserve(r, c)) \/ AfterProbe(r) \/ AfterDispatch(r)
Rejection(r) == ReleaseAttempt(r) \/ RejectedGuard(r) \/ RejectedBan(r)
Completion(r) == \/ \E success \in BOOLEAN : Complete(r, success)
                 \/ CompleteGuard(r) \/ CompleteBan(r) \/ CompleteSlot(r)
Reports(c) == \/ Report429(c) \/ Require(c) \/ ObserveExhausted(c) \/ ObserveHealthy(c)
              \/ \E success \in BOOLEAN : UsageDone(c, success)
Time(c) == GuardCools(c) \/ ReservationAges(c) \/ BanCools(c) \/ ProbeLeaseExpires(c)

Next ==
    \/ \E r \in Request : Before(r) \/ Pick(r) \/ After(r) \/ Rejection(r) \/ Completion(r)
    \/ \E c \in Credential : Reports(c) \/ Reconcile(c) \/ Unban({c}) \/ Time(c)
    \/ Unban(Credential)
    \/ HostRestart

Spec == Init /\ [][Next]_vars
-----------------------------------------------------------------------------
Owners == Request \cup {Nobody}
Entries == [on : BOOLEAN, ready : BOOLEAN, cooling : BOOLEAN, owner : Owners,
            dispatched : BOOLEAN, aged : BOOLEAN, current : BOOLEAN]
BanEntries == [on : BOOLEAN, half : BOOLEAN, cooling : BOOLEAN, owner : Owners,
               leased : BOOLEAN, current : BOOLEAN]
RequestEntries == [life : {"new", "registered", "ended"}, auth : Credential \cup {NoCredential},
                   dispatched : BOOLEAN, upstream : {"no", "plain", "probe"}, after429 : BOOLEAN,
                   afterQuota : BOOLEAN, overlapped : BOOLEAN]
Calls == [at : {"idle", "rejected", "settled"} \cup Picking \cup Admitting,
          auth : Credential \cup {NoCredential}, owner : Owners, guarded : BOOLEAN]
Endings == [at : {"none", "guard", "ban", "slot"}, success : BOOLEAN]

\* Every variable has its type; an entry that is absent, or that nobody owns,
\* carries nothing of an old lease that a later operation could take for its own.
TypeOK ==
    /\ accounts \in [Credential -> Entries]
    /\ bans \in [Credential -> BanEntries]
    /\ requests \in [Request -> RequestEntries]
    /\ call \in [Request -> Calls]
    /\ ending \in [Request -> Endings]
    /\ reported \subseteq Indexed
    /\ \A c \in Credential :
          /\ accounts[c].on \/ accounts[c] = NoAccount
          /\ bans[c].on \/ bans[c] = NoBan
          /\ accounts[c].owner = Nobody => Unowned(accounts[c]) = accounts[c]
          /\ bans[c].half \/ (bans[c].owner = Nobody /\ ~bans[c].leased)

\* README.md:267-268: one request first tests recovery.  However picks, late 429s,
\* expiring leases and retries interleave, no credential has two executions in
\* flight that were both dispatched to test it.
InFlightProbes(c) == {r \in Request : /\ requests[r].upstream = "probe"
                                      /\ requests[r].auth = c /\ ending[r] = NotEnding}
OneProbeInFlight ==
    \A c \in Credential : \A r1, r2 \in InFlightProbes(c) : r1 = r2

\* A recovery requirement or a ban is lifted by the success of an execution only
\* when that store took no evidence since the execution was dispatched: an
\* attempt sent before a 429 says nothing about the quota after it.
StaleSuccessClearsNothing ==
    [][\A r \in Request : \A c \in Credential :
          /\ (CompleteGuard(r) /\ accounts[c].on /\ ~accounts'[c].on) =>
                requests[r].auth = c /\ ~requests[r].afterQuota
          /\ (CompleteBan(r) /\ bans[c].on /\ ~bans'[c].on) =>
                requests[r].auth = c /\ ~requests[r].after429]_vars

\* A lease that time does not end: a dispatched reservation, an owned probe.
Leases(r) == {c \in Credential : \/ accounts[c].owner = r /\ accounts[c].dispatched
                                 \/ bans[c].owner = r}

\* CPA_PERMISSIONS.md:15: terminal events release recovery reservations.  No such
\* lease belongs to an execution whose terminal callback has returned and that
\* has no call left to return.  The code does not keep this when the terminal callback
\* overlaps a pick or an after-auth call.
TerminalEventReleases ==
    \A r \in Request : requests[r].life = "ended" /\ call[r] = NoCall => Leases(r) = {}

\* The same of every execution whose terminal callback did not overlap a pick,
\* an after-auth call or the release of a rejected attempt.
QuietTerminalEventReleases ==
    \A r \in Request : \/ requests[r].life # "ended"
                       \/ requests[r].overlapped
                       \/ Leases(r) = {}
=============================================================================
