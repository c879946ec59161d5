-------------------------- MODULE BalancedAdmission --------------------------
(***************************************************************************)
(* Admission in balanced mode: the pick (balanced.go, adq_runtime.go), the *)
(* reservation book (adq_pbs.go), the session bindings                     *)
(* (balanced_session.go), the provider circuits, and the usage and         *)
(* lifecycle events that give a debit back (concurrency.go).               *)
(*                                                                         *)
(* A pick holds s.mu while it ranks and reserves; the book has a mutex of  *)
(* its own, so a quota observation or a status read gets between the       *)
(* ranking and the reservation.  After the pick the credential is checked  *)
(* again without s.mu, and the ranking may start over.                     *)
(*                                                                         *)
(* Simplifications.  One model, one priority tier and no bans: of the      *)
(* ranking remain the gates and the hard preference for the conversation's *)
(* credential, any other eligible credential may win.  All requests cost   *)
(* the same.  A reading is a level of what is left; it stands for the      *)
(* percentage, the credits and the cycle alike.  A reservation that was    *)
(* released or reconciled counts for nothing any more and is none.         *)
(* Completed records are remembered throughout.  Parent conversations,     *)
(* restarts and the fair-share credits are left out.                       *)
(***************************************************************************)
EXTENDS Integers, FiniteSets, FiniteSetsExt

CONSTANTS Request,       \* executions, with the token of their lifecycle
          Session,       \* conversations
          Credential,
          LayersOf,      \* the quota windows of a credential
          Nobody,        \* no request, session or credential
          Levels,        \* what a reading may say is left
          Cost,          \* the predicted cost of a request
          Outcomes,      \* of calls: see AllOutcomes
          LeaseTTL,      \* ReservationTimeout
          SettleTTL,     \* SettlementTimeout
          Tolerance,     \* a completion matches a start this close (30 s)
          PendingTTL,    \* balancedPendingTTL
          Sticky,        \* sticky_seconds
          Base, Longest, \* shortest and longest circuit after an overload
          AuthRetry,     \* circuit after an authentication failure
          MaxPending,    \* entries of a credential (256)
          SessionLimit,  \* balancedSessionLimit
          Starts,        \* bound: the time at the start and the credentials not read yet
          MaxClock,      \* bound: time
          MaxEvents      \* bound: quota observations, failures and usage records delivered again

\* used; unused: at no cost, or stopped by a 429; overload; auth; failed: any other failure.
AllOutcomes == {"used", "unused", "overload", "auth", "failed"}

ASSUME BalancedAdmissionAssumption ==
    /\ Outcomes \subseteq AllOutcomes
    /\ Nobody \notin Request \cup Session \cup Credential
    /\ IsFiniteSet(Request) /\ IsFiniteSet(Session) /\ IsFiniteSet(Credential)
    /\ Levels \subseteq Nat /\ Levels # {} /\ IsFiniteSet(Levels)
    /\ Starts \subseteq [clock : 0..MaxClock, unread : SUBSET Credential]
    /\ {Cost, LeaseTTL, SettleTTL, Tolerance, PendingTTL, Base, Longest, MaxPending, SessionLimit}
         \subseteq Nat \ {0}
    /\ {Sticky, AuthRetry, MaxClock, MaxEvents} \subseteq Nat

VARIABLES
    clock,
    latest,     \* s.balancedClock
    quotas,     \* s.quotas: [Credential -> reading or Unknown]
    work,       \* [Request -> [Credential -> pending entry and reservation]]
    bindings,   \* s.balancedSessions
    circuits,   \* s.adqProviderCircuits
    pick,       \* the pick in the scheduler
    requests,   \* what has become of each request
    spent       \* bound: counter of those events

vars == <<clock, latest, quotas, work, bindings, circuits, pick, requests, spent>>

Layer == UNION {LayersOf[c] : c \in Credential}
Never == -1
Unknown == [at |-> Never, left |-> [l \in Layer |-> 0]]
Larger(a, b) == IF a > b THEN a ELSE b
-----------------------------------------------------------------------------
\* at: when the entry was appended, Never without one; the lease is the reservation.
Nothing == [at |-> Never, lease |-> "none", until |-> Never, debt |-> [l \in Layer |-> 0],
            base |-> Unknown.left, seen |-> Never, dropped |-> FALSE]
NoPick == [at |-> "none", r |-> Nobody, s |-> Nobody, now |-> 0, c |-> Nobody, out |-> {}, full |-> {},
           limit |-> [l \in Layer |-> 0]]
NoBinding == [c |-> Nobody, last |-> Never]
NoCircuit == [until |-> Never, failures |-> 0]
Waiting == [life |-> "new", c |-> Nobody, s |-> Nobody, start |-> Never, own |-> FALSE,
            outcome |-> "none", matched |-> FALSE]

Entry(r, c) == work[r][c].at # Never
Entries(w, c) == {r \in Request : w[r][c].at # Never}

\* adqReservationBook.expireLocked
Lapsed(i, t) ==
    IF i.lease = "active" /\ i.until <= t
    THEN [i EXCEPT !.lease = IF i.at = Never THEN "none" ELSE "expired", !.until = Never]
    ELSE IF i.lease = "settling" /\ i.until <= t THEN [Nothing EXCEPT !.dropped = i.dropped]
    ELSE i
Expired(w, t) == [r \in Request |-> [c \in Credential |-> Lapsed(w[r][c], t)]]

\* An entry is dropped; a reservation that has expired has nothing left to settle it.
Without(i) == [i EXCEPT !.at = Never, !.dropped = TRUE, !.lease = IF @ = "expired" THEN "none" ELSE @]

\* balancedAccount.prune
Fresh(w, C, t) ==
    [r \in Request |-> [c \in Credential |->
        IF c \in C /\ w[r][c].at # Never /\ t - w[r][c].at >= PendingTTL
        THEN Without(w[r][c]) ELSE w[r][c]]]

\* Reserved, adqPendingWithoutReservation and Settling
Reserved(w, c) == Cost * Cardinality({r \in Request : w[r][c].lease = "active"})
Uncovered(w, c) == Cost * Cardinality({r \in Entries(w, c) : w[r][c].lease # "active"})
Settling(w, c, l) == MapThenSumSet(LAMBDA r : w[r][c].debt[l], Request)

\* adqHardEffectiveQuota and adqEffectiveQuota, without a safety margin.
Hard(w, c, l) == quotas[c].left[l] - Uncovered(w, c) - Reserved(w, c)
Effective(w, c, l) == Hard(w, c, l) - Settling(w, c, l)

\* adqAssessAccount: the gate of a conversation's own credential leaves out what settles.
Eligible(w, c, sticky) ==
    \A l \in LayersOf[c] : IF c = sticky THEN Hard(w, c, l) > 0 ELSE Effective(w, c, l) > 0
-----------------------------------------------------------------------------
\* Mutant: a pick or an event goes by the time it was captured at.
NowAsCaptured(t) == t

\* balancedTimeLocked
Now(t) == Larger(t, latest)

\* The concurrency gate still has an execution of s on c.
Active(s, c) == \E r \in Request : /\ requests[r].s = s /\ requests[r].c = c
                                   /\ requests[r].life \in {"picked", "sent"}

\* balancedSessionValidLocked
Valid(s, t) ==
    LET b == bindings[s] IN
    /\ b # NoBinding /\ t >= b.last
    /\ \/ t - b.last <= Sticky
       \/ Active(s, b.c)
       \/ \E r \in Request : /\ Entry(r, b.c) /\ requests[r].s = s
                             /\ t - work[r][b.c].at < PendingTTL

\* pruneBalancedSessionsLocked: at the limit, or when the last time is a minute ago.
Kept(t) == [s \in Session |-> IF Valid(s, t) THEN bindings[s] ELSE NoBinding]
Full == Cardinality({s \in Session : bindings[s] # NoBinding}) >= SessionLimit
MayKeep(t) == {Kept(t)} \cup (IF Full THEN {} ELSE {bindings})

\* Mutant: a further conversation is bound without evicting another.
BoundToAny(b, s, c, t) == [b EXCEPT ![s] = [c |-> c, last |-> t]]

\* bindBalancedSessionLocked: the conversation used least recently gives way.
Bound(b, s, c, t) ==
    LET bound == {x \in Session : b[x] # NoBinding}
        evicted == IF s \in bound \/ Cardinality(bound) < SessionLimit THEN {}
                   ELSE {CHOOSE x \in bound : \A y \in bound : b[x].last <= b[y].last}
    IN  [x \in Session |-> IF x = s THEN [c |-> c, last |-> t]
                           ELSE IF x \in evicted THEN NoBinding ELSE b[x]]

\* bindings of observeBalancedUsage and concurrencyComplete: c renews the session it serves.
Renewed(s, c, t) ==
    IF bindings[s].c = c /\ t > bindings[s].last THEN [bindings EXCEPT ![s].last = t] ELSE bindings

\* adqProviderCircuitActiveLocked, which drops the circuits that have ended.
Broken(c, t) == t < circuits[c].until
Mended(t) == [c \in Credential |-> IF Broken(c, t) THEN circuits[c] ELSE NoCircuit]

\* adqCircuitBackoff
Backoff(n) == LET b == Base * 2 ^ (n - 1) IN IF b \in 1..Longest THEN b ELSE Longest
-----------------------------------------------------------------------------
Init ==
    /\ \E start \in Starts :
         /\ clock = start.clock
         /\ quotas = [c \in Credential |-> IF c \in start.unread THEN Unknown
                                          ELSE [at |-> clock, left |-> [l \in Layer |-> Max(Levels)]]]
    /\ latest = 0
    /\ work = [r \in Request |-> [c \in Credential |-> Nothing]]
    /\ bindings = [s \in Session |-> NoBinding]
    /\ circuits = [c \in Credential |-> NoCircuit]
    /\ pick = NoPick
    /\ requests = [r \in Request |-> Waiting]
    /\ spent = 0

\* s.mu is free.
Unlocked == pick.at \notin {"reserve", "full"}

Tick ==
    /\ clock < MaxClock
    /\ clock' = clock + 1
    /\ UNCHANGED <<latest, quotas, work, bindings, circuits, pick, requests, spent>>

\* schedulerPickUncapped up to the ranking: credentials whose circuit is open are left out.
Attempt(r, s, out) ==
    /\ pick' = [NoPick EXCEPT !.at = "rank", !.r = r, !.s = s, !.now = clock,
                              !.out = out \cup {c \in Credential : Broken(c, clock)}]
    /\ circuits' = Mended(clock)
    /\ UNCHANGED <<clock, latest, quotas, work, bindings, spent>>
Arrive(r, s) ==
    /\ pick.at = "none" /\ requests[r].life = "new"
    /\ Attempt(r, s, {})
    /\ requests' = [requests EXCEPT ![r].life = "picking", ![r].s = s]

\* balancedPick: the time, the entries and the candidates of a ranking.
T == Now(pick.now)
Candidates == Credential \ pick.out
Pruned == IF pick.at = "rank" THEN Fresh(Expired(work, T), Candidates, T) ELSE Expired(work, T)
Blind == \E c \in Candidates : quotas[c] = Unknown

\* The oldest entry gives way when the credential has MaxPending of them.
Appended(w, r, c, item) ==
    LET full == Entries(w, c)
        first == IF Cardinality(full) < MaxPending THEN {}
                 ELSE {CHOOSE q \in full : \A p \in full : w[q][c].at <= w[p][c].at}
    IN  [q \in Request |-> [d \in Credential |->
            IF q = r /\ d = c THEN item
            ELSE IF d = c /\ q \in first THEN Without(w[q][d])
            ELSE w[q][d]]]

Selected(w, b, c, item) ==
    /\ work' = Appended(w, pick.r, c, item)
    /\ bindings' = Bound(b, pick.s, c, T)
    /\ pick' = [NoPick EXCEPT !.at = "check", !.r = pick.r, !.s = pick.s, !.now = pick.now, !.c = c,
                              !.out = pick.out]

Ranking == /\ pick.at \in {"rank", "full"} /\ Candidates # {} /\ latest' = T
           /\ UNCHANGED <<clock, quotas, circuits, spent>>
Bindings == IF pick.at = "rank" THEN MayKeep(T) ELSE {bindings}

\* Not all readings are known: the fair-share order, without a reservation.  A live
\* conversation stays where it is.
RankBlind(c) ==
    /\ Ranking /\ Blind /\ c \in Candidates
    /\ Valid(pick.s, T) /\ bindings[pick.s].c \in Candidates => c = bindings[pick.s].c
    /\ \E b \in Bindings : Selected(Pruned, b, c, [Nothing EXCEPT !.at = T])
    /\ UNCHANGED requests

\* adqRouteChoicesWithAllocationLocked up to SetCapacity: the conversation's credential if
\* it is eligible, or else any that is.  A binding counts here for as long as it is kept.
Able(own) == {d \in Candidates \ pick.full : Eligible(Pruned, d, own)}
Rank(c) ==
    /\ Ranking /\ ~Blind
    /\ \E b \in Bindings :
         LET own == b[pick.s].c
         IN  /\ c \in Able(own)
             /\ own \in Able(own) => c = own
             /\ bindings' = b
    /\ work' = Pruned
    /\ pick' = [pick EXCEPT !.at = "reserve", !.c = c,
                            !.limit = [l \in Layer |-> Larger(0, quotas[c].left[l] - Uncovered(Pruned, c))]]
    /\ UNCHANGED requests

\* No candidate is left or none is eligible: CPA's own routing serves the request.
Native(c) ==
    /\ pick.at \in {"rank", "full"}
    /\ requests' = [requests EXCEPT ![pick.r].life = "picked", ![pick.r].c = c]
    /\ pick' = NoPick
    /\ \/ /\ Candidates = {}
          /\ UNCHANGED <<clock, latest, quotas, work, bindings, circuits, spent>>
       \/ /\ Ranking /\ ~Blind
          /\ \E b \in Bindings : Able(b[pick.s].c) = {} /\ bindings' = b
          /\ work' = Pruned

\* TryReserve: the book is asked under its own mutex.
Reserve ==
    LET c == pick.c
        w == Expired(work, T)
        lease == [Nothing EXCEPT !.at = T, !.lease = "active", !.until = T + LeaseTTL]
        fits == \A l \in LayersOf[c] : Reserved(w, c) + Cost <= pick.limit[l]
    IN
    /\ pick.at = "reserve"
    /\ \/ fits /\ Selected(w, bindings, c, lease)
       \/ /\ ~fits
          /\ work' = w
          /\ pick' = [pick EXCEPT !.at = "full", !.c = Nobody, !.full = @ \cup {c},
                                  !.limit = NoPick.limit]
          /\ UNCHANGED bindings
    /\ UNCHANGED <<clock, latest, quotas, circuits, requests, spent>>

\* The rest of schedulerPickUncapped: the choice stands, or the ranking starts over without
\* it because its circuit has opened or another request has its half-open probe.
Accept ==
    /\ pick.at = "check" /\ ~Broken(pick.c, pick.now)
    /\ requests' = [requests EXCEPT ![pick.r].life = "picked", ![pick.r].c = pick.c, ![pick.r].own = TRUE]
    /\ pick' = NoPick
    /\ UNCHANGED <<clock, latest, quotas, work, bindings, circuits, spent>>
Retry ==
    /\ pick.at = "check"
    /\ Attempt(pick.r, pick.s, pick.out \cup {pick.c})
    /\ UNCHANGED requests
-----------------------------------------------------------------------------
\* After-auth lets the request go upstream.
Send(r) ==
    /\ requests[r].life = "picked"
    /\ requests' = [requests EXCEPT ![r].life = "sent", ![r].start = clock]
    /\ UNCHANGED <<clock, latest, quotas, work, bindings, circuits, pick, spent>>

\* concurrencyComplete: what was never sent is rolled back by its token, on every
\* credential; what was sent renews its conversation.
RolledBack(r) ==
    [work EXCEPT ![r] = [c \in Credential |->
        IF Entry(r, c) THEN Nothing ELSE work[r][c]]]

End(r) ==
    LET q == requests[r] IN
    /\ Unlocked /\ q.life \in {"picked", "sent"}
    /\ requests' = [requests EXCEPT ![r].life = IF q.life = "sent" THEN "ended" ELSE "gone"]
    /\ IF q.life = "sent"
       THEN /\ latest' = Now(clock) /\ bindings' = Renewed(q.s, q.c, Now(clock))
            /\ UNCHANGED work
       ELSE work' = RolledBack(r) /\ UNCHANGED <<latest, bindings>>
    /\ UNCHANGED <<clock, quotas, circuits, pick, spent>>

\* observeBalancedUsage: the entry closest in time to the start of the request.
Distance(r, c, start) == LET d == work[r][c].at - start IN IF d < 0 THEN -d ELSE d
Closest(w, c, start) ==
    LET near == {r \in Entries(w, c) : Distance(r, c, start) < Tolerance}
    IN  {r \in near : \A q \in near : \/ Distance(r, c, start) < Distance(q, c, start)
                                      \/ /\ Distance(r, c, start) = Distance(q, c, start)
                                         /\ w[r][c].at <= w[q][c].at}

\* Settle: the debt of a request that used its quota stays until it is observed.
Settled(i, c, t) ==
    [i EXCEPT !.lease = "settling", !.until = t + SettleTTL,
              !.debt = [l \in Layer |-> IF l \in LayersOf[c] THEN Cost ELSE 0],
              !.base = quotas[c].left,
              !.seen = IF quotas[c] = Unknown THEN Never ELSE Larger(t, quotas[c].at)]

\* Mutant: the entry of a request that used its quota is kept.
SettledInPlace(i, c, t, outcome) ==
    IF outcome = "used" /\ i.lease \in {"active", "expired"} THEN Settled(i, c, t) ELSE Nothing

\* The matched entry is removed; its reservation settles, or is released.
Matched(i, c, t, outcome) ==
    IF outcome = "used" /\ i.lease \in {"active", "expired"}
    THEN [Settled(i, c, t) EXCEPT !.at = Never] ELSE Nothing

\* Mutant: a record that comes again is not recognised.
ForgetsRecords(r) == FALSE

\* account.Completed holds the record of r.
Recorded(r) == requests[r].matched

\* observeADQProviderOutcome
Outcome(c, outcome, t) ==
    CASE outcome = "overload" ->
           LET n == circuits[c].failures + 1
           IN  [circuits EXCEPT ![c] = [until |-> t + Backoff(n), failures |-> n]]
      [] outcome = "auth" -> [circuits EXCEPT ![c] = [until |-> t + AuthRetry, failures |-> 1]]
      [] outcome = "failed" -> circuits
      [] OTHER -> [circuits EXCEPT ![c] = NoCircuit]

\* observeUsage with a record captured at t: the pending estimate, then the circuit.
Observe(r, outcome, t) ==
    LET c == requests[r].c
        w == Fresh(work, {c}, Now(t))
        found == IF Recorded(r) THEN {} ELSE Closest(w, c, requests[r].start)
    IN
    /\ Unlocked
    /\ latest' = Now(t)
    /\ circuits' = Outcome(c, outcome, t)
    /\ \/ /\ found = {}
          /\ work' = w
          /\ requests' = [requests EXCEPT ![r].outcome = outcome]
          /\ UNCHANGED bindings
       \/ \E q \in found :
            /\ work' = [w EXCEPT ![q][c] = Matched(@, c, Now(t), outcome)]
            /\ requests' = [requests EXCEPT ![r].outcome = outcome, ![r].matched = TRUE]
            /\ bindings' = Renewed(requests[q].s, c, Now(t))
    /\ UNCHANGED <<clock, quotas, pick>>

\* Times at which a callback that now gets the lock may have been captured.
Captured == {clock} \cup (IF clock > 0 THEN {clock - 1} ELSE {})

Usage(r, outcome, t) ==
    /\ requests[r].life \in {"sent", "ended"} /\ requests[r].outcome = "none" /\ t >= requests[r].start
    /\ Observe(r, outcome, t)
    /\ IF outcome = "used" THEN UNCHANGED spent ELSE spent < MaxEvents /\ spent' = spent + 1
Repeat(r) ==
    /\ requests[r].outcome # "none" /\ spent < MaxEvents
    /\ Observe(r, requests[r].outcome, clock)
    /\ spent' = spent + 1
-----------------------------------------------------------------------------
\* ObserveQuota: a newer reading that differs from the one at settlement pays the debt of
\* its window.
Pays(i, l, reading) ==
    i.seen # Never /\ reading.at > i.seen /\ reading.left[l] # i.base[l]
Paid(i, reading) ==
    LET debt == [l \in Layer |-> IF Pays(i, l, reading) THEN 0 ELSE i.debt[l]] IN
    IF i.lease # "settling" THEN i
    ELSE IF \A l \in Layer : debt[l] = 0 THEN [Nothing EXCEPT !.dropped = i.dropped]
    ELSE [i EXCEPT !.debt = debt]

\* refreshOnce and observeUsage: a reading is stored under s.mu and the book told of it.
Read(c, left) ==
    /\ Unlocked /\ spent < MaxEvents /\ clock > quotas[c].at
    /\ quotas' = [quotas EXCEPT ![c] = [at |-> clock, left |-> left]]
    /\ LET w == Expired(work, clock)
       IN  work' = [r \in Request |-> [w[r] EXCEPT ![c] = Paid(@, quotas'[c])]]
    /\ spent' = spent + 1
    /\ UNCHANGED <<clock, latest, bindings, circuits, pick, requests>>

\* The status page reads the book.
Look ==
    /\ work' = Expired(work, clock)
    /\ UNCHANGED <<clock, latest, quotas, bindings, circuits, pick, requests, spent>>

Next ==
    \/ Tick \/ Reserve \/ Accept \/ Retry \/ Look
    \/ \E c \in Credential : Rank(c) \/ RankBlind(c) \/ Native(c)
    \/ \E r \in Request :
         \/ \E s \in Session : Arrive(r, s)
         \/ Send(r) \/ End(r) \/ Repeat(r)
         \/ \E o \in Outcomes, t \in Captured : Usage(r, o, t)
    \/ \E c \in Credential, left \in [Layer -> Levels] : Read(c, left)

Spec == Init /\ [][Next]_vars
-----------------------------------------------------------------------------
Reading == [at : 0..MaxClock, left : [Layer -> Levels]] \cup {Unknown}
Debt == 0..Cost

\* Every variable keeps its shape; a credential has at most MaxPending entries
\* (balancedPick) and SessionLimit conversations are bound (bindBalancedSessionLocked).
TypeOK ==
    /\ clock \in 0..MaxClock /\ latest \in 0..clock
    /\ quotas \in [Credential -> Reading]
    /\ \A r \in Request, c \in Credential :
         work[r][c] \in [at : {Never} \cup 0..clock,
                         lease : {"none", "active", "expired", "settling"},
                         until : {Never} \cup 0..clock + LeaseTTL + SettleTTL, debt : [Layer -> Debt],
                         base : [Layer -> Levels \cup {0}], seen : {Never} \cup 0..clock, dropped : BOOLEAN]
    /\ \A c \in Credential : Cardinality(Entries(work, c)) <= MaxPending
    /\ bindings \in [Session -> {NoBinding} \cup [c : Credential, last : 0..clock]]
    /\ Cardinality({s \in Session : bindings[s] # NoBinding}) <= SessionLimit
    /\ circuits \in [Credential -> {NoCircuit} \cup [until : 0..clock + Longest + AuthRetry,
                                                        failures : 1..Cardinality(Request) + MaxEvents]]
    /\ pick.at \in {"none", "rank", "reserve", "full", "check"} /\ pick.out \subseteq Credential
    /\ spent \in 0..MaxEvents

\* A debit is counted once: by its reservation as long as that lasts, else by its pending
\* entry, and by the settling debt only after the entry is gone (adq_pbs.go:993-995,
\* balanced.go:370-402).  A reservation in force has its entry, unless the list was full.
DebitOnce ==
    \A r \in Request, c \in Credential :
        LET i == work[r][c] IN
        /\ i.at # Never => i.lease \in {"none", "active", "expired"}
        /\ i.lease = "active" => i.at # Never \/ i.dropped

\* Although completions carry no identity and take the entry closest in time, a credential
\* has as many entries as it has executions whose usage is still to come.  Exempt are
\* entries dropped for their number or age, and one for each record of a request that CPA
\* routed by itself (balanced.go:340-343 "unmatched late events never debit new work").
Running(c) == {r \in Request : /\ requests[r].own /\ requests[r].c = c
                               /\ requests[r].life # "gone" /\ requests[r].outcome = "none"}
Dropped(c) == {r \in Request : work[r][c].dropped}
Strays(c) == {r \in Request : ~requests[r].own /\ requests[r].c = c /\ requests[r].matched}
RunningWorkIsCounted ==
    \A c \in Credential :
        Cardinality(Entries(work, c)) + Cardinality(Dropped(c)) + Cardinality(Strays(c))
            >= Cardinality(Running(c))

\* A conversation that was used within sticky_seconds, or still has an execution, stays on
\* its credential as long as that passes the hard gate, however long the pick waited for
\* the lock (balanced.go:185-187, balanced_session.go:202-204).
Conversing(s) == /\ bindings[s] # NoBinding
                 /\ clock - bindings[s].last <= Sticky \/ Active(s, bindings[s].c)
ConversationsStay ==
    [][LET own == bindings[pick.s].c
       IN  /\ pick.at = "rank" /\ pick'.at \in {"reserve", "check"}
           /\ Conversing(pick.s) /\ own \in Candidates
           /\ Blind \/ Eligible(Pruned, own, own)
           => pick'.c = own]_vars
=============================================================================
