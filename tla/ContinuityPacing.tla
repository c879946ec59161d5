-------------------------- MODULE ContinuityPacing --------------------------
(***************************************************************************)
(* The pacing gate of continuity.go: before an execution is selected, the  *)
(* host asks whether it may go on or should wait; under measured pressure  *)
(* the gate hands out permits for points of time that lie an interval      *)
(* apart on every credential that could serve the execution.               *)
(*                                                                         *)
(* Time is kept relative to the present: left is how long until a permit   *)
(* is due (negative once it is overdue), since how long ago a credential   *)
(* was last used, skew how long ago a call under way read its clock.       *)
(* Values nothing can distinguish any more are folded into one, so the     *)
(* model runs for ever over finitely many states.                          *)
(*                                                                         *)
(* Simplifications.  Which candidates are ready and what interval is       *)
(* measured are choices, for they come from observed quota and floating    *)
(* point rates.  An interval is only measured for candidates with a        *)
(* five-hour window, so the scope is never empty, and nextPermit, which    *)
(* serves callers without a scope, is left out with what computes it.      *)
(***************************************************************************)
EXTENDS Integers, FiniteSets, FiniteSetsExt

CONSTANTS Request,          \* executions, by lifecycle ID
          Credential,       \* auth IDs
          Pools,            \* the sets of candidates that may be ready at once
          CyclesOf,         \* what may be observed of a credential's quota cycle
          Jitter,           \* quotaRunwayResetTolerance
          Intervals,        \* pacing intervals under pressure
          MaxWait,          \* continuity_max_wait
          MaxReservations,  \* continuityMaxReservations
          MaxSkew           \* how long a call may wait for s.mu after reading its clock

ASSUME PacingAssumption ==
    /\ IsFiniteSet(Request) /\ IsFiniteSet(Credential)
    /\ Pools \subseteq (SUBSET Credential) \ {{}}
    /\ CyclesOf \in [Credential -> SUBSET [index : Nat, reset : Nat, weeklyOnly : BOOLEAN]]
    /\ Jitter \in Nat /\ MaxWait \in Nat /\ MaxReservations \in Nat /\ MaxSkew \in Nat
    \* the interval is the minimum of 1/target and MaxWait, and a second at least
    /\ Intervals # {} /\ Intervals \subseteq 1..MaxWait /\ IsFiniteSet(Intervals)

VARIABLES
    permits,   \* reservations, scopes, intervals and dispatched: [holders -> permit]
    cycles,    \* g.cycles: the anchor of each credential's cycle, [subset of Credential -> Cycles]
    since,     \* age of g.lastByAuth, Old if there is none that matters
    observed,  \* the quota snapshots: [Credential -> Cycles]
    phase,     \* where the host is with an execution
    skew,      \* age of the clock reading of the assessment under way
    deadline   \* the host's wait budget left, NoDeadline before the first wait

vars == <<permits, cycles, since, observed, phase, skew, deadline>>
-----------------------------------------------------------------------------
Cycles == UNION {CyclesOf[c] : c \in Credential}

Old == Max(Intervals) + MaxSkew
Overdue == -(MaxWait + MaxSkew + 1)
NoDeadline == MaxWait + 1

Abs(n) == IF n < 0 THEN -n ELSE n

\* continuitySameCycle with quotaRunwaySameReset
SameCycle(a, b) ==
    /\ a.index = b.index
    /\ a.weeklyOnly = b.weeklyOnly
    /\ a.weeklyOnly \/ Abs(a.reset - b.reset) <= Jitter

\* continuitySameScope
SameScope(s, t) == DOMAIN s = DOMAIN t /\ \A c \in DOMAIN s : SameCycle(s[c], t[c])

\* continuityScopesOverlap
Overlap(s, t) == DOMAIN s \cap DOMAIN t # {}

Holders == DOMAIN permits
Without(f, S) == [x \in DOMAIN f \ S |-> f[x]]
Waiting(f) == {r \in DOMAIN f : ~f[r].dispatched}
-----------------------------------------------------------------------------
(* setPacingCycle: anchors of new cycles, and what a changed cycle voids.   *)

Changed(scope) ==
    {c \in DOMAIN scope \cap DOMAIN cycles : ~SameCycle(cycles[c], scope[c])}

\* An unchanged cycle keeps its first reading, so that small moves do not add up.
Anchored(scope) ==
    [c \in DOMAIN scope \cup DOMAIN cycles |->
        IF c \in DOMAIN scope \ (DOMAIN cycles \ Changed(scope)) THEN scope[c] ELSE cycles[c]]

Voided(f, scope) ==
    {r \in Waiting(f) : DOMAIN f[r].scope \cap Changed(scope) # {}}

Forgotten(C) == [c \in Credential |-> IF c \in C THEN Old ELSE since[c]]
-----------------------------------------------------------------------------
(* pace, with the clock d ago.                                              *)

\* Mutant: expiry is counted from the promised time without the grace of a wait.
ExpiredEarly(f, d) == {r \in Waiting(f) : f[r].left < -d}

\* A waiting permit nobody came back for.
Expired(f, d) == {r \in Waiting(f) : f[r].left + MaxWait < -d}

\* Mutants: the interval of the earlier permit, or the last use, is left out.
EarliestOwn(f, ages, scope, interval, d) ==
    Max({-d} \cup {interval - ages[c] : c \in DOMAIN scope}
             \cup {f[q].left + interval :
                      q \in {p \in Waiting(f) : Overlap(f[p].scope, scope)}})
EarliestAlone(f, ages, scope, interval, d) ==
    Max({-d} \cup {f[q].left + Max({interval, f[q].interval}) :
                      q \in {p \in Waiting(f) : Overlap(f[p].scope, scope)}})

\* The first time that is apart from the last use of every credential in the
\* scope and from every permit promised on one of them.
Earliest(f, ages, scope, interval, d) ==
    Max({-d} \cup {interval - ages[c] : c \in DOMAIN scope}
             \cup {f[q].left + Max({interval, f[q].interval}) :
                      q \in {p \in Waiting(f) : Overlap(f[p].scope, scope)}})

\* The permit r holds already still stands.
Keeps(f, r, scope) == r \in DOMAIN f /\ (f[r].dispatched \/ SameScope(f[r].scope, scope))

NewPermit(at, scope, interval) ==
    [left |-> at, scope |-> scope, interval |-> interval, dispatched |-> FALSE]

Due(f, r, d) == f[r].left <= -d

\* Mutant: a permit may lie any time ahead.
PacedUnbounded(f, ages, r, scope, interval, d) ==
    LET live == Without(f, Expired(f, d))
        rest == Without(live, {r})
        at   == Earliest(rest, ages, scope, interval, d)
        with == [q \in DOMAIN rest \cup {r} |->
                    IF q = r THEN NewPermit(at, scope, interval) ELSE rest[q]]
    IN  IF Keeps(live, r, scope) THEN [permits |-> live, go |-> Due(live, r, d)]
        ELSE [permits |-> with, go |-> Due(with, r, d)]

\* What the gate answers: the permits afterwards and whether r may go on.
Paced(f, ages, r, scope, interval, d) ==
    LET live == Without(f, Expired(f, d))
        rest == Without(live, {r})
        at   == Earliest(rest, ages, scope, interval, d)
        with == [q \in DOMAIN rest \cup {r} |->
                    IF q = r THEN NewPermit(at, scope, interval) ELSE rest[q]]
    IN  IF Keeps(live, r, scope) THEN [permits |-> live, go |-> Due(live, r, d)]
        ELSE IF Cardinality(DOMAIN rest) >= MaxReservations \/ at + d > MaxWait
             THEN [permits |-> rest, go |-> FALSE]
             ELSE [permits |-> with, go |-> Due(with, r, d)]
-----------------------------------------------------------------------------
Init ==
    /\ permits = <<>>
    /\ cycles = <<>>
    /\ since = [c \in Credential |-> Old]
    /\ observed \in {o \in [Credential -> Cycles] : \A c \in Credential : o[c] \in CyclesOf[c]}
    /\ phase = [r \in Request |-> "new"]
    /\ skew = [r \in Request |-> 0]
    /\ deadline = [r \in Request |-> NoDeadline]

\* The host calls the gate, which reads its clock: before the first attempt, at each
\* wakeup, or after an attempt that was rejected.  A budget that is spent ends the wait.
Call(r) ==
    /\ phase[r] \in {"new", "waiting", "sent"}
    /\ deadline[r] > 0
    /\ phase' = [phase EXCEPT ![r] = "assessing"]
    /\ UNCHANGED <<permits, cycles, since, observed, skew, deadline>>

\* The host goes on, or starts or continues its bounded wait.
Answer(r, go) ==
    /\ skew' = [skew EXCEPT ![r] = 0]
    /\ phase' = [phase EXCEPT ![r] = IF @ = "late" THEN "over"
                                    ELSE IF go THEN "ready" ELSE "waiting"]
    /\ deadline' = [deadline EXCEPT ![r] =
           IF phase[r] = "late" \/ go \/ @ # NoDeadline THEN @ ELSE MaxWait]

Assessing(r) == phase[r] \in {"assessing", "late"}

ScopeOf(C) == [c \in C |-> observed[c]]

\* Every candidate is measured and the pool burns faster than it refills.
AssessPaced(r) ==
    /\ Assessing(r)
    /\ \E C \in Pools, interval \in Intervals :
         LET scope == ScopeOf(C)
             kept  == Without(permits, Voided(permits, scope))
             ages  == Forgotten(Changed(scope))
             paced == Paced(kept, ages, r, scope, interval, skew[r])
         IN  /\ \A c \in C : ~observed[c].weeklyOnly
             /\ cycles' = Anchored(scope)
             /\ since' = ages
             /\ permits' = paced.permits
             /\ Answer(r, paced.go)
    /\ UNCHANGED observed

\* clearPacingScope: no pressure, the permits of this scope are void.
AssessUnpaced(r) ==
    /\ Assessing(r)
    /\ \E C \in Pools :
         LET scope == ScopeOf(C)
             kept  == Without(permits, Voided(permits, scope))
         IN  /\ cycles' = Anchored(scope)
             /\ since' = Forgotten(Changed(scope))
             /\ permits' = Without(kept, {q \in Waiting(kept) :
                                            q = r \/ SameScope(kept[q].scope, scope)})
    /\ Answer(r, TRUE)
    /\ UNCHANGED observed

\* Every candidate has spent what was measured: wait for a new observation.
AssessRecheck(r) ==
    /\ Assessing(r)
    /\ \E C \in Pools :
         LET scope == ScopeOf(C)
         IN  /\ \A c \in C : ~observed[c].weeklyOnly
             /\ cycles' = Anchored(scope)
             /\ since' = Forgotten(Changed(scope))
             /\ permits' = Without(permits, Voided(permits, scope))
    /\ Answer(r, FALSE)
    /\ UNCHANGED observed

\* No candidate is ready: wait for quota, or let the host report that there is none.
AssessBlocked(r) ==
    /\ Assessing(r)
    /\ \E go \in BOOLEAN : Answer(r, go)
    /\ UNCHANGED <<permits, cycles, since, observed>>

\* clearPacing, when pacing is off or the plugin is configured.
Cleared ==
    /\ permits' = Without(permits, Waiting(permits))
    /\ cycles' = <<>>
    /\ since' = Forgotten(Credential)

AssessOff(r) ==
    /\ Assessing(r)
    /\ Cleared
    /\ Answer(r, TRUE)
    /\ UNCHANGED observed

Configure == Cleared /\ UNCHANGED <<observed, phase, skew, deadline>>

\* Scope and interval of a used permit are not read again and folded away.
Used(p) == [p EXCEPT !.dispatched = TRUE, !.scope = <<>>, !.interval = Min(Intervals)]

\* The first attempt of an execution uses its permit up.
Uses(r) == r \in Holders /\ ~permits[r].dispatched

\* continuityDispatched: after-auth let r go to credential c.
Dispatch(r) ==
    /\ phase[r] = "ready"
    /\ phase' = [phase EXCEPT ![r] = "sent"]
    /\ IF Uses(r)
       THEN /\ permits' = [permits EXCEPT ![r] = Used(@)]
            \* the selected credential, or all that could have been if none is known
            /\ \E C \in {{c} : c \in Credential} \cup {DOMAIN permits[r].scope} :
                 since' = [c \in Credential |-> IF c \in C THEN 0 ELSE since[c]]
       ELSE UNCHANGED <<permits, since>>
    /\ UNCHANGED <<cycles, observed, skew, deadline>>

\* Mutant: a permit that was used is kept.
FreedUnused(r) == Without(permits, {r} \cap Waiting(permits))

Freed(r) == Without(permits, {r})

\* continuityComplete: the terminal callback, also while an assessment is under way.
Complete(r) ==
    /\ phase[r] \notin {"late", "over"}
    /\ permits' = Freed(r)
    /\ phase' = [phase EXCEPT ![r] = IF @ = "assessing" THEN "late" ELSE "over"]
    /\ deadline' = [deadline EXCEPT ![r] = NoDeadline]
    /\ UNCHANGED <<cycles, since, observed, skew>>

\* A refresh observes a credential: a rolled window, which up to the jitter only moves
\* on, another binding, a changed plan.
Observe(c) ==
    /\ \E y \in CyclesOf[c] \ {observed[c]} :
          /\ y.reset + Jitter >= observed[c].reset
          /\ observed' = [observed EXCEPT ![c] = y]
    /\ UNCHANGED <<permits, cycles, since, phase, skew, deadline>>

\* pruneContinuityUsage with an inventory that lists only C of the paced credentials.
Prune ==
    /\ \E C \in SUBSET DOMAIN cycles :
         LET gone == {c \in DOMAIN cycles : c \notin C \/ cycles[c].index # observed[c].index}
         IN  /\ gone # {}
             /\ cycles' = Without(cycles, gone)
             /\ since' = Forgotten(gone)
    /\ UNCHANGED <<permits, observed, phase, skew, deadline>>

Tick ==
    /\ \A r \in Request : Assessing(r) => skew[r] < MaxSkew
    /\ permits' = [r \in Holders |-> [permits[r] EXCEPT !.left =
                        Max({@ - 1, IF permits[r].dispatched THEN -MaxSkew ELSE Overdue})]]
    /\ since' = [c \in Credential |-> Min({since[c] + 1, Old})]
    /\ skew' = [r \in Request |-> IF Assessing(r) THEN skew[r] + 1 ELSE 0]
    /\ deadline' = [r \in Request |->
          IF deadline[r] = NoDeadline THEN NoDeadline ELSE Max({deadline[r] - 1, 0})]
    /\ UNCHANGED <<cycles, observed, phase>>

Next ==
    \/ \E r \in Request : \/ Call(r) \/ AssessPaced(r) \/ AssessUnpaced(r) \/ AssessRecheck(r)
                          \/ AssessBlocked(r) \/ AssessOff(r) \/ Dispatch(r) \/ Complete(r)
    \/ \E c \in Credential : Observe(c)
    \/ Configure \/ Prune \/ Tick

Spec == Init /\ [][Next]_vars
-----------------------------------------------------------------------------
Permit == [left : Overdue..MaxWait, interval : Intervals, dispatched : BOOLEAN,
           scope : UNION {[C -> Cycles] : C \in SUBSET Credential}]

\* Types; a permit lies at most one maximum wait ahead, and the table is bounded.
TypeOK ==
    /\ Holders \subseteq Request /\ Cardinality(Holders) <= MaxReservations
    /\ \A r \in Holders : permits[r] \in Permit
    /\ DOMAIN cycles \subseteq Credential /\ \A c \in DOMAIN cycles : cycles[c] \in Cycles
    /\ since \in [Credential -> 0..Old]
    /\ observed \in [Credential -> Cycles]
    /\ phase \in [Request -> {"new", "assessing", "waiting", "ready", "sent", "late", "over"}]
    /\ skew \in [Request -> 0..MaxSkew]
    /\ deadline \in [Request -> 0..NoDeadline]

\* Two permits that wait for a common credential lie apart by the longer of
\* their intervals, whatever was cancelled, re-scoped or cleared in between
\* (of those long overdue the exact age is folded away).
PermitsApart ==
    \A r, q \in {p \in Waiting(permits) : permits[p].left > Overdue} :
        r # q /\ Overlap(permits[r].scope, permits[q].scope)
            => Abs(permits[r].left - permits[q].left)
                 >= Max({permits[r].interval, permits[q].interval})

\* A permit that was used up belongs to an execution that still runs: the table
\* of bounded size is never filled by entries nobody will remove (only a waiting
\* permit may be orphaned, and it expires).
UsedPermitsAreOwned ==
    \A r \in Holders : permits[r].dispatched => phase[r] \in {"sent", "assessing", "waiting", "ready"}

\* An execution that comes back to a pool it already has a permit for is not
\* sent back to the end of the line (it presumes that calls do not wait long for s.mu:
\* the host's budget starts with the answer, a permit's expiry with the clock reading).
Postponed(r) ==
    /\ phase[r] = "assessing" /\ r \in Waiting(permits) /\ r \in Waiting(permits')
    /\ SameScope(permits[r].scope, permits'[r].scope)
    /\ DOMAIN permits[r].scope \cap Changed(permits'[r].scope) = {}
    /\ permits'[r].left > permits[r].left

NobodyIsPostponed == [][\A r \in Request : ~Postponed(r)]_vars

\* No permit is granted on a credential that was used less than the permit's
\* interval before it, while its cycle goes on.
Granted(r) == /\ r \in Waiting(permits')
              /\ r \notin Holders \/ permits'[r] # permits[r]

GrantsKeepDistance ==
    [][\A r \in Request : Assessing(r) /\ phase'[r] # phase[r] /\ Granted(r) =>
          \A c \in DOMAIN permits'[r].scope :
              c \notin Changed(permits'[r].scope)
                  => permits'[r].left + since[c] >= permits'[r].interval]_vars
=============================================================================
