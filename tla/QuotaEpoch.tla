----------------------------- MODULE QuotaEpoch -----------------------------
(***************************************************************************)
(* Quota observation and the epochs of the credential pool                 *)
(* (quota_refresh.go, quota_demand.go, quota_epoch.go, usage callbacks in  *)
(* runtime.go).  A refresh reads the inventory, probes credentials one     *)
(* after another with s.mu released during each request, and collects      *)
(* evidence that the provider reset their quota.  A quorum confirms a new  *)
(* epoch, in which every credential may be activated once.  Usage          *)
(* callbacks, the headers they carry and the outcome of an activation      *)
(* arrive at any point of a refresh.                                       *)
(*                                                                         *)
(* Simplifications.  A quota reading is the reset it comes after and       *)
(* whether any quota was used since; only the longest window is kept.      *)
(* Provider telemetry may lag but does not go back.  Timestamps are        *)
(* replaced by what their comparisons decide: a deadline that has passed,  *)
(* a probe of this round, a usage since the observation.  Backoff and the  *)
(* delays between probes only postpone, so any probe may be late or left   *)
(* out.  Activations outside of an epoch, and the time for which a failed  *)
(* one suppresses the next, are those of module Warmup.  One instance,     *)
(* which owns the generation; persistence, bans, reservations and the auth *)
(* expiry check that refreshOnce also feeds are left out here.             *)
(***************************************************************************)
EXTENDS Integers, FiniteSets

CONSTANTS Credential,    \* credentials the host may hold
          Nobody,        \* no credential
          MaxRounds,     \* quotaEpochSweepMaxRounds
          ProbeLimit,    \* quotaEpochPendingProbeLimit
          Batch,         \* quota_refresh_batch
          MaxReset,      \* bound: resets by the provider
          MaxUse,        \* bound: usage callbacks
          MaxMove,       \* bound: changes of the host's inventory
          MaxEpoch,      \* bound: epochs confirmed
          MaxWarm,       \* bound: activations admitted
          MaxTrouble,    \* bound: probes that fail or are cancelled
          MaxEvents      \* bound: all of these events together, epochs left aside

ASSUME QuotaEpochAssumption ==
    /\ Nobody \notin Credential /\ IsFiniteSet(Credential)
    /\ {MaxRounds, ProbeLimit, Batch} \subseteq Nat \ {0}
    /\ {MaxReset, MaxUse, MaxMove, MaxEpoch, MaxWarm, MaxTrouble, MaxEvents} \subseteq Nat

Reading == [cycle : 0..MaxReset, used : BOOLEAN]
Unknown == [cycle |-> -1, used |-> FALSE]

VARIABLES
    truth,    \* the provider: [Credential -> Reading]
    host,     \* credentials in the host's inventory
    quotas,   \* s.quotas: [Credential -> Reading or Unknown]
    polls,    \* s.quotaPolls: demand, error, usage since the last good observation
    epoch,    \* s.quotaEpoch with its accounts
    sweep,    \* s.quotaEpoch.Sweep
    refresh,  \* the worker in refreshOnce
    rows,     \* s.warmups: completed and blocked activations
    warmup,   \* the running activation
    spent,    \* bounds: counters of the environment's actions
    history   \* history: what the properties compare with

vars == <<truth, host, quotas, polls, epoch, sweep, refresh, rows, warmup, spent, history>>

Count(what) == spent' = [spent EXCEPT ![what] = @ + 1]
Left(what, bound) ==
    /\ spent[what] < bound
    /\ spent.reset + spent.use + spent.move + spent.warm + spent.trouble < MaxEvents
-----------------------------------------------------------------------------
NoAccount == [state |-> "none", seen |-> FALSE, probes |-> 0, late |-> FALSE]
Pending == [NoAccount EXCEPT !.state = "pending"]
NoTarget == [in |-> FALSE, tried |-> FALSE, observed |-> "no", evidence |-> FALSE]
Target == [NoTarget EXCEPT !.in = TRUE]
NoSweep == [active |-> FALSE, cause |-> "none", overdue |-> FALSE, round |-> 1, waiting |-> FALSE,
            users |-> {}, target |-> [c \in Credential |-> NoTarget]]
NoRow == [epoch |-> 0, kind |-> "none"]
NoPoll == [pending |-> FALSE, error |-> FALSE, used |-> FALSE]
Resting == [at |-> "idle", c |-> Nobody, had |-> NoPoll, used |-> FALSE, header |-> FALSE,
            early |-> FALSE, inv |-> {}, read |-> {}, asked |-> {}, then |-> "ready", blocked |-> {}]
NoWarmup == [at |-> "none", c |-> Nobody, epoch |-> 0, outcome |-> "none"]

Known == {c \in Credential : quotas[c] # Unknown}
Unstarted(r) == r # Unknown /\ ~r.used
AtMost(r, s) == r.cycle < s.cycle \/ (r.cycle = s.cycle /\ (r.used => s.used))

\* quotaEpochQuorum
Half(n) == (n + 1) \div 2
Quorum(n) == IF n <= 1 THEN n ELSE IF Half(n) < 2 THEN 2 ELSE Half(n)

Targets(sw) == {c \in Credential : sw.target[c].in}
Evidence(sw) == {c \in Targets(sw) : sw.target[c].evidence}
Observed(sw) == {c \in Targets(sw) : sw.target[c].observed = "yes"}
\* Mutant: half of the targets is enough, without the minimum of two.
RequiredHalf(sw) == Half(Cardinality(Targets(sw)))

Required(sw) == Quorum(Cardinality(Targets(sw)))

RoundComplete(sw) == \A c \in Targets(sw) \ Evidence(sw) : sw.target[c].tried

\* quotaEpochResetEvidence: a placeholder before the reading proves nothing.
ResetEvidence(before, after) ==
    /\ before # Unknown /\ before.used
    /\ after.cycle > before.cycle

\* quotaEpochResetMatchesCurrent
MatchesCurrent(e, r) == e.id # 0 /\ e.age < 2 /\ r.cycle = e.cycle
-----------------------------------------------------------------------------
Fresh(sw, cause) == ~sw.active \/ (cause = "reset" /\ sw.cause # "reset")

\* beginQuotaEpochSweepLocked: a new sweep, a bootstrap that turns into a reset sweep,
\* or a running one whose targets follow the inventory S.
Begin(sw, S, cause) ==
    LET fresh == Fresh(sw, cause)
        kept == IF fresh THEN {} ELSE S \cap Targets(sw)
        base == IF fresh THEN [sw EXCEPT !.active = TRUE, !.cause = cause, !.overdue = FALSE,
                                         !.round = 1, !.waiting = FALSE, !.users = {}]
                ELSE sw
    IN  IF S = {} THEN sw
        ELSE [base EXCEPT !.target = [c \in Credential |->
                 IF c \in kept THEN sw.target[c] ELSE IF c \in S THEN Target ELSE NoTarget]]

\* prepareQuotaEpochInventoryLocked
Accounts(e, S) == [e EXCEPT !.account = [c \in Credential |-> IF c \in S THEN @[c] ELSE NoAccount]]
Prepare(e, sw, S) ==
    IF sw.active THEN Begin(sw, S, sw.cause)
    ELSE IF e.id = 0 THEN Begin(sw, S, "bootstrap")
    ELSE IF \E c \in S : e.account[c] = NoAccount THEN Begin(sw, S, "inventory")
    ELSE sw

\* quotaEpochMedianResetLocked
Median(S) == IF S = {} THEN Unknown.cycle
             ELSE CHOOSE v \in {quotas'[c].cycle : c \in S} :
                    /\ Cardinality({c \in S : quotas'[c].cycle < v}) <= Cardinality(S) \div 2
                    /\ Cardinality({c \in S : quotas'[c].cycle <= v}) > Cardinality(S) \div 2

\* quotaEpochAccountFromSnapshot
FromSnapshot(r) == [Pending EXCEPT !.seen = TRUE, !.state = IF Unstarted(r) THEN "pending" ELSE "natural"]

\* confirmQuotaEpochLocked: the account of a target in the new epoch.
Proven(sw, c, cause) == cause # "reset" \/ sw.target[c].evidence

Confirmed(sw, c, cause) ==
    LET observed == sw.target[c].observed = "yes" /\ quotas'[c] # Unknown
        account == IF observed /\ Proven(sw, c, cause) THEN FromSnapshot(quotas'[c])
                   ELSE IF observed /\ Unstarted(quotas'[c]) THEN [Pending EXCEPT !.seen = TRUE]
                   ELSE Pending
    IN  IF ~sw.target[c].in THEN NoAccount
        ELSE IF c \in sw.users THEN [account EXCEPT !.state = "natural"]
        ELSE account

Confirm(e, sw, cause) ==
    [id |-> e.id + 1, reason |-> cause, age |-> 0,
     cycle |-> Median(IF cause = "reset" THEN Evidence(sw) \cap {c \in Credential : sw.target[c].observed # "no"}
                      ELSE {c \in Targets(sw) : sw.target[c].observed # "no"}),
     account |-> [c \in Credential |-> Confirmed(sw, c, cause)]]

\* scheduleNextQuotaEpochSweepRoundLocked: a round that still fits before the deadline.
NextRound(sw) ==
    [sw EXCEPT !.round = @ + 1, !.waiting = TRUE,
               !.target = [c \in Credential |-> IF @[c].evidence THEN @[c] ELSE [@[c] EXCEPT !.tried = FALSE]]]

\* finalizeQuotaEpochSweepLocked, on the record e and sweep sw just updated.  What an ended
\* sweep leaves behind is only displayed.
Finalize(e, sw) ==
    LET n == Cardinality(Targets(sw))
        byReset == sw.cause = "reset" /\ Required(sw) > 0 /\ Cardinality(Evidence(sw)) >= Required(sw)
        first == /\ sw.cause # "reset" /\ e.id = 0 /\ Observed(sw) # {}
                 /\ Cardinality(Observed(sw)) = n \/ sw.overdue
        joined == {c \in Targets(sw) : /\ e.account[c] = NoAccount /\ sw.target[c].observed # "no"
                                       /\ quotas'[c] # Unknown}
        over == sw.overdue \/ (sw.cause # "reset" /\ Cardinality(Observed(sw)) = n)
    IN  IF ~sw.active THEN epoch' = e /\ sweep' = sw
        ELSE IF byReset THEN epoch' = Confirm(e, sw, "reset") /\ sweep' = NoSweep
        ELSE IF first THEN epoch' = Confirm(e, sw, "bootstrap") /\ sweep' = NoSweep
        ELSE /\ epoch' = IF sw.cause = "inventory" /\ e.id # 0
                         THEN [e EXCEPT !.account = [c \in Credential |->
                                  IF c \in joined THEN FromSnapshot(quotas'[c]) ELSE @[c]]]
                         ELSE e
             /\ \/ over /\ sweep' = NoSweep
                \/ ~over /\ sw.cause = "reset" /\ RoundComplete(sw) /\ sw.round < MaxRounds /\ sweep' = NextRound(sw)
                \/ ~over /\ sweep' = sw
-----------------------------------------------------------------------------
Init ==
    /\ truth \in [Credential -> {[cycle |-> 0, used |-> u] : u \in BOOLEAN}]
    /\ host = Credential
    /\ quotas = [c \in Credential |-> Unknown]
    /\ polls = [c \in Credential |-> NoPoll]
    /\ epoch = [id |-> 0, reason |-> "none", age |-> 0, cycle |-> Unknown.cycle,
                account |-> [c \in Credential |-> NoAccount]]
    /\ sweep = NoSweep
    /\ refresh = Resting
    /\ rows = [c \in Credential |-> NoRow]
    /\ warmup = NoWarmup
    /\ spent = [reset |-> 0, use |-> 0, move |-> 0, warm |-> 0, trouble |-> 0]
    /\ history = [warmed |-> [c \in Credential |-> {}],
                  unserved |-> {}, witnesses |-> {}]

\* Time passes, and what others do is noticed, while no local step of a refresh is under way.
Waiting == refresh.at \in {"idle", "asking"}

\* The provider starts a new cycle for some credentials: all of them, or one whose user
\* redeemed a reset.
ProviderResets(S) ==
    /\ Waiting /\ Left("reset", MaxReset) /\ S # {}
    /\ truth' = [c \in Credential |-> IF c \in S THEN [cycle |-> spent.reset + 1, used |-> FALSE]
                                     ELSE truth[c]]
    /\ Count("reset")
    /\ UNCHANGED <<host, quotas, polls, epoch, sweep, refresh, rows, warmup, history>>

\* The host gains or loses a credential.
HostChanges(c) ==
    /\ Waiting /\ Left("move", MaxMove) /\ Count("move")
    /\ host' = IF c \in host THEN host \ {c} ELSE host \cup {c}
    /\ UNCHANGED <<truth, quotas, polls, epoch, sweep, refresh, rows, warmup, history>>

\* The deadline of the sweep, or the start of its next round, is reached.
DeadlinePasses == /\ Waiting /\ sweep.active /\ ~sweep.overdue
                  /\ sweep' = [sweep EXCEPT !.overdue = TRUE]
                  /\ UNCHANGED <<truth, host, quotas, polls, epoch, refresh, rows, warmup, spent, history>>
RoundStarts == /\ Waiting /\ sweep.active /\ sweep.waiting
               /\ sweep' = [sweep EXCEPT !.waiting = FALSE]
               /\ UNCHANGED <<truth, host, quotas, polls, epoch, refresh, rows, warmup, spent, history>>

\* Ten minutes after the confirmation, then quotaEpochResetCatchupAge; the observations
\* of the accounts S get older than quotaEpochWarmupSnapshotAge.
EpochAges(S) ==
    /\ Waiting /\ epoch.id # 0 /\ epoch.age < 2
    /\ epoch' = [epoch EXCEPT !.age = @ + 1,
                    !.account = [c \in Credential |-> IF c \in S THEN [@[c] EXCEPT !.seen = FALSE] ELSE @[c]]]
    /\ UNCHANGED <<truth, host, quotas, polls, sweep, refresh, rows, warmup, spent, history>>
-----------------------------------------------------------------------------
\* What the history notes of a step: the resets seen, but for those a confirmation counted.
NewCycles == {c \in Credential : quotas[c] # Unknown /\ quotas'[c].cycle > quotas[c].cycle}
Witnesses == history.witnesses \cup NewCycles
Confirms == epoch'.id # epoch.id
Note(unserved, sw) ==
    history' = [history EXCEPT !.unserved = unserved,
                               !.witnesses = IF Confirms THEN Witnesses \ Evidence(sw) ELSE Witnesses]

\* recordUsage: demand for a probe, markQuotaEpochNatural, and the quota headers.
Natural(e, c) == IF e.id # 0 /\ e.account[c].state = "pending"
                 THEN [e EXCEPT !.account[c].state = "natural"] ELSE e
Demand(c) == polls' = [polls EXCEPT ![c].pending = TRUE, ![c].used = TRUE]
InFlight(c) == refresh.at = "asking" /\ refresh.c = c

\* beginQuotaEpochResetFromHeadersLocked: its inventory is every credential with a reading.
FromHeaders(sw, c) ==
    LET begun == Begin(sw, Known, "reset") IN [begun EXCEPT !.target[c].evidence = TRUE]

Use(c, headers) ==
    /\ Left("use", MaxUse) /\ Count("use")
    /\ truth' = [truth EXCEPT ![c].used = TRUE]
    /\ Demand(c)
    /\ epoch' = Natural(epoch, c)
    /\ LET reports == headers /\ quotas[c] # Unknown
           begins == reports /\ ResetEvidence(quotas[c], truth'[c]) /\ ~MatchesCurrent(epoch, truth'[c])
           used == IF sweep.active THEN [sweep EXCEPT !.users = @ \cup {c}] ELSE sweep
       IN  /\ quotas' = IF reports THEN [quotas EXCEPT ![c] = truth'[c]] ELSE quotas
           /\ sweep' = IF begins THEN FromHeaders(used, c) ELSE used
           /\ refresh' = [refresh EXCEPT !.used = @ \/ InFlight(c),
                                         !.header = @ \/ (InFlight(c) /\ reports),
                                         !.early = @ \/ (refresh.at = "asking" /\ begins /\ Fresh(sweep, "reset"))]
    /\ Note(history.unserved \cup {c}, sweep)
    /\ UNCHANGED <<host, rows, warmup>>
-----------------------------------------------------------------------------
\* The worker goes on, after applying the transition if an epoch was confirmed.
Proceed(w, then) ==
    refresh' = IF Confirms THEN [w EXCEPT !.at = "apply", !.then = then]
               ELSE [w EXCEPT !.at = then]

\* refreshOnce: the inventory replaces what is known of credentials that left, then the
\* epoch and its sweep follow it.
Start ==
    /\ refresh.at = "idle" /\ epoch.id < MaxEpoch
    /\ quotas' = [c \in Credential |-> IF c \in host THEN quotas[c] ELSE Unknown]
    /\ polls' = [c \in Credential |-> IF c \in host THEN polls[c] ELSE NoPoll]
    /\ LET e == Accounts(epoch, host)
           sw == Prepare(e, sweep, host)
       IN  Finalize(e, sw) /\ Note(history.unserved \cap host, sw)
    /\ Proceed([Resting EXCEPT !.inv = host, !.read = Known'], "ready")
    /\ UNCHANGED <<truth, host, rows, warmup, spent>>

\* quotaEpochProbeReasonLocked
SweepWants(c) == LET t == sweep.target[c] IN
    sweep.active /\ ~sweep.overdue /\ ~sweep.waiting /\ t.in /\ ~t.evidence /\ ~t.tried
\* Mutant: the probe that catches up is not limited to one.
CatchUpAgain(a) == epoch.reason = "reset" /\ epoch.age = 1

CatchUp(a) == epoch.reason = "reset" /\ epoch.age = 1 /\ ~a.late

PendingWants(c) == LET a == epoch.account[c] IN
    a.state = "pending" /\ ~a.seen /\ (a.probes < ProbeLimit \/ CatchUp(a))

\* quotaProbeReason: the sweep, a pending account, usage, a reading that is missing, failed
\* or from before a reset, and a quota that could be activated.
Reason(c) ==
    \/ SweepWants(c) \/ PendingWants(c) \/ polls[c].pending \/ polls[c].error
    \/ quotas[c] = Unknown \/ quotas[c].cycle < spent.reset \/ Unstarted(quotas[c])

\* recordQuotaEpochProbeAttemptLocked and the request: a refresh asks about a credential
\* once.
Ask(c) ==
    /\ refresh.at = "ready" /\ Cardinality(refresh.asked) < Batch
    /\ c \in refresh.inv \ refresh.asked /\ Reason(c)
    /\ polls' = [polls EXCEPT ![c].pending = FALSE]
    /\ refresh' = [refresh EXCEPT !.at = "asking", !.c = c, !.had = polls[c], !.used = FALSE,
                                  !.header = FALSE, !.early = FALSE, !.asked = @ \cup {c}]
    /\ IF SweepWants(c)
       THEN sweep' = [sweep EXCEPT !.target[c].tried = TRUE] /\ UNCHANGED epoch
       ELSE /\ UNCHANGED sweep
            /\ IF PendingWants(c)
               THEN epoch' = [epoch EXCEPT !.account[c] = [epoch.account[c] EXCEPT
                                              !.probes = @ + 1, !.late = epoch.age >= 1]]
               ELSE UNCHANGED epoch
    /\ history' = [history EXCEPT !.unserved = @ \ {c}]
    /\ UNCHANGED <<truth, host, quotas, rows, warmup, spent>>

\* observeQuotaEpochProbeLocked
Adopts(e, c, evidence) ==
    \/ e.reason # "reset" \/ evidence
    \/ e.account[c].state # "pending"
    \/ Unstarted(quotas'[c])
Observe(e, c, evidence) ==
    LET a == e.account[c]
        b == FromSnapshot(quotas'[c])
        adopted == [a EXCEPT !.seen = TRUE, !.state = IF @ \in {"warmed", "blocked"} THEN @ ELSE b.state]
    IN  IF a = NoAccount THEN e
        ELSE [e EXCEPT !.account[c] = IF Adopts(e, c, evidence) THEN adopted ELSE [a EXCEPT !.seen = FALSE]]

Answer(r) ==
    LET c == refresh.c IN
    /\ refresh.at = "asking"
    /\ AtMost(r, truth[c]) /\ (quotas[c] # Unknown => AtMost(quotas[c], r))
    \* mergePartialQuotaSnapshot: the headers of a call that ended meanwhile are newer
    /\ refresh.header => r = quotas[c]
    /\ quotas' = [quotas EXCEPT ![c] = r]
    /\ polls' = [polls EXCEPT ![c].error = FALSE, ![c].used = refresh.used]
    /\ LET evidence == ~refresh.header /\ ResetEvidence(quotas[c], r)
           new == evidence /\ ~MatchesCurrent(epoch, r)
           early == refresh.early \/ (new /\ Fresh(sweep, "reset"))
           sw == IF new /\ Fresh(sweep, "reset") THEN Begin(sweep, refresh.inv, "reset") ELSE sweep
           t == sw.target[c]
           observed == IF early THEN "old" ELSE "yes"
           seen == IF t.in THEN [sw EXCEPT !.target[c] = [t EXCEPT !.observed = observed,
                                                                   !.evidence = @ \/ new]] ELSE sw
       IN  Finalize(Observe(epoch, c, evidence), seen) /\ Note(history.unserved, seen)
    /\ Proceed(refresh, "ready")
    /\ UNCHANGED <<truth, host, rows, warmup, spent>>

\* A probe that failed: observeQuotaEpochProbeErrorLocked.
Fail ==
    /\ refresh.at = "asking" /\ Left("trouble", MaxTrouble) /\ Count("trouble")
    /\ polls' = [polls EXCEPT ![refresh.c].error = TRUE]
    /\ UNCHANGED quotas
    /\ Finalize(epoch, sweep)
    /\ Proceed(refresh, "ready")
    /\ Note(history.unserved, sweep)
    /\ UNCHANGED <<truth, host, rows, warmup>>

\* Mutant: the demand is restored as it was, without the events that came meanwhile.
RestoredAsItWas(now, had) == [had EXCEPT !.used = @ \/ now.used]

\* A cancelled probe gives back the demand it took, and ends the refresh.
Restored(now, had) == [had EXCEPT !.pending = @ \/ now.pending, !.used = @ \/ now.used]

Cancel ==
    LET c == refresh.c IN
    /\ refresh.at = "asking" /\ Left("trouble", MaxTrouble) /\ Count("trouble")
    /\ polls' = [polls EXCEPT ![c] = Restored(@, refresh.had)]
    /\ refresh' = Resting
    /\ history' = [history EXCEPT !.unserved = IF refresh.had.pending THEN @ \cup {c} ELSE @]
    /\ UNCHANGED <<truth, host, quotas, epoch, sweep, rows, warmup>>

\* The batch or its time is used up: the sweep is finalized once more.
Finish ==
    /\ refresh.at = "ready"
    /\ UNCHANGED quotas
    /\ Finalize(epoch, sweep)
    /\ Proceed(refresh, "warm")
    /\ Note(history.unserved, sweep)
    /\ UNCHANGED <<truth, host, polls, rows, warmup, spent>>

\* applyQuotaEpochTransition, under warmupMu and then under s.mu: rows of earlier epochs
\* are dropped, but for hard blocks, which block the account in the new epoch.
Dropped(c) == \/ epoch.reason # "bootstrap"
              \/ epoch.account[c].state = "pending" /\ rows[c].epoch # epoch.id
Apply ==
    LET members == {c \in Credential : epoch.account[c] # NoAccount}
        hard == {c \in members : rows[c].kind = "hard"}
    IN
    /\ refresh.at = "apply"
    /\ \E kept \in SUBSET (members \ hard) :
          /\ epoch.reason # "bootstrap" => kept = {}
          /\ rows' = [c \in Credential |-> IF c \in members \ (hard \cup kept) /\ Dropped(c) THEN NoRow ELSE rows[c]]
    /\ refresh' = IF hard = {} THEN [refresh EXCEPT !.at = refresh.then]
                  ELSE [refresh EXCEPT !.at = "block", !.blocked = hard]
    /\ UNCHANGED <<truth, host, quotas, polls, epoch, sweep, warmup, spent, history>>

Block ==
    /\ refresh.at = "block"
    /\ epoch' = [epoch EXCEPT !.account = [c \in Credential |->
                    IF c \in refresh.blocked THEN [@[c] EXCEPT !.state = "blocked"] ELSE @[c]]]
    /\ refresh' = [refresh EXCEPT !.at = refresh.then, !.blocked = {}]
    /\ UNCHANGED <<truth, host, quotas, polls, sweep, rows, warmup, spent, history>>
-----------------------------------------------------------------------------
\* quotaEpochWarmupAllowance
Allowance(c) == IF /\ epoch.id # 0
                   /\ epoch.account[c].state = "pending" /\ epoch.account[c].seen
                   /\ ~polls[c].error /\ ~polls[c].used
                THEN epoch.id ELSE 0

\* warmupAccountSuppressesCandidateLocked and nextWarmupCandidateForGenerationLocked
Suppressed(c, id) == rows[c].kind = "hard" \/ (rows[c].kind = "done" /\ rows[c].epoch = id)

\* scheduleWarmup at the end of a refresh: one activation may be admitted.
Admit(c) ==
    LET id == Allowance(c) IN
    /\ refresh.at = "warm" /\ Left("warm", MaxWarm) /\ Count("warm")
    /\ warmup = NoWarmup
    /\ id # 0 /\ Unstarted(quotas[c]) /\ ~Suppressed(c, id)
    /\ rows' = [rows EXCEPT ![c] = NoRow]
    /\ warmup' = [at |-> "admitted", c |-> c, epoch |-> id, outcome |-> "none"]
    /\ refresh' = Resting
    /\ UNCHANGED <<truth, host, quotas, polls, epoch, sweep, history>>

Rest ==
    /\ refresh.at = "warm"
    /\ refresh' = Resting
    /\ UNCHANGED <<truth, host, quotas, polls, epoch, sweep, rows, warmup, spent, history>>

\* warmupCandidateStillEligible, right before the request.
Eligible(w) == Unstarted(quotas[w.c]) /\ Allowance(w.c) = w.epoch
Send ==
    /\ warmup.at = "admitted"
    /\ warmup' = IF Eligible(warmup) THEN [warmup EXCEPT !.at = "sent"] ELSE NoWarmup
    /\ UNCHANGED <<truth, host, quotas, polls, epoch, sweep, refresh, rows, spent, history>>

\* executeCPAWarmup and the rows of recordWarmupOutcome; a request that failed may have run.
Return(outcome) ==
    /\ warmup.at = "sent"
    /\ warmup' = [warmup EXCEPT !.at = "returned", !.outcome = outcome]
    /\ rows' = [rows EXCEPT ![warmup.c] = IF outcome = "failed" THEN NoRow
                                           ELSE [epoch |-> warmup.epoch, kind |-> outcome]]
    /\ truth' \in IF outcome = "done" THEN {[truth EXCEPT ![warmup.c].used = TRUE]}
                  ELSE {truth, [truth EXCEPT ![warmup.c].used = TRUE]}
    /\ UNCHANGED <<host, quotas, polls, epoch, sweep, refresh, spent, history>>

\* Mutant: the outcome is booked on whatever epoch is current.
AnyOutcome(w) == epoch.account[w.c] # NoAccount

\* recordQuotaEpochWarmupOutcome, then requestImmediateQuotaProbe after a success.
CurrentOutcome(w) == w.epoch = epoch.id /\ epoch.account[w.c] # NoAccount

Record ==
    LET c == warmup.c IN
    /\ warmup.at = "returned"
    /\ epoch' = IF CurrentOutcome(warmup)
                THEN [epoch EXCEPT !.account[c].state = CASE warmup.outcome = "done" -> "warmed"
                                                          [] warmup.outcome = "hard" -> "blocked"
                                                          [] OTHER -> "pending"]
                ELSE epoch
    /\ warmup' = NoWarmup
    /\ IF warmup.outcome = "done"
       THEN /\ Demand(c)
            /\ refresh' = [refresh EXCEPT !.used = @ \/ InFlight(c)]
            /\ history' = [history EXCEPT !.warmed[c] = @ \cup {warmup.epoch}, !.unserved = @ \cup {c}]
       ELSE UNCHANGED <<polls, refresh, history>>
    /\ UNCHANGED <<truth, host, quotas, sweep, rows, spent>>
-----------------------------------------------------------------------------
Environment ==
    \/ \E S \in SUBSET Credential : ProviderResets(S)
    \/ EpochAges({}) \/ EpochAges(Credential)
    \/ \E c \in Credential : HostChanges(c) \/ \E h \in BOOLEAN : Use(c, h)
    \/ DeadlinePasses \/ RoundStarts

Refreshing ==
    \/ Start \/ Fail \/ Cancel \/ Finish \/ Apply \/ Block \/ Rest
    \/ \E c \in Credential : Ask(c)
    \/ \E n \in 0..MaxReset, u \in BOOLEAN : Answer([cycle |-> n, used |-> u])

Warming ==
    \/ \E c \in Credential : Admit(c)
    \/ \E o \in {"done", "failed", "hard"} : Return(o)
    \/ Send \/ Record

Next == Environment \/ Refreshing \/ Warming

Spec == Init /\ [][Next]_vars
-----------------------------------------------------------------------------
Account == [state : {"none", "pending", "natural", "warmed", "blocked"}, seen : BOOLEAN,
            probes : 0..ProbeLimit + 1, late : BOOLEAN]

\* Every variable keeps its shape; a sweep has at most MaxRounds rounds and an account
\* gets at most one probe more than its limit (quotaEpochProbeReasonLocked).
TypeOK ==
    /\ truth \in [Credential -> Reading] /\ host \subseteq Credential
    /\ quotas \in [Credential -> Reading \cup {Unknown}]
    /\ polls \in [Credential -> [pending : BOOLEAN, error : BOOLEAN, used : BOOLEAN]]
    /\ epoch.id \in Nat /\ epoch.age \in 0..2 /\ epoch.account \in [Credential -> Account]
    /\ epoch.reason \in {"none", "bootstrap", "reset"} /\ epoch.cycle \in {Unknown.cycle} \cup 0..MaxReset
    /\ sweep.cause \in {"none", "bootstrap", "inventory", "reset"} /\ sweep.round \in 1..MaxRounds
    /\ {sweep.active, sweep.overdue, sweep.waiting} \subseteq BOOLEAN /\ sweep.users \subseteq Credential
    /\ sweep.target \in [Credential -> [in : BOOLEAN, tried : BOOLEAN, observed : {"no", "old", "yes"},
                                        evidence : BOOLEAN]]
    /\ rows \in [Credential -> [epoch : Nat, kind : {"none", "hard", "done"}]]

\* A reset of the provider is taken for a new epoch only when as many credentials as a
\* quorum of those with a reading were seen to pass into a new cycle that no earlier epoch
\* has counted (finalizeQuotaEpochSweepLocked), whatever answers, headers and rounds came
\* between.
ResetConfirmed == Confirms /\ epoch'.reason = "reset"
ConfirmedByQuorum ==
    [][ResetConfirmed => Cardinality(Witnesses) >= Quorum(Cardinality(refresh'.read))]_vars

\* An account is activated successfully at most once in an epoch, and one that an epoch
\* calls warmed was activated in it (recordQuotaEpochWarmupOutcome).
OneActivationPerEpoch ==
    /\ \A c \in Credential : epoch.account[c].state = "warmed" => epoch.id \in history.warmed[c]
    /\ warmup.at = "sent" => warmup.epoch \notin history.warmed[warmup.c]

\* A usage event that no probe was sent after is still demand for one, whatever became
\* of the probe that was out when it came (refreshOnce).
DemandSurvives == \A c \in history.unserved : polls[c].pending
=============================================================================
