------------------------------- MODULE Warmup -------------------------------
(***************************************************************************)
(* Synthetic activation of quota windows (warmup.go, warmup_policy.go,     *)
(* warmup_instance_lease.go).  An instance that owns the generation takes  *)
(* an OS lock, merges the state file and the outcome journal into its      *)
(* memory, admits one request under a budget and backoff, saves the        *)
(* admission, sends the request and records its outcome.  An instance that *)
(* was superseded meanwhile appends the outcome to the journal instead.    *)
(*                                                                         *)
(* Simplifications.  One credential; the others share only the interval    *)
(* between admissions.  Time is the age of each attempt, in ticks that are *)
(* long compared with a request, so that none falls between an admission   *)
(* and its outcome.  Quota snapshots are unreliable: any set of windows    *)
(* may look unstarted.  The reset a snapshot reports for a window that a   *)
(* request started is one window length after that request.  Candidates of *)
(* a confirmed quota epoch, which lift the suppression of earlier ones,    *)
(* bans and the concurrency slot are left out.                             *)
(***************************************************************************)
EXTENDS Integers, FiniteSets

CONSTANTS Instance,      \* loaded plugin instances
          NoInstance,    \* no owner
          Window,        \* recognized quota windows
          Rank,          \* warmupWindowRank: [Window -> Nat], injective
          Length,        \* [Window -> Nat], window lengths in ticks
          Uncertain,     \* warmupUncertainDelay in ticks
          Retry,         \* warmup_retry_after in ticks
          Interval,      \* warmup_min_interval in ticks
          Day,           \* warmupBudgetWindow in ticks
          MaxPerDay,     \* warmup_max_per_day
          FailureLimit,  \* warmupFailureLimit
          Horizon,       \* bound: ages are not told apart beyond it
          MaxAttempt     \* bound: attempts ever admitted

ASSUME WarmupAssumption ==
    /\ NoInstance \notin Instance
    /\ Rank \in [Window -> Nat] /\ \A v, w \in Window : Rank[v] = Rank[w] => v = w
    /\ Length \in [Window -> 1..Horizon]
    /\ Uncertain \in 1..Horizon /\ Retry \in 1..Uncertain /\ Interval \in 0..Horizon
    /\ Day \in 1..Horizon /\ MaxPerDay \in Nat \ {0}
    /\ FailureLimit \in Nat \ {0} /\ Horizon \in Nat /\ MaxAttempt \in Nat

Attempt == 1..MaxAttempt
State == {"pending", "not_sent", "rejected", "uncertain", "completed", "confirmed"}

VARIABLES
    memory,   \* [Instance -> what it knows: rows per window and the ledger]
    up,       \* instances that are loaded
    owner,    \* the instance that owns the generation
    file,     \* the state file: rows and ledger
    journal,  \* the outcome journal: records of one attempt each
    worker,   \* [Instance -> its warmup worker]; not idle: it holds the OS lock
    next,     \* number of attempts admitted so far
    age,      \* [Attempt -> ticks since it was admitted, up to Horizon]
    fate,     \* history: [Attempt -> what is known of it]
    covered,  \* history: [Attempt -> windows its outcome was recorded for]
    volatile  \* history: attempts whose outcome only the owner's memory knows

history == <<fate, covered>>
vars == <<memory, up, owner, file, journal, worker, next, age, history, volatile>>
-----------------------------------------------------------------------------
\* A row of s.warmups: the attempt, its state, the age at which its suppression ends,
\* failures in a row; FailureLimit stands for Blocked.
NoRow == [attempt |-> 0, state |-> "pending", until |-> 0, failures |-> 0]
Empty == [rows |-> [w \in Window |-> NoRow], ledger |-> {}]
Idle == [at |-> "idle", attempt |-> 0, window |-> CHOOSE w \in Window : TRUE, need |-> {}]

Fresh(m) == {w \in Window : m.rows[w].attempt # 0}
Known(m) == {m.rows[w].attempt : w \in Fresh(m)}
Blocked(r) == r.failures >= FailureLimit
Failed(r) == r.state \in {"not_sent", "rejected", "uncertain"}

\* warmupEntrySuppressesNow
Suppresses(r) == r.attempt # 0 /\ (Blocked(r) \/ age[r.attempt] < r.until)

\* warmupEntryNewer: by attempt, then by outcome; a confirmed row has the reset.
Phase(r) == IF r.state = "pending" THEN 0 ELSE IF r.state = "confirmed" THEN 2 ELSE 1
Newer(r, s) == \/ r.attempt > s.attempt
               \/ r.attempt = s.attempt /\ Phase(r) > Phase(s)
               \/ r.attempt = s.attempt /\ Phase(r) = Phase(s) /\ r.failures > s.failures

\* mergeWarmupEntriesLocked: of a set of maps of rows, the newest row of each window.
Merged(S) == [w \in Window |-> CHOOSE r \in {m[w] : m \in S} : \A m \in S : ~Newer(m[w], r)]

\* mergeWarmupAttemptsLocked
WithLedger(m, more) == [m EXCEPT !.ledger = @ \cup more \cup Known(m)]

\* persistBanState: the whole memory replaces the file, by the owner only; it may fail,
\* and it may be durable and still be reported as failed.
SaveOK(i, m) == owner = i /\ file' = WithLedger(m, {}) /\ volatile' = {}
SaveFails(i, m) == \/ UNCHANGED <<file, volatile>>
                   \/ SaveOK(i, m)

\* What only the memory of the owner knew is unknown to its successor.
Forgotten == [a \in Attempt |-> IF a \in volatile THEN "sent" ELSE fate[a]]
-----------------------------------------------------------------------------
Init ==
    /\ memory = [i \in Instance |-> Empty]
    /\ owner \in Instance
    /\ up = {owner}
    /\ file = Empty
    /\ journal = {}
    /\ worker = [i \in Instance |-> Idle]
    /\ next = 0
    /\ age = [a \in Attempt |-> 0]
    /\ fate = [a \in Attempt |-> "none"]
    /\ covered = [a \in Attempt |-> {}]
    /\ volatile = {}

GoTo(i, w) == worker' = [worker EXCEPT ![i] = w]
Learns(i, m) == memory' = [memory EXCEPT ![i] = m]

\* Mutant: an instance ends with its worker, whatever it owns.
EndsAlways(i) == GoTo(i, Idle) /\ up' = up \ {i} /\ Learns(i, Empty)

\* The worker ends, and with it an instance that was superseded.
Ends(i) ==
    /\ GoTo(i, Idle)
    /\ IF owner = i THEN UNCHANGED <<up, memory>>
       ELSE up' = up \ {i} /\ Learns(i, Empty)

LockFree == \A i \in Instance : worker[i].at = "idle"

\* scheduleWarmup: the owner takes the lock and merges file and journal.
Acquire(i) ==
    LET m == memory[i] IN
    /\ i \in up /\ owner = i
    /\ worker[i].at = "idle" /\ LockFree
    /\ Learns(i, WithLedger([m EXCEPT !.rows = Merged({m.rows, file.rows} \cup journal)], file.ledger))
    /\ GoTo(i, [Idle EXCEPT !.at = IF journal = {} THEN "ready" ELSE "merged"])
    /\ UNCHANGED <<up, owner, file, journal, next, age, history, volatile>>

\* What was merged from the journal is saved; only then is the journal cleared.
Compact(i) ==
    /\ worker[i].at = "merged"
    /\ \/ SaveOK(i, memory[i]) /\ GoTo(i, [Idle EXCEPT !.at = "saved"])
       \/ SaveFails(i, memory[i]) /\ GoTo(i, [Idle EXCEPT !.at = "ready"])
    /\ UNCHANGED <<memory, up, owner, journal, next, age, history>>

ClearJournal(i) ==
    /\ worker[i].at = "saved"
    /\ journal' \in {{}, journal}
    /\ GoTo(i, [Idle EXCEPT !.at = "ready"])
    /\ UNCHANGED <<memory, up, owner, file, next, age, history, volatile>>

\* pruneExpiredWarmups
Expired(r) == /\ r.attempt # 0 /\ ~Blocked(r) /\ ~Failed(r)
              /\ r.state \in {"pending", "completed", "confirmed"}
              /\ age[r.attempt] >= r.until
Pruned(m) == [m EXCEPT !.rows = [w \in Window |-> IF Expired(m.rows[w]) THEN NoRow
                                                 ELSE m.rows[w]]]

\* Mutant: only what is written in the rows counts against the budget.
SpentByRows(m) == {a \in Known(m) : age[a] < Day}

\* Admissions of the last day.
Spent(m) == {a \in WithLedger(m, {}).ledger : age[a] < Day}

\* warmupTrafficStatusLocked and nextWarmupCandidateForGenerationLocked: no row of the
\* credential is blocked, failed or without outcome and still suppresses, and the
\* window's own row does not.
RowsFree(m, w) ==
    /\ \A v \in Window : LET r == m.rows[v] IN
         r.attempt # 0 => /\ ~Blocked(r)
                          /\ (Failed(r) \/ r.state = "pending") => ~Suppresses(r)
    /\ ~Suppresses(m.rows[w])

Allowed(m, w) ==
    /\ Cardinality(Spent(m)) < MaxPerDay
    /\ \A a \in WithLedger(m, {}).ledger : age[a] >= Interval
    /\ RowsFree(m, w)

\* unstartedWarmupWindow: the first in rank of the windows that look unstarted.
First(need) == CHOOSE w \in need : \A v \in need : Rank[w] <= Rank[v]

\* findWarmupCandidates: what a candidate may be thought to need.
Needs == (SUBSET Window) \ {{}}

\* A candidate is admitted in memory: its row suppresses any other until an outcome is
\* known.
Admit(i, need) ==
    LET m == Pruned(memory[i])
        w == First(need)
        a == next + 1
        row == [attempt |-> a, state |-> "pending", until |-> Uncertain,
                failures |-> m.rows[w].failures]
    IN  /\ worker[i].at = "ready"
        /\ next < MaxAttempt
        /\ Allowed(m, w)
        /\ next' = a
        /\ Learns(i, [rows |-> [m.rows EXCEPT ![w] = row],
                      ledger |-> WithLedger(m, {a}).ledger])
        /\ GoTo(i, [at |-> "admitting", attempt |-> a, window |-> w, need |-> need])
        /\ fate' = [fate EXCEPT ![a] = "admitted"]
        /\ UNCHANGED <<up, owner, file, journal, age, covered, volatile>>

\* The admission must be durable before anything is sent.
SaveAdmission(i) ==
    LET w == worker[i] IN
    /\ w.at = "admitting"
    /\ \/ SaveOK(i, memory[i]) /\ GoTo(i, [w EXCEPT !.at = "admitted"]) /\ UNCHANGED <<up, memory>>
       \/ SaveFails(i, memory[i]) /\ Ends(i)
    /\ UNCHANGED <<owner, journal, next, age, history>>

\* The request leaves for the host.
Send(i) ==
    LET w == worker[i] IN
    /\ w.at = "admitted"
    /\ GoTo(i, [w EXCEPT !.at = "sent"])
    /\ fate' = [fate EXCEPT ![w.attempt] = "sent"]
    /\ UNCHANGED <<memory, up, owner, file, journal, next, age, covered, volatile>>

\* warmupFailureDelay, in ticks: doubled until it reaches the longest.
Delay(failures) == LET d == Retry * (2 ^ (failures - 1)) IN IF d \in 1..Horizon THEN d ELSE Horizon

\* Mutant: an uncertain outcome is retried like a rejection.
DelayAsRejected(state, failures) == Delay(failures)

DelayAfter(state, failures) ==
    IF state = "uncertain" /\ Delay(failures) < Uncertain THEN Uncertain ELSE Delay(failures)

FailuresAfter(m, w) ==
    CHOOSE n \in {m.rows[v].failures + 1 : v \in Window} :
        \A v \in Window : m.rows[v].failures + 1 <= n

\* A failure is recorded for the window it was sent for.  final: a code that blocks.
AfterFailure(m, w, state, final) ==
    LET n == FailuresAfter(m, w.window)
        f == IF final \/ n > FailureLimit THEN FailureLimit ELSE n
    IN  [m EXCEPT !.rows[w.window] = [attempt |-> w.attempt, state |-> state,
                                      until |-> DelayAfter(state, n), failures |-> f]]

\* Windows a success is recorded for: the one it was sent for and those that looked
\* unstarted, except blocked ones and those whose reset is known and ahead.
Covers(m, w) ==
    {w.window} \cup {v \in w.need : LET r == m.rows[v] IN
                        ~Blocked(r) /\ ~(r.state = "confirmed" /\ Suppresses(r))}

AfterSuccess(m, w) ==
    [m EXCEPT !.rows = [v \in Window |->
        IF v \in Covers(m, w)
        THEN [attempt |-> w.attempt, state |-> "completed", until |-> Length[v], failures |-> 0]
        ELSE IF Blocked(m.rows[v]) THEN m.rows[v] ELSE [m.rows[v] EXCEPT !.failures = 0]]]

\* What becomes known of attempt a with its outcome.
Becomes(a, state) ==
    fate' = [fate EXCEPT ![a] = CASE state \in {"completed", "confirmed"} -> "completed"
                                  [] state = "rejected" -> "rejected"
                                  [] state = "not_sent" -> "admitted"
                                  [] OTHER -> "sent"]

\* executeCPAWarmup: how it may end before the request leaves for the host, and after.
Outcomes(at) == CASE at = "admitted" -> {"not_sent"}
                  [] at = "sent" -> {"rejected", "uncertain", "completed"}
                  [] OTHER -> {}

\* classifyWarmupFailure: whether the code of a failure blocks the credential.
Final(state) == IF state = "completed" THEN {FALSE} ELSE BOOLEAN

\* recordWarmupOutcome, and the save after it.
Record(i, state, final) ==
    LET w == worker[i]
        m == IF state = "completed" THEN AfterSuccess(memory[i], w)
             ELSE AfterFailure(memory[i], w, state, final)
    IN  /\ state \in Outcomes(w.at) /\ final \in Final(state)
        /\ Learns(i, m)
        /\ covered' = [covered EXCEPT ![w.attempt] =
                          IF state = "completed" THEN Covers(memory[i], w) ELSE {}]
        /\ \/ SaveOK(i, m) /\ Becomes(w.attempt, state)
           \/ /\ owner = i /\ Becomes(w.attempt, state)
              /\ file' = file /\ volatile' = volatile \cup {w.attempt}
           \/ /\ owner # i
              /\ UNCHANGED <<fate, file, volatile>>
        /\ GoTo(i, [w EXCEPT !.at = "recorded"])
        /\ UNCHANGED <<up, owner, journal, next, age>>

\* warmupCandidateStillEligible says no, or the instance is stopping or superseded.
Abandon(i) ==
    /\ worker[i].at \in {"merged", "ready", "admitted"}
    /\ Ends(i)
    /\ UNCHANGED <<owner, file, journal, next, age, history, volatile>>

\* Mutant: only the row of the window it was sent for.
OnlyTarget(m, w) == [v \in Window |-> IF v = w.window THEN m.rows[v] ELSE NoRow]

\* The rows one journal record holds.
Outcome(m, w) == [v \in Window |-> IF m.rows[v].attempt = w.attempt THEN m.rows[v] ELSE NoRow]

\* The lock is released; an instance that is not the owner any more first appends its
\* outcome (persistWarmupLeaseOutcome), which may fail.
Finish(i) ==
    LET w == worker[i]
        record == Outcome(memory[i], w)
    IN  /\ w.at = "recorded"
        /\ \/ /\ owner # i /\ memory[i].rows[w.window].attempt = w.attempt
              /\ journal' = journal \cup {record}
              /\ Becomes(w.attempt, memory[i].rows[w.window].state)
           \/ UNCHANGED <<journal, fate>>
        /\ Ends(i)
        /\ UNCHANGED <<owner, file, next, age, covered, volatile>>

\* confirmPendingWarmups: a later snapshot shows the reset of the window.
Confirm(i, v) ==
    LET r == memory[i].rows[v] IN
    /\ i \in up /\ owner = i
    /\ r.state = "completed" /\ Suppresses(r)
    /\ Learns(i, [memory[i] EXCEPT !.rows[v].state = "confirmed"])
    /\ UNCHANGED <<up, owner, file, journal, worker, next, age, history, volatile>>

\* Any other save of the owner.
Save(i) ==
    /\ i \in up /\ SaveOK(i, memory[i])
    /\ UNCHANGED <<memory, up, owner, journal, worker, next, age, history>>

\* clearBlockedWarmupState for this credential, by an operator: blocked rows and those of
\* failed or uncertain outcomes go, the ledger stays; what was sent may be sent again.
Cleared(r) == r.attempt # 0 /\ (Blocked(r) \/ Failed(r))

Clear(i) ==
    LET m == memory[i]
        gone == {w \in Window : Cleared(m.rows[w])}
    IN  /\ i \in up /\ owner = i /\ gone # {}
        /\ Learns(i, WithLedger([m EXCEPT !.rows =
                        [w \in Window |-> IF w \in gone THEN NoRow ELSE m.rows[w]]], Known(m)))
        /\ fate' = [a \in Attempt |-> IF /\ fate[a] \in {"sent", "rejected"}
                                         /\ a \in {m.rows[w].attempt : w \in gone}
                                      THEN "cleared" ELSE fate[a]]
        /\ UNCHANGED <<up, owner, file, journal, worker, next, age, covered, volatile>>

\* loadBanState: the rows of the file replace those in memory, the ledgers are joined.
Loaded(m) ==
    WithLedger([m EXCEPT !.rows = [w \in Window |-> IF w \in Fresh(file) THEN file.rows[w]
                                                    ELSE m.rows[w]]], file.ledger)

\* A newly loaded instance claims the generation, or the owner does after it was
\* configured in place; both load the file.  The predecessor's worker goes on; one that
\* has none is gone.
Claim(i) ==
    /\ i \notin up \/ owner = i
    /\ worker[i].at = "idle"
    /\ owner' = i
    /\ up' = {i} \cup {j \in up : worker[j].at # "idle"}
    /\ memory' = [j \in Instance |-> IF j = i THEN Loaded(memory[i])
                                     ELSE IF j \in up' THEN memory[j] ELSE Empty]
    /\ fate' = Forgotten /\ volatile' = {}
    /\ UNCHANGED <<file, journal, worker, next, age, covered>>

Crash(i) ==
    /\ i \in up
    /\ up' = up \ {i}
    /\ owner' = IF owner = i THEN NoInstance ELSE owner
    /\ memory' = [memory EXCEPT ![i] = Empty]
    /\ GoTo(i, Idle)
    /\ IF owner = i THEN fate' = Forgotten /\ volatile' = {} ELSE UNCHANGED <<fate, volatile>>
    /\ UNCHANGED <<file, journal, next, age, covered>>

Tick ==
    /\ \A i \in Instance : worker[i].at \notin {"admitting", "admitted", "sent", "recorded"}
    /\ \E a \in 1..next : age[a] < Horizon
    /\ age' = [a \in Attempt |-> IF a <= next /\ age[a] < Horizon THEN age[a] + 1 ELSE age[a]]
    /\ UNCHANGED <<memory, up, owner, file, journal, worker, next, history, volatile>>

Next ==
    \/ \E i \in Instance :
         \/ Acquire(i) \/ Compact(i) \/ ClearJournal(i) \/ SaveAdmission(i) \/ Send(i)
         \/ Abandon(i) \/ Finish(i) \/ Save(i) \/ Clear(i) \/ Claim(i) \/ Crash(i)
         \/ \E need \in Needs : Admit(i, need)
         \/ \E state \in State \ {"pending", "confirmed"}, final \in BOOLEAN : Record(i, state, final)
         \/ \E w \in Window : Confirm(i, w)
    \/ Tick

Spec == Init /\ [][Next]_vars
-----------------------------------------------------------------------------
Rows == [Window -> [attempt : 0..MaxAttempt, state : State, until : 0..Horizon,
                    failures : 0..FailureLimit]]
Documents == [rows : Rows, ledger : SUBSET Attempt]

TypeOK ==
    /\ \A i \in Instance : memory[i] \in Documents
    /\ file \in Documents
    /\ up \subseteq Instance /\ owner \in up \cup {NoInstance}
    /\ journal \subseteq Rows
    /\ next \in 0..MaxAttempt /\ age \in [Attempt -> 0..Horizon]
    /\ \A i \in Instance : worker[i].attempt \in 0..next /\ worker[i].need \subseteq Window

\* A request is not repeated while an earlier one may have run: one whose outcome is not
\* known stands in the way of all for Uncertain ticks, one that succeeded of those
\* for the windows it covered until their cycle is over - whichever instance sent it,
\* whatever crashed, and whoever owns the generation (warmup.go:284, :1029-1031).
RepeatsKeepDistance ==
    [][\A i \in Instance : Send(i) =>
          LET w == worker[i] IN
          \A a \in Attempt \ {w.attempt} :
              /\ fate[a] = "sent" => age[a] >= Uncertain
              /\ fate[a] = "completed" /\ w.window \in covered[a] => age[a] >= Length[w.window]]_vars

\* In no day more requests are sent than the budget allows, however often the generation
\* changes hands, rows are pruned, cleared or overwritten (warmup_policy.go:16-17).
BudgetIsKept ==
    Cardinality({a \in 1..next : /\ fate[a] \in {"sent", "rejected", "completed", "cleared"}
                                 /\ age[a] < Day})
        <= MaxPerDay

\* No outcome that reached the disk is lost before the cycle is over: file and journal
\* together still tell it, or a later attempt (warmup_instance_lease.go:180-183).
OutcomesSurvive ==
    \A a \in (1..next) \ volatile : fate[a] = "completed" =>
        \A v \in covered[a] : age[a] < Length[v] =>
            LET r == Merged({file.rows} \cup journal)[v]
            IN  r.attempt > a \/ (r.attempt = a /\ r.state # "pending")
=============================================================================
