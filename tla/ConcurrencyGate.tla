--------------------------- MODULE ConcurrencyGate --------------------------
(***************************************************************************)
(* Admission of executions to credentials (concurrency.go): the ledger of  *)
(* registered executions, the slots they hold, and the bounded FIFO wait   *)
(* for a slot.                                                             *)
(*                                                                         *)
(* The host calls Before, Pick and After one at a time for one execution,  *)
(* any number of executions at once, and Complete whenever it likes.  One  *)
(* turn of the loops in schedulerPick and concurrencyAfter is one step,    *)
(* for it runs under selectionMu and g.mu; only the ranking of candidates  *)
(* (schedulerPickUncapped) gives g.mu up in between and is a step of its   *)
(* own, selectionMu still held.                                            *)
(*                                                                         *)
(* A credential is the set of aliases a caller presents for it.  Aliases   *)
(* are positive numbers, ordered as the code orders the strings; 0 is the  *)
(* empty key.  Of a QueueSequence only the order counts: it is queue.  The *)
(* host never offers one credential twice in a pick, and a pick offers at  *)
(* most two (a bound); a preference for the only one changes nothing.      *)
(***************************************************************************)
EXTENDS Integers, FiniteSets

CONSTANTS Request,            \* executions, by their lifecycle ID
          Warmup,             \* background activations holding or wanting a slot
          Nobody,             \* no request
          Credential,         \* alias sets presented to the gate
          Configs,            \* settings the host may configure: [enforced, limit]
          Unstable,           \* credentials the ranking may leave out at times
          Aged,               \* executions that outlive the 30 minutes of a registration
          RegistrationLimit,  \* concurrencyRegistrationLimit
          WaitsExpire         \* whether a queue wait can reach its deadline

Slot == Request \cup Warmup
Alias == UNION Credential
NoCredential == {}

ASSUME CredentialAssumption ==
    /\ Credential \subseteq (SUBSET (Nat \ {0})) \ {{}}
    /\ IsFiniteSet(Alias)
ASSUME SlotAssumption == /\ Request \cap Warmup = {} /\ Nobody \notin Slot
                         /\ IsFiniteSet(Slot)
ASSUME ConfigAssumption == Configs \subseteq [enforced : BOOLEAN, limit : Nat \ {0}]
ASSUME BoundAssumption == /\ Unstable \subseteq Credential /\ Aged \subseteq Request
                          /\ RegistrationLimit \in Nat /\ WaitsExpire \in BOOLEAN

VARIABLES
    registered,  \* g.requests has an entry
    requests,    \* [Slot -> that entry]
    completed,   \* g.completed
    aliases,     \* g.aliases: [Alias -> key, or 0]
    queue,       \* pairs of executions with a QueueSequence, the first's no larger
    waiting,     \* g.waiting
    call,        \* [Request -> the host call in progress for the execution]
    cfg,         \* enabled setting and cap
    detached     \* s.detached

gateVars == <<registered, requests, completed, aliases, queue, waiting>>
settingVars == <<cfg, detached>>
vars == <<registered, requests, completed, aliases, queue, waiting, call, cfg, detached>>
-----------------------------------------------------------------------------
\* served is history, kept for those in Aged: the execution has held a slot.
Fresh == [key |-> 0, native |-> FALSE, dispatched |-> FALSE, rejected |-> FALSE,
          deadline |-> "none", waitKeys |-> {}, served |-> FALSE]

NoCall == [at |-> "idle", first |-> NoCredential, second |-> NoCredential,
           preferred |-> NoCredential, idle |-> {}, waits |-> FALSE]

Least(S) == CHOOSE x \in S : \A y \in S : x =< y
In(q) == {p[1] : p \in q}
Queued == In(queue)
Precedes(q, a, b) == a # b /\ <<a, b>> \in q
Joined(q, r) == q \cup {<<o, r>> : o \in In(q) \cup {r}}
Without(q, gone) == {p \in q : p[1] \notin gone /\ p[2] \notin gone}

\* Someone is between the two critical sections of schedulerPick.
SelectionMuFree == \A r \in Request : call[r].at # "selecting"
-----------------------------------------------------------------------------
(* keyLocked: learn that the aliases of c name one credential.              *)

Known(a, c) == {a[x] : x \in c} \ {0}
KeyFor(a, c) == IF Known(a, c) = {} THEN Least(c) ELSE Least(Known(a, c))

Learn(a, c) == [x \in Alias |-> IF x \in c \/ a[x] \in Known(a, c)
                                THEN KeyFor(a, c) ELSE a[x]]

\* Slots and queue entries follow their key.
Rename(a, c, k) == IF k \in Known(a, c) THEN KeyFor(a, c) ELSE k

\* Mutant: the slots stay under the key they were counted under.
RekeyQueueOnly(rs, a, c) ==
    [s \in Slot |-> [rs[s] EXCEPT !.waitKeys = {Rename(a, c, k) : k \in @}]]

Rekey(rs, a, c) ==
    [s \in Slot |-> [rs[s] EXCEPT !.key = Rename(a, c, @),
                                  !.waitKeys = {Rename(a, c, k) : k \in @}]]

-----------------------------------------------------------------------------
Active(rs, k) == {s \in Slot : k # 0 /\ rs[s].key = k}

\* Mutant: the last to come goes first.
AheadLast(rs, q, k, r) ==
    {o \in In(q) :
        o # r /\ k \in rs[o].waitKeys /\ ~rs[o].rejected /\ rs[o].deadline # "passed"
          /\ ~Precedes(q, o, r)}

\* Older queue entries that still stand in the way on key k.
Ahead(rs, q, k, r) ==
    {o \in In(q) :
        /\ o # r
        /\ k \in rs[o].waitKeys
        /\ ~rs[o].rejected
        /\ rs[o].deadline # "passed"
        /\ ~Precedes(q, r, o)}

\* Mutants: one more than the cap; newcomers take what is free.
BlockedPastCap(rs, q, k, r, limit) ==
    Cardinality(Active(rs, k)) > limit \/ Ahead(rs, q, k, r) # {}
BlockedByCapOnly(rs, q, k, r, limit) == Cardinality(Active(rs, k)) >= limit

Blocked(rs, q, k, r, limit) ==
    \/ Cardinality(Active(rs, k)) >= limit
    \/ Ahead(rs, q, k, r) # {}

\* rejectLocked: the first rejection of an execution stands.
Reject(r) == requests' = [requests EXCEPT ![r].rejected = TRUE]

\* startWaitLocked, and the rejection of a wait whose deadline has passed.
Enqueue(rs, q, r, keys) ==
    /\ requests' = [rs EXCEPT ![r].waitKeys = keys,
                              ![r].deadline = IF @ = "none" THEN "set" ELSE @,
                              ![r].rejected = @ \/ rs[r].deadline = "passed"]
    /\ queue' = IF r \in Queued THEN q ELSE Joined(q, r)
    /\ waiting' = IF call[r].waits THEN waiting ELSE waiting + 1

\* A call that waited still has its deferred endWait to run.
Return(r) == call' = [call EXCEPT ![r] =
                         IF call[r].waits THEN [NoCall EXCEPT !.at = "returning", !.waits = TRUE]
                                          ELSE NoCall]

\* registerLocked first drops entries without a slot that are older than 30 minutes.
Expirable(r) == {x \in registered \cap Aged : x # r /\ requests[x].key = 0}
Dropped(rs, old) == [s \in Slot |-> IF s \in old THEN Fresh ELSE rs[s]]
HasRoom(old) == Cardinality(registered \ old) < RegistrationLimit
-----------------------------------------------------------------------------
Init ==
    /\ registered = {}
    /\ requests = [s \in Slot |-> Fresh]
    /\ completed = {}
    /\ aliases = [x \in Alias |-> 0]
    /\ queue = {}
    /\ waiting = 0
    /\ call = [r \in Request |-> NoCall]
    /\ cfg \in Configs
    /\ detached = FALSE
-----------------------------------------------------------------------------
(* Host calls.                                                              *)

Before(r) ==
    /\ call[r] = NoCall
    /\ SelectionMuFree
    /\ ~detached
    /\ r \notin registered
    /\ r \notin completed
    /\ \E old \in SUBSET Expirable(r) :
          /\ registered' = (registered \ old) \cup
                           (IF HasRoom(old) THEN {r} ELSE {})
          /\ requests' = Dropped(requests, old)
          /\ queue' = Without(queue, old)
    /\ UNCHANGED <<completed, aliases, waiting, call, settingVars>>

\* schedulerPick of a mixed-provider request leaves the choice to the host.
PickMixed(r) ==
    /\ call[r] = NoCall
    /\ ~detached
    /\ r \in registered
    /\ ~requests[r].native
    /\ requests' = [requests EXCEPT ![r].native = TRUE]
    /\ UNCHANGED <<registered, completed, aliases, queue, waiting, call, settingVars>>

\* The arguments of a call are chosen when it begins and kept while it waits.
Calls(r, loop, f, s, p) ==
    \/ call[r] = NoCall
    \/ /\ call[r].at = loop
       /\ call[r].first = f /\ call[r].second = s /\ call[r].preferred = p

Late(r) == cfg.enforced /\ r \in Queued /\ requests[r].deadline = "passed"
\* Mutant: an earlier rejection is forgotten.
AdmissibleAgain(r) == ~detached /\ r \in registered /\ ~Late(r)
Admissible(r) == ~detached /\ r \in registered /\ ~requests[r].rejected /\ ~Late(r)

\* A waiting call finds the plugin detached, its execution gone or rejected;
\* the same answers to a call that did not wait change nothing.
GiveUp(r) ==
    /\ call[r].at \in {"picking", "admitting"}
    /\ SelectionMuFree
    /\ detached \/ r \notin registered \/ requests[r].rejected
    /\ Return(r)
    /\ UNCHANGED <<gateVars, settingVars>>

Expire(r) ==
    /\ call[r].at \in {"picking", "admitting"}
    /\ SelectionMuFree
    /\ ~detached /\ r \in registered /\ ~requests[r].rejected
    /\ Late(r)
    /\ Reject(r)
    /\ Return(r)
    /\ UNCHANGED <<registered, completed, aliases, queue, waiting, settingVars>>

\* schedulerPick from the top of its loop to the wait, or to the ranking of
\* the credentials that have room.  The slot of an earlier attempt is given up
\* first, whatever comes of this one.  skipped are candidates the ranking would
\* leave out at the moment: quarantined, exhausted, behind an open circuit.
Pick(r, f, s, p, skipped) ==
    LET a == Learn(Learn(aliases, f), s)
        detachedOld == [requests EXCEPT ![r].key = 0, ![r].dispatched = FALSE]
        rs == Rekey(Rekey(detachedOld, aliases, f), Learn(aliases, f), s)
        candidates == {f, s}
        eligible == candidates \ skipped
        preferred == {p} \cap eligible
        busy == {c \in candidates :
                    cfg.enforced /\ Blocked(rs, queue, KeyFor(a, c), r, cfg.limit)}
        mustWait == \/ preferred # {} /\ preferred \subseteq busy
                    \/ eligible # {} /\ eligible \subseteq busy
                    \/ candidates \subseteq busy
    IN  /\ Calls(r, "picking", f, s, p)
        /\ SelectionMuFree
        /\ Admissible(r)
        /\ aliases' = a
        /\ IF mustWait
           THEN /\ Enqueue(rs, queue, r,
                           {KeyFor(a, c) : c \in IF preferred = {} THEN eligible ELSE preferred})
                /\ call' = [call EXCEPT ![r] =
                               [at |-> IF requests'[r].rejected THEN "returning" ELSE "picking",
                                first |-> f, second |-> s, preferred |-> p,
                                idle |-> {}, waits |-> TRUE]]
           ELSE /\ requests' = rs
                /\ call' = [call EXCEPT ![r] =
                               [NoCall EXCEPT !.at = "selecting", !.idle = candidates \ busy,
                                              !.waits = call[r].waits]]
                /\ UNCHANGED <<queue, waiting>>
        /\ UNCHANGED <<registered, completed, settingVars>>

\* Mutant: the slot is given without looking the execution up again.
SelectedUnverified(r, c) ==
    /\ call[r].at = "selecting"
    /\ c \in call[r].idle
    /\ aliases' = Learn(aliases, c)
    /\ requests' = [Rekey(requests, aliases, c) EXCEPT ![r].key = KeyFor(aliases, c)]
    /\ Return(r)
    /\ UNCHANGED <<registered, completed, queue, waiting, settingVars>>

\* The ranking picked one of them, or none; the execution may have ended.
Selected(r, c) ==
    /\ call[r].at = "selecting"
    /\ c \in call[r].idle \cup {NoCredential}
    /\ IF c # NoCredential /\ r \in registered
       THEN /\ aliases' = Learn(aliases, c)
            /\ requests' = [Rekey(requests, aliases, c) EXCEPT
                               ![r].key = KeyFor(aliases, c), ![r].served = r \in Aged]
       ELSE UNCHANGED <<aliases, requests>>
    /\ Return(r)
    /\ UNCHANGED <<registered, completed, queue, waiting, settingVars>>

\* concurrencyAfter for the credential c the host settled on: admits an
\* execution its scheduler pick did not admit, and checks one it did.  An unknown
\* execution is registered once, at the start of the call.  refused is the verdict of
\* the recovery admission that follows (RecoveryAdmission).  A registration the
\* ledger has no room for has the effects of Before.
After(r, c, refused, old) ==
    LET joins == /\ call[r] = NoCall
                 /\ r \notin registered \cup completed
                 /\ old \in SUBSET Expirable(r) /\ HasRoom(old)
        k == KeyFor(aliases, c)
        rs == Rekey(Dropped(requests, old), aliases, c)
        native == rs[r].native \/ rs[r].key = 0
        moved == [rs EXCEPT ![r].native = TRUE, ![r].key = IF @ = k THEN k ELSE 0]
        mustWait == /\ native /\ cfg.enforced /\ moved[r].key = 0
                    /\ Blocked(moved, Without(queue, old), k, r, cfg.limit)
    IN  /\ Calls(r, "admitting", c, c, NoCredential)
        /\ SelectionMuFree
        /\ ~detached
        /\ joins \/ (r \in registered /\ old = {})
        /\ ~requests[r].rejected /\ ~Late(r)
        /\ registered' = (registered \ old) \cup {r}
        /\ aliases' = Learn(aliases, c)
        /\ IF mustWait
           THEN /\ Enqueue(moved, Without(queue, old), r, {k})
                /\ call' = [call EXCEPT ![r] =
                               [at |-> IF requests'[r].rejected THEN "returning" ELSE "admitting",
                                first |-> c, second |-> c, preferred |-> NoCredential,
                                idle |-> {}, waits |-> TRUE]]
           ELSE /\ requests' =
                     IF native
                     THEN [moved EXCEPT ![r].key = k, ![r].served = r \in Aged,
                                        ![r].dispatched = @ \/ ~refused]
                     ELSE IF cfg.enforced /\ rs[r].key # k
                          THEN [rs EXCEPT ![r].rejected = TRUE]
                          ELSE [rs EXCEPT ![r].dispatched = @ \/ ~refused]
                /\ Return(r)
                /\ queue' = Without(queue, old)
                /\ UNCHANGED waiting
        /\ UNCHANGED <<completed, settingVars>>

\* concurrencyAfter when the host settled on another provider.
AfterOther(r) ==
    /\ call[r] = NoCall
    /\ SelectionMuFree
    /\ ~detached
    /\ r \in registered
    /\ requests[r].key # 0
    /\ requests' = [requests EXCEPT ![r].key = 0, ![r].dispatched = FALSE]
    /\ UNCHANGED <<registered, completed, aliases, queue, waiting, call, settingVars>>

\* Mutant: a call leaves its place in the queue behind.
EndWaitCountOnly(r) ==
    /\ call[r].at = "returning"
    /\ waiting' = waiting - 1
    /\ call' = [call EXCEPT ![r] = NoCall]
    /\ UNCHANGED <<registered, requests, completed, aliases, queue, settingVars>>

\* endWait, after the call has given selectionMu up.
EndWait(r) ==
    /\ call[r].at = "returning"
    /\ waiting' = waiting - 1
    /\ queue' = Without(queue, {r})
    /\ requests' = IF r \in Queued THEN [requests EXCEPT ![r].waitKeys = {}] ELSE requests
    /\ call' = [call EXCEPT ![r] = NoCall]
    /\ UNCHANGED <<registered, completed, aliases, settingVars>>

\* The terminal callback: concurrencyComplete's release.
Complete(r) ==
    /\ r \notin completed
    /\ completed' = completed \cup {r}
    /\ registered' = registered \ {r}
    /\ requests' = [requests EXCEPT ![r] = Fresh]
    /\ queue' = Without(queue, {r})
    /\ UNCHANGED <<aliases, waiting, call, settingVars>>

\* releaseRejectedContinuityAttempt: a definitive 429 before any output.
ReleaseAttempt(r) ==
    /\ r \in registered
    /\ requests[r].dispatched
    /\ requests' = [requests EXCEPT ![r].key = 0, ![r].dispatched = FALSE]
    /\ UNCHANGED <<registered, completed, aliases, queue, waiting, call, settingVars>>
-----------------------------------------------------------------------------
(* Background activation, status polls and settings.                        *)

BeginWarmup(w, c) ==
    LET rs == Rekey(requests, aliases, c)
        k == KeyFor(aliases, c)
    IN  /\ w \notin registered
        /\ SelectionMuFree
        /\ aliases' = Learn(aliases, c)
        /\ ~Blocked(rs, queue, k, Nobody, 1)
        /\ registered' = registered \cup {w}
        /\ requests' = [rs EXCEPT ![w].key = k]
        /\ UNCHANGED <<completed, queue, waiting, call, settingVars>>

EndWarmup(w) ==
    /\ w \in registered
    /\ registered' = registered \ {w}
    /\ requests' = [requests EXCEPT ![w] = Fresh]
    /\ UNCHANGED <<completed, aliases, queue, waiting, call, settingVars>>

\* concurrencyStatus learns aliases too, under g.mu alone.
Status(c) ==
    /\ Learn(aliases, c) # aliases
    /\ aliases' = Learn(aliases, c)
    /\ requests' = Rekey(requests, aliases, c)
    /\ UNCHANGED <<registered, completed, queue, waiting, call, settingVars>>

\* configureSchedulerRuntime and stop, as far as the gate sees them.
Configure(settings) ==
    /\ SelectionMuFree
    /\ settings # cfg \/ detached
    /\ cfg' = settings
    /\ detached' = FALSE
    /\ UNCHANGED <<gateVars, call>>

Stop ==
    /\ SelectionMuFree
    /\ ~detached
    /\ detached' = TRUE
    /\ UNCHANGED <<gateVars, call, cfg>>

DeadlinePasses(r) ==
    /\ WaitsExpire
    /\ requests[r].deadline = "set"
    /\ requests' = [requests EXCEPT ![r].deadline = "passed"]
    /\ UNCHANGED <<registered, completed, aliases, queue, waiting, call, settingVars>>
-----------------------------------------------------------------------------
\* No caller ever presents a name of both.
Distinct(f, s) == \A c \in Credential : c \cap f = {} \/ c \cap s = {}

PickTurn(r) == \E f, s \in Credential, p \in Credential \cup {NoCredential} :
                  /\ \/ f = s /\ p = NoCredential
                     \/ Distinct(f, s) /\ Least(f) < Least(s) /\ p \in {f, s, NoCredential}
                  /\ \E skipped \in SUBSET (Unstable \cap {f, s}) : Pick(r, f, s, p, skipped)
AfterTurn(r) == \E c \in Credential, refused \in BOOLEAN, old \in SUBSET Aged :
                   After(r, c, refused, old)

Call(r) ==
    \/ Before(r) \/ PickMixed(r) \/ PickTurn(r) \/ AfterTurn(r) \/ AfterOther(r)
    \/ GiveUp(r) \/ Expire(r) \/ EndWait(r)
    \/ \E c \in Credential \cup {NoCredential} : Selected(r, c)

Environment ==
    \/ \E r \in Request : Complete(r) \/ ReleaseAttempt(r) \/ DeadlinePasses(r)
    \/ \E w \in Warmup : EndWarmup(w) \/ \E c \in Credential : BeginWarmup(w, c)
    \/ \E c \in Credential : Status(c)
    \/ \E settings \in Configs : Configure(settings)
    \/ Stop

Next == (\E r \in Request : Call(r)) \/ Environment

Spec == Init /\ [][Next]_vars

\* A call in progress goes on: a waiting one is woken at least every 100 ms and
\* gets selectionMu in its turn (Go hands a starved waiter the mutex).  An execution or
\* activation that holds a slot ends some time, unless it gives the slot up by itself.
Turn(r) ==
    \/ /\ call[r].at = "picking"
       /\ \E skipped \in SUBSET Unstable :
             Pick(r, call[r].first, call[r].second, call[r].preferred, skipped)
    \/ /\ call[r].at = "admitting"
       /\ \E refused \in BOOLEAN : After(r, call[r].first, refused, {})
    \/ GiveUp(r)
    \/ Expire(r)

Fairness ==
    /\ \A r \in Request :
          /\ SF_vars(Turn(r)) /\ WF_vars(EndWait(r))
          /\ WF_vars(\E c \in Credential \cup {NoCredential} : Selected(r, c))
          /\ WF_vars(requests[r].key # 0 /\ Complete(r))
    /\ \A w \in Warmup : WF_vars(EndWarmup(w))

FairSpec == Spec /\ Fairness
-----------------------------------------------------------------------------
Entries == [key : Nat, native : BOOLEAN, dispatched : BOOLEAN, rejected : BOOLEAN,
            deadline : {"none", "set", "passed"}, waitKeys : SUBSET Nat, served : BOOLEAN]
CallStates == [at : {"idle", "picking", "selecting", "admitting", "returning"},
               first : SUBSET Alias, second : SUBSET Alias, preferred : SUBSET Alias,
               idle : SUBSET Credential, waits : BOOLEAN]

\* Every part of the state has the shape the code gives it; the queue is
\* in one order and an execution has one place in it.
TypeOK ==
    /\ registered \in SUBSET Slot
    /\ requests \in [Slot -> Entries]
    /\ completed \in SUBSET Request
    /\ aliases \in [Alias -> Nat]
    /\ Queued \subseteq Request /\ queue \subseteq Queued \X Queued
    /\ \A a, b \in Queued : <<a, b>> \in queue \/ <<b, a>> \in queue
    /\ \A a, b \in Queued : <<a, b>> \in queue /\ <<b, a>> \in queue => a = b
    /\ \A a, b, c \in Queued : <<a, b>> \in queue /\ <<b, c>> \in queue => <<a, c>> \in queue
    /\ waiting \in Int
    /\ call \in [Request -> CallStates]
    /\ cfg \in Configs
    /\ detached \in BOOLEAN

\* An execution or activation that takes a slot on a key it did not hold, not
\* one whose key was merged into it.
Admitted(s) == /\ requests[s].key # requests'[s].key
               /\ requests'[s].key # 0
               /\ requests[s].key = 0 \/ aliases'[requests[s].key] # requests'[s].key

\* No admission under enforcement makes a credential run more executions than
\* its cap, although g.mu is given up between the check and the slot; a
\* background activation never joins anything (concurrency.go:545-616, 762-803, 966-970).
AdmissionFits ==
    \A s \in Slot :
        Admitted(s) /\ (cfg.enforced \/ s \in Warmup) =>
            Cardinality(Active(requests', requests'[s].key)) =<
                IF s \in Warmup THEN 1 ELSE cfg.limit
AdmissionsFit == [][AdmissionFits]_vars

\* No admission under enforcement overtakes an execution that queued earlier for
\* the same credential and may still be admitted (concurrency.go:255-258).
NotOvertaking ==
    \A s \in Slot :
        Admitted(s) /\ (cfg.enforced \/ s \in Warmup) =>
            Ahead(requests, queue, requests'[s].key, s) \cap registered' = {}
NobodyOvertakes == [][NotOvertaking]_vars

\* A place in the queue belongs to a call that is still waiting or about to
\* return: no execution that has left holds back those behind it, and the
\* reported number of waiters is theirs (concurrency.go:291-300, 466-470).
QueueIsLive ==
    /\ \A r \in Request : r \in Queued => call[r].waits
    /\ waiting = Cardinality({r \in Request : call[r].waits})

\* A slot is never held for an execution that has ended or was never
\* registered, however late a callback or a ranking comes back
\* (concurrency.go:162-177, 609-612).
SlotsBelongToRegistered ==
    /\ registered \cap completed = {}
    /\ \A s \in Slot : requests[s].key # 0 => s \in registered

\* A rejected execution is neither admitted nor dispatched by a later attempt
\* of the same lifecycle (concurrency.go:516-518).
RejectionHolds ==
    \A r \in Request :
        requests[r].rejected /\ r \in registered' =>
            /\ requests'[r].rejected
            /\ requests'[r].dispatched => requests[r].dispatched
            /\ ~Admitted(r)
RejectionsHold == [][RejectionHolds]_vars

\* Learning that two names are one credential never leaves a slot or a queue
\* entry behind under the old name, where nothing would count it
\* (concurrency.go:194-239).
SlotsUnderCurrentKey ==
    \A s \in Slot : \A k \in {requests[s].key} \cup requests[s].waitKeys :
        k # 0 => k \in Alias /\ aliases[k] = k

\* Age alone only drops a registration that never had a slot
\* (concurrency.go:140-141).  The code does not keep this between two attempts.
DroppedNeverServed ==
    \A r \in Request :
        r \in registered /\ r \notin registered' /\ r \notin completed' =>
            ~requests[r].served
DropsNeverServed == [][DroppedNeverServed]_vars

\* As long as slots are released some time, whoever waits for one is answered
\* without the help of a deadline: executions that retry for ever do not starve it.
WaitersAreServed == \A r \in Request : call[r].waits ~> ~call[r].waits
=============================================================================
