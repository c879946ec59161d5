-------------------------- MODULE GenerationOwner ---------------------------
(***************************************************************************)
(* Loaded instances of the plugin (generation_owner.go, and the lifecycle  *)
(* and state-file halves of runtime.go) that share one state_path.         *)
(*                                                                         *)
(* The generation journal is a record that every instance reads and        *)
(* appends to under an operating-system lock, so each journal operation is *)
(* one step here (GenerationJournal shows that it may be taken for one).   *)
(* What an instance does between two journal operations (drain, load,      *)
(* probe, reload, publish, snapshot) is a step of its own.                 *)
(*                                                                         *)
(* Simplifications.  An owner is a fresh random string per reservation;    *)
(* a reservation also has a fresh ticket, so <<ticket, instance>> names    *)
(* it.  Of the state file only two parts are kept, because they have       *)
(* opposite merge rules: bans are united with what the reader already has, *)
(* reset confirmations are replaced at a takeover.  state_path is never    *)
(* empty.  A persistBanState call checks ownership twice before its        *)
(* snapshot; only the second check can matter and is kept.                 *)
(***************************************************************************)
EXTENDS Naturals, FiniteSets

CONSTANTS Instance,        \* loaded instances sharing state_path
          NoInstance,      \* the empty active_owner
          Credential,      \* accounts a ban or a confirmation is about
          Outcomes,        \* how a journal append can end: see OutcomesAssumption
          Observed,        \* instances with a concurrent ownership check in flight
          Reconfigurable,  \* instances the host may configure more than once
          MaxTicket        \* bound: reservations ever made

\* "ok", an error without effect, or an error after the record became durable.
ASSUME OutcomesAssumption == Outcomes \subseteq {"ok", "failed", "unsure"}
ASSUME InstanceAssumption == NoInstance \notin Instance
ASSUME TicketAssumption == MaxTicket \in Nat

VARIABLES
    journal,     \* schedulerGenerationRecord
    stateFile,   \* persistedBanState; ticket and taken are history: the ticket
                 \* that committed it and the ticket its snapshot was taken under
    ownership,   \* [Instance -> schedulerGenerationOwnership]
    memory,      \* [Instance -> in-memory bans and reset confirmations]
    stopping,    \* [Instance -> s.stopping]
    lifecycle,   \* [Instance -> where configure/stop is]
    goal,        \* [Instance -> whether that is a configure or a shutdown]
    refresh,     \* [Instance -> where the refresh loop's refreshOnce is]
    saver,       \* [Instance -> a host callback inside persistBanState]
    observer     \* [Instance -> ticket a generationOwnerActive call has read, or 0]

vars == <<journal, stateFile, ownership, memory, stopping, lifecycle, goal,
          refresh, saver, observer>>

instanceVars == <<ownership, memory, stopping, lifecycle, goal, refresh, saver, observer>>
-----------------------------------------------------------------------------
Contents == [bans : SUBSET Credential, confirmations : SUBSET Credential]

Unowned(t) == [ticket |-> t, claimed |-> FALSE, released |-> FALSE, superseded |-> FALSE]
Empty == [bans |-> {}, confirmations |-> {}]
Idle == [at |-> "idle", contents |-> Empty, taken |-> 0]

Alive(i) == lifecycle[i] # "down"
Held(i) == /\ ownership[i].claimed
           /\ ~ownership[i].released
           /\ ~ownership[i].superseded
OnRecord(i, t) == journal.active /\ journal.activeGeneration = t /\ journal.activeOwner = i
OwnerActive(i) == Held(i) /\ OnRecord(i, ownership[i].ticket)
\* Mutant: the newest reservation counts itself among those that overtook it.
OvertakenByItself(i) == journal.highest >= ownership[i].ticket
Overtaken(i) == \/ journal.highest > ownership[i].ticket
                \/ journal.activeGeneration >= ownership[i].ticket

\* markGenerationSuperseded: marks whatever generation the instance has now.
MarkSuperseded(i) ==
    /\ ownership' = [ownership EXCEPT ![i].superseded = TRUE]
    /\ stopping' = [stopping EXCEPT ![i] = TRUE]

\* Mutant: an unreadable journal retires the instance too.
CheckOwnerFailingShut(i, active) ==
    \/ active /\ OwnerActive(i) /\ UNCHANGED <<ownership, stopping>>
    \/ /\ ~active
       /\ ~OwnerActive(i) \/ "failed" \in Outcomes
       /\ IF Held(i) THEN MarkSuperseded(i) ELSE UNCHANGED <<ownership, stopping>>

\* generationOwnerActive answers active: a mismatch retires the instance, an
\* unreadable journal answers no and retires nothing.
CheckOwner(i, active) ==
    \/ /\ active
       /\ OwnerActive(i)
       /\ UNCHANGED <<ownership, stopping>>
    \/ /\ ~active
       /\ ~OwnerActive(i)
       /\ IF Held(i) THEN MarkSuperseded(i) ELSE UNCHANGED <<ownership, stopping>>
    \/ /\ ~active
       /\ "failed" \in Outcomes
       /\ UNCHANGED <<ownership, stopping>>

\* Mutant: the commit trusts the in-memory claim instead of the journal.
CommitUnverified(i, contents, t) ==
    /\ stateFile' = IF Held(i)
                    THEN [bans |-> contents.bans, confirmations |-> contents.confirmations,
                          ticket |-> ownership[i].ticket, taken |-> t]
                    ELSE stateFile
    /\ UNCHANGED <<ownership, stopping>>

\* withGenerationOwnerCommit of a snapshot taken under ticket t.
CommitUnderFence(i, contents, t) ==
    \E committed \in BOOLEAN :
        /\ CheckOwner(i, committed)
        /\ stateFile' = IF committed
                        THEN [bans |-> contents.bans,
                              confirmations |-> contents.confirmations,
                              ticket |-> ownership[i].ticket, taken |-> t]
                        ELSE stateFile

persistMuFree(i) == saver[i].at # "snapped"

\* Mutant: confirmations merged like bans.
MergedAlike(contents) == [bans |-> contents.bans \cup stateFile.bans,
                          confirmations |-> contents.confirmations \cup stateFile.confirmations]

\* loadBanStateWithConfirmationMode on the two parts kept of the state file.
Merged(contents) == [bans |-> contents.bans \cup stateFile.bans,
                     confirmations |-> stateFile.confirmations]
-----------------------------------------------------------------------------
Init ==
    /\ journal = [highest |-> 0, activeGeneration |-> 0,
                  activeOwner |-> NoInstance, active |-> FALSE]
    /\ stateFile = [bans |-> {}, confirmations |-> {}, ticket |-> 0, taken |-> 0]
    /\ ownership = [i \in Instance |-> Unowned(0)]
    /\ memory = [i \in Instance |-> Empty]
    /\ stopping = [i \in Instance |-> FALSE]
    /\ lifecycle = [i \in Instance |-> "down"]
    /\ goal = [i \in Instance |-> "configure"]
    /\ refresh = [i \in Instance |-> "idle"]
    /\ saver = [i \in Instance |-> Idle]
    /\ observer = [i \in Instance |-> 0]
-----------------------------------------------------------------------------
(* Lifecycle: configureSchedulerRuntime and stop, serialized by lifecycleMu. *)

Busy(i) == lifecycle[i] \in {"draining", "committing", "releasing", "loading", "reserving"}

\* Bound: every configure in progress may still take one ticket.
TicketsLeft ==
    journal.highest + Cardinality({j \in Instance : Busy(j) /\ goal[j] = "configure"}) < MaxTicket

BeginLifecycle(i, g) ==
    /\ ~Busy(i)
    /\ g = "shutdown" => Alive(i)
    /\ g = "configure" => /\ TicketsLeft
                          /\ Alive(i) => i \in Reconfigurable
    /\ goal' = [goal EXCEPT ![i] = g]
    /\ lifecycle' = [lifecycle EXCEPT ![i] = "draining"]
    /\ stopping' = [stopping EXCEPT ![i] = TRUE]
    /\ UNCHANGED <<journal, stateFile, ownership, memory, refresh, saver, observer>>

AfterStop(i) == IF goal[i] = "configure" THEN "loading" ELSE "stopped"

\* wg.Wait, then only an active owner goes on to commit and release.
Drained(i) ==
    /\ lifecycle[i] = "draining"
    /\ refresh[i] = "idle"
    /\ \E active \in BOOLEAN :
          /\ CheckOwner(i, active)
          /\ lifecycle' = [lifecycle EXCEPT ![i] =
                              IF active THEN "committing" ELSE AfterStop(i)]
    /\ UNCHANGED <<journal, stateFile, memory, goal, refresh, saver, observer>>

\* Mutant: a final save that was refused is tried again until it lands.
StopCommitUntilSaved(i) ==
    /\ lifecycle[i] = "committing"
    /\ persistMuFree(i)
    /\ CommitUnderFence(i, memory[i], ownership[i].ticket)
    /\ lifecycle' = [lifecycle EXCEPT ![i] = IF OwnerActive(i) THEN "releasing" ELSE @]
    /\ UNCHANGED <<journal, memory, goal, refresh, saver, observer>>

\* The final persistBanState waits for the callback that holds persistMu.
StopCommit(i) ==
    /\ lifecycle[i] = "committing"
    /\ persistMuFree(i)
    /\ CommitUnderFence(i, memory[i], ownership[i].ticket)
    /\ lifecycle' = [lifecycle EXCEPT ![i] = "releasing"]
    /\ UNCHANGED <<journal, memory, goal, refresh, saver, observer>>

ReleaseOwnership(i) ==
    /\ lifecycle[i] = "releasing"
    /\ \/ /\ OwnerActive(i)
          /\ \E o \in Outcomes :
                /\ journal' = IF o = "failed" THEN journal
                                              ELSE [journal EXCEPT !.active = FALSE]
                /\ ownership' = IF o = "ok" THEN [ownership EXCEPT ![i].released = TRUE]
                                            ELSE ownership
          /\ UNCHANGED stopping
       \/ /\ CheckOwner(i, FALSE)
          /\ UNCHANGED journal
    /\ lifecycle' = [lifecycle EXCEPT ![i] = AfterStop(i)]
    /\ UNCHANGED <<stateFile, memory, goal, refresh, saver, observer>>

\* Ownership and confirmations start afresh; bans outlive a reconfigure.
LoadState(i) ==
    /\ lifecycle[i] = "loading"
    /\ ownership' = [ownership EXCEPT ![i] = Unowned(0)]
    /\ stopping' = [stopping EXCEPT ![i] = FALSE]
    /\ memory' = [memory EXCEPT ![i] = Merged(@)]
    /\ lifecycle' = [lifecycle EXCEPT ![i] = "reserving"]
    /\ UNCHANGED <<journal, stateFile, goal, refresh, saver, observer>>

\* Mutant: reservations nobody claimed yet are forgotten.
TicketAfterActive == 1 + journal.activeGeneration
NextTicket == 1 + IF journal.activeGeneration > journal.highest
                  THEN journal.activeGeneration ELSE journal.highest

\* A failed reservation, like a disabled configuration, starts no refresh loop.
ReserveOwnership(i) ==
    /\ lifecycle[i] = "reserving"
    /\ \E o \in Outcomes \cup {"failed"} :
          /\ journal' = IF o = "failed" THEN journal
                                        ELSE [journal EXCEPT !.highest = NextTicket]
          /\ ownership' = IF o = "ok" THEN [ownership EXCEPT ![i] = Unowned(NextTicket)]
                                      ELSE ownership
    /\ lifecycle' = [lifecycle EXCEPT ![i] = "running"]
    /\ UNCHANGED <<stateFile, memory, stopping, goal, refresh, saver, observer>>

\* The process holding instance i dies at any point; nothing in memory survives.
Crash(i) ==
    /\ Alive(i)
    /\ ownership' = [ownership EXCEPT ![i] = Unowned(0)]
    /\ memory' = [memory EXCEPT ![i] = Empty]
    /\ stopping' = [stopping EXCEPT ![i] = FALSE]
    /\ lifecycle' = [lifecycle EXCEPT ![i] = "down"]
    /\ goal' = [goal EXCEPT ![i] = "configure"]
    /\ refresh' = [refresh EXCEPT ![i] = "idle"]
    /\ saver' = [saver EXCEPT ![i] = Idle]
    /\ observer' = [observer EXCEPT ![i] = 0]
    /\ UNCHANGED <<journal, stateFile>>
-----------------------------------------------------------------------------
(* refreshOnce of the refresh loop, up to the claim.                        *)

\* generationCanRefresh of a reserved but unclaimed instance.
StartRefresh(i) ==
    /\ lifecycle[i] = "running"
    /\ refresh[i] = "idle"
    /\ ownership[i].ticket # 0
    /\ ~ownership[i].superseded /\ ~ownership[i].released /\ ~ownership[i].claimed
    /\ IF Overtaken(i)
       THEN /\ MarkSuperseded(i)
            /\ UNCHANGED refresh
       ELSE /\ journal.highest = ownership[i].ticket
            /\ refresh' = [refresh EXCEPT ![i] = "probing"]
            /\ UNCHANGED <<ownership, stopping>>
    /\ UNCHANGED <<journal, stateFile, memory, lifecycle, goal, saver, observer>>

\* A read that got through before a stop cancelled it is followed by the claim
\* all the same; stop waits for it.
FetchInventory(i) ==
    /\ refresh[i] = "probing"
    /\ refresh' = [refresh EXCEPT ![i] = "fetched"]
    /\ UNCHANGED <<journal, stateFile, ownership, memory, stopping, lifecycle, goal,
                   saver, observer>>

InventoryFailed(i) ==
    /\ refresh[i] = "probing"
    /\ refresh' = [refresh EXCEPT ![i] = "idle"]
    /\ UNCHANGED <<journal, stateFile, ownership, memory, stopping, lifecycle, goal,
                   saver, observer>>

\* claimGenerationAfterSuccessfulRefresh, the part under the journal lock.
Promotable(i) == ~ownership[i].superseded /\ ~ownership[i].released /\ ~ownership[i].claimed

PromoteReservation(i) ==
    /\ refresh[i] = "fetched"
    /\ Promotable(i)
    /\ \/ /\ Overtaken(i)
          /\ MarkSuperseded(i)
          /\ refresh' = [refresh EXCEPT ![i] = "idle"]
          /\ UNCHANGED journal
       \/ /\ ~Overtaken(i)
          /\ \E o \in Outcomes :
                /\ journal' = IF o = "failed" \/ journal.highest # ownership[i].ticket
                              THEN journal
                              ELSE [journal EXCEPT !.activeGeneration = ownership[i].ticket,
                                                   !.activeOwner = i, !.active = TRUE]
                /\ refresh' = [refresh EXCEPT ![i] =
                                  IF o = "ok" /\ journal.highest = ownership[i].ticket
                                  THEN "promoted" ELSE "idle"]
          /\ UNCHANGED <<ownership, stopping>>
    /\ UNCHANGED <<stateFile, memory, lifecycle, goal, saver, observer>>

AbandonClaim(i) ==
    /\ refresh[i] = "fetched"
    /\ ~Promotable(i)
    /\ refresh' = [refresh EXCEPT ![i] = "idle"]
    /\ UNCHANGED <<journal, stateFile, ownership, memory, stopping, lifecycle, goal,
                   saver, observer>>

\* loadBanStateAfterGenerationClaim: the fence has moved, Claimed is still false.
ReloadAfterClaim(i) ==
    /\ refresh[i] = "promoted"
    /\ memory' = [memory EXCEPT ![i] = Merged(@)]
    /\ refresh' = [refresh EXCEPT ![i] = "reloaded"]
    /\ UNCHANGED <<journal, stateFile, ownership, stopping, lifecycle, goal, saver, observer>>

PublishClaim(i) ==
    /\ refresh[i] = "reloaded"
    /\ refresh' = [refresh EXCEPT ![i] = "idle"]
    /\ ownership' = IF ownership[i].superseded THEN ownership
                    ELSE [ownership EXCEPT ![i].claimed = TRUE]
    /\ UNCHANGED <<journal, stateFile, memory, stopping, lifecycle, goal, saver, observer>>

\* The owner's later refreshes reconcile reset confirmations and save them.
\* A save refused or failed leaves the change in memory only.
Reconcile(i, confirmations) ==
    /\ lifecycle[i] \in {"running", "draining"}
    /\ OwnerActive(i)
    /\ confirmations # memory[i].confirmations
    /\ persistMuFree(i)
    /\ memory' = [memory EXCEPT ![i].confirmations = confirmations]
    /\ CommitUnderFence(i, memory'[i], ownership[i].ticket)
    /\ UNCHANGED <<journal, lifecycle, goal, refresh, saver, observer>>
-----------------------------------------------------------------------------
(* Host callbacks, which lifecycleMu does not hold back.                    *)

\* A 429 (handleUsage) or an unban changes the ban store, then saves.
ChangeBans(i, bans) ==
    /\ Alive(i)
    /\ saver[i].at = "idle"
    /\ memory' = [memory EXCEPT ![i].bans = bans]
    /\ saver' = [saver EXCEPT ![i].at = "saving"]
    /\ UNCHANGED <<journal, stateFile, ownership, stopping, lifecycle, goal, refresh, observer>>

\* persistBanState up to its snapshot, taken with persistMu held.
TakeSnapshot(i) ==
    /\ saver[i].at = "saving"
    /\ \E active \in BOOLEAN :
          /\ CheckOwner(i, active)
          /\ saver' = [saver EXCEPT ![i] =
                          IF active THEN [at |-> "snapped", contents |-> memory[i],
                                          taken |-> ownership[i].ticket]
                                    ELSE Idle]
    /\ UNCHANGED <<journal, stateFile, memory, lifecycle, goal, refresh, observer>>

\* withGenerationOwnerCommit: verify and rename under the journal lock, with
\* the ownership the instance has at that moment.
CommitSnapshot(i) ==
    /\ saver[i].at = "snapped"
    /\ CommitUnderFence(i, saver[i].contents, saver[i].taken)
    /\ saver' = [saver EXCEPT ![i] = Idle]
    /\ UNCHANGED <<journal, memory, lifecycle, goal, refresh, observer>>

\* Any other generationOwnerActive call (worker admission, status, a pick): it
\* reads the ownership first and the journal later.
BeginOwnerCheck(i) ==
    /\ i \in Observed
    /\ Held(i)
    /\ observer[i] = 0
    /\ observer' = [observer EXCEPT ![i] = ownership[i].ticket]
    /\ UNCHANGED <<journal, stateFile, ownership, memory, stopping, lifecycle, goal,
                   refresh, saver>>

EndOwnerCheck(i) ==
    /\ observer[i] # 0
    /\ IF OnRecord(i, observer[i]) THEN UNCHANGED <<ownership, stopping>>
                                   ELSE MarkSuperseded(i)
    /\ observer' = [observer EXCEPT ![i] = 0]
    /\ UNCHANGED <<journal, stateFile, memory, lifecycle, goal, refresh, saver>>
-----------------------------------------------------------------------------
Lifecycle(i) ==
    \/ \E g \in {"configure", "shutdown"} : BeginLifecycle(i, g)
    \/ Drained(i) \/ StopCommit(i) \/ ReleaseOwnership(i)
    \/ LoadState(i) \/ ReserveOwnership(i)

Refresh(i) ==
    \/ StartRefresh(i) \/ FetchInventory(i) \/ InventoryFailed(i)
    \/ PromoteReservation(i) \/ AbandonClaim(i)
    \/ ReloadAfterClaim(i) \/ PublishClaim(i)
    \/ \E c \in SUBSET Credential : Reconcile(i, c)

Callback(i) ==
    \/ \E b \in SUBSET Credential : ChangeBans(i, b)
    \/ TakeSnapshot(i) \/ CommitSnapshot(i)
    \/ BeginOwnerCheck(i) \/ EndOwnerCheck(i)

Next == \E i \in Instance : Lifecycle(i) \/ Refresh(i) \/ Callback(i) \/ Crash(i)

Spec == Init /\ [][Next]_vars

\* A started stop, configure, claim or save runs on; the inventory read
\* succeeds now and then, and a stop waiting for persistMu gets it although callbacks
\* keep taking it (Go hands a starved waiter the mutex).  The host owes no configure,
\* crash or callback.
Fairness ==
    \A i \in Instance :
        /\ WF_vars(Drained(i)) /\ SF_vars(StopCommit(i)) /\ WF_vars(ReleaseOwnership(i))
        /\ WF_vars(LoadState(i)) /\ WF_vars(ReserveOwnership(i))
        /\ WF_vars(StartRefresh(i)) /\ SF_vars(FetchInventory(i))
        /\ WF_vars(InventoryFailed(i)) /\ WF_vars(AbandonClaim(i))
        /\ WF_vars(PromoteReservation(i)) /\ WF_vars(ReloadAfterClaim(i))
        /\ WF_vars(PublishClaim(i))
        /\ WF_vars(TakeSnapshot(i)) /\ WF_vars(CommitSnapshot(i))

FairSpec == Spec /\ Fairness
-----------------------------------------------------------------------------
Ownerships == [ticket : Nat, claimed : BOOLEAN, released : BOOLEAN, superseded : BOOLEAN]

\* Every part of the state has the shape the code gives it.
TypeOK ==
    /\ journal \in [highest : Nat, activeGeneration : Nat,
                    activeOwner : Instance \cup {NoInstance}, active : BOOLEAN]
    /\ stateFile \in [bans : SUBSET Credential, confirmations : SUBSET Credential,
                      ticket : Nat, taken : Nat]
    /\ ownership \in [Instance -> Ownerships]
    /\ memory \in [Instance -> Contents]
    /\ stopping \in [Instance -> BOOLEAN]
    /\ lifecycle \in [Instance -> {"down", "draining", "committing", "releasing",
                                  "loading", "reserving", "running", "stopped"}]
    /\ goal \in [Instance -> {"configure", "shutdown"}]
    /\ refresh \in [Instance -> {"idle", "probing", "fetched", "promoted", "reloaded"}]
    /\ saver \in [Instance -> [at : {"idle", "saving", "snapped"}, contents : Contents,
                               taken : Nat]]
    /\ observer \in [Instance -> Nat]

\* An instance that believes it owns the state file holds the ticket the journal
\* granted last, or one the journal has already moved past or tombstoned: two
\* instances never hold a claim on the same ticket (generation_owner.go:159-216).
ClaimsAreGranted ==
    /\ journal.activeGeneration =< journal.highest
    /\ \A i \in Instance :
          /\ ownership[i].ticket =< journal.highest
          /\ ownership[i].claimed =>
                /\ 0 < ownership[i].ticket
                /\ ownership[i].ticket =< journal.activeGeneration
    /\ \A i, j \in Instance :
          i # j /\ ownership[i].ticket = ownership[j].ticket => ownership[i].ticket = 0

\* An instance whose grant stands publishes its claim with exactly the reset
\* confirmations that are durable at that moment: one the previous owner deleted
\* does not come back, whatever was loaded before the fence moved
\* (generation_owner.go:202-207).
TakeoverIsCurrent ==
    \A i \in Instance :
        ~ownership[i].claimed /\ OwnerActive(i)' =>
            memory[i].confirmations = stateFile.confirmations
TakeoversAreCurrent == [][TakeoverIsCurrent]_vars

\* Only a generation that another one overtook, or that gave its grant up, is
\* superseded: the newest reservation keeps its chance to claim, and an owner stays
\* one while the journal names it, whatever journal read fails
\* (generation_owner.go:128-129, 218-219).
Retired(i) ==
    ownership[i].superseded =>
        /\ \/ journal.highest > ownership[i].ticket
           \/ journal.activeGeneration >= ownership[i].ticket
        /\ ownership[i].claimed => ~OnRecord(i, ownership[i].ticket)
SupersededOnlyIfOvertaken == \A i \in Instance : Retired(i)

\* The code does not keep this for an instance that is configured in place while an
\* ownership check of it is in flight; whatever others do, it keeps it for the rest.
Steady == Instance \ (Reconfigurable \cap Observed)
SteadyRetireOnlyIfOvertaken == \A i \in Steady : Retired(i)

\* Older reservations permanently retire (generation_owner.go:158): an instance that
\* is the newest, with the journal naming it the active owner, is not retired.  The code
\* does not keep this when an append becomes durable and reports an error.
NewestGrantIsNotRetired ==
    \A i \in Instance :
        ownership[i].superseded /\ OnRecord(i, ownership[i].ticket) =>
            journal.highest > ownership[i].ticket

\* The state file always holds a snapshot that its committing generation took
\* itself: nothing an earlier generation saw lands after a newer takeover
\* (runtime.go:1509-1511, generation_owner.go:202-206).  The code does not keep this when
\* an instance is configured in place with a save under way.
CommitsOwnSnapshot == stateFile.taken = stateFile.ticket

\* A configure or stop that has begun comes to its end: waiting for the refresh
\* worker, for persistMu and for the journal never lasts for ever.
LifecycleEnds == \A i \in Instance : Busy(i) ~> ~Busy(i)

\* A reservation that stays the newest is claimed, unless its instance is
\* stopped again or dies: the fence never leaves the state file without a writer.
NewestReservationClaims ==
    \A i \in Instance :
        lifecycle[i] = "running" /\ ownership[i].ticket # 0 ~>
            \/ Held(i)
            \/ lifecycle[i] # "running"
            \/ journal.highest > ownership[i].ticket

\* The journal and the state file implement a document that only the newest live
\* grant may replace: a commit verified under the journal lock is never that of a
\* generation another one has passed, a reservation that is not the newest is never
\* granted, and a tombstone is final (generation_owner.go:240-313, 159-216).
Fence == INSTANCE FencedWriter WITH
            Document <- Contents,
            issued <- journal.highest,
            grant <- journal.activeGeneration,
            live <- journal.active,
            writer <- stateFile.ticket,
            document <- [bans |-> stateFile.bans, confirmations |-> stateFile.confirmations]
FenceSpec == Fence!Spec
=============================================================================
