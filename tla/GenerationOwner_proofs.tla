----------------------- MODULE GenerationOwner_proofs -----------------------
(***************************************************************************)
(* Proofs about GenerationOwner for any number of instances, credentials   *)
(* and reservations, and for every way a journal append can fail; and, at  *)
(* the end, about the file behind its record (GenerationJournal).          *)
(***************************************************************************)
EXTENDS GenerationOwner, GenerationJournal, TLAPS

\* The initial state is well typed.
LEMMA TypeInit == Init => TypeOK
  BY InstanceAssumption DEF Init, TypeOK, Unowned, Empty, Idle, Contents, Ownerships

\* Setting one field of one instance's record leaves a function of records.
LEMMA OwnershipUpdates ==
  ASSUME ownership \in [Instance -> Ownerships], NEW i \in Instance
  PROVE  /\ [ownership EXCEPT ![i].claimed = TRUE] \in [Instance -> Ownerships]
         /\ [ownership EXCEPT ![i].released = TRUE] \in [Instance -> Ownerships]
         /\ [ownership EXCEPT ![i].superseded = TRUE] \in [Instance -> Ownerships]
<1>1. ownership[i] \in Ownerships
  OBVIOUS
<1>2. /\ [ownership[i] EXCEPT !.claimed = TRUE] \in Ownerships
      /\ [ownership[i] EXCEPT !.released = TRUE] \in Ownerships
      /\ [ownership[i] EXCEPT !.superseded = TRUE] \in Ownerships
  BY <1>1 DEF Ownerships
<1> QED BY <1>2

LEMMA MemoryUpdates ==
  ASSUME memory \in [Instance -> Contents], NEW i \in Instance, NEW s \in SUBSET Credential
  PROVE  /\ [memory EXCEPT ![i].bans = s] \in [Instance -> Contents]
         /\ [memory EXCEPT ![i].confirmations = s] \in [Instance -> Contents]
<1>1. /\ [memory[i] EXCEPT !.bans = s] \in Contents
      /\ [memory[i] EXCEPT !.confirmations = s] \in Contents
  BY DEF Contents
<1> QED BY <1>1

\* Retiring an instance, an ownership check and a fenced commit keep the types of
\* what they write.
LEMMA TypeMark ==
  ASSUME TypeOK, NEW i \in Instance, MarkSuperseded(i)
  PROVE  /\ ownership' \in [Instance -> Ownerships]
         /\ stopping' \in [Instance -> BOOLEAN]
  BY OwnershipUpdates DEF TypeOK, MarkSuperseded

LEMMA TypeCheck ==
  ASSUME TypeOK, NEW i \in Instance, NEW active \in BOOLEAN, CheckOwner(i, active)
  PROVE  /\ ownership' \in [Instance -> Ownerships]
         /\ stopping' \in [Instance -> BOOLEAN]
<1>1. CASE UNCHANGED <<ownership, stopping>>
  BY <1>1 DEF TypeOK
<1>2. CASE MarkSuperseded(i)
  BY <1>2, TypeMark
<1> QED BY <1>1, <1>2 DEF CheckOwner

LEMMA TypeCommit ==
  ASSUME TypeOK, NEW i \in Instance, NEW c \in Contents, NEW t \in Nat,
         CommitUnderFence(i, c, t)
  PROVE  /\ ownership' \in [Instance -> Ownerships]
         /\ stopping' \in [Instance -> BOOLEAN]
         /\ stateFile' \in [bans : SUBSET Credential, confirmations : SUBSET Credential,
                            ticket : Nat, taken : Nat]
<1>1. PICK committed \in BOOLEAN :
         /\ CheckOwner(i, committed)
         /\ stateFile' = IF committed
                         THEN [bans |-> c.bans, confirmations |-> c.confirmations,
                               ticket |-> ownership[i].ticket, taken |-> t]
                         ELSE stateFile
  BY DEF CommitUnderFence
<1>2. /\ ownership' \in [Instance -> Ownerships]
      /\ stopping' \in [Instance -> BOOLEAN]
  BY <1>1, TypeCheck
<1>3. stateFile' \in [bans : SUBSET Credential, confirmations : SUBSET Credential,
                      ticket : Nat, taken : Nat]
  BY <1>1 DEF TypeOK, Contents, Ownerships
<1> QED BY <1>2, <1>3

\* Every step keeps the types.
LEMMA TypeStep == TypeOK /\ [Next]_vars => TypeOK'
<1> SUFFICES ASSUME TypeOK, [Next]_vars PROVE TypeOK'
  OBVIOUS
<1>1. CASE UNCHANGED vars
  BY <1>1 DEF TypeOK, vars
<1>2. ASSUME NEW i \in Instance, Lifecycle(i) PROVE TypeOK'
  <2>1. ASSUME NEW g \in {"configure", "shutdown"}, BeginLifecycle(i, g) PROVE TypeOK'
    BY <2>1 DEF TypeOK, BeginLifecycle
  <2>2. CASE Drained(i)
    <3>1. PICK active \in BOOLEAN :
             /\ CheckOwner(i, active)
             /\ lifecycle' = [lifecycle EXCEPT ![i] =
                                IF active THEN "committing" ELSE AfterStop(i)]
      BY <2>2 DEF Drained
    <3>2. /\ ownership' \in [Instance -> Ownerships]
          /\ stopping' \in [Instance -> BOOLEAN]
      BY <3>1, TypeCheck
    <3> QED BY <2>2, <3>1, <3>2 DEF TypeOK, Drained, AfterStop
  <2>3. CASE StopCommit(i)
    <3>1. /\ ownership' \in [Instance -> Ownerships]
          /\ stopping' \in [Instance -> BOOLEAN]
          /\ stateFile' \in [bans : SUBSET Credential, confirmations : SUBSET Credential,
                             ticket : Nat, taken : Nat]
      <4>1. memory[i] \in Contents /\ ownership[i].ticket \in Nat
        BY DEF TypeOK, Ownerships
      <4> QED BY <2>3, <4>1, TypeCommit DEF StopCommit
    <3> QED BY <2>3, <3>1 DEF TypeOK, StopCommit
  <2>4. CASE ReleaseOwnership(i)
    <3>1. /\ ownership' \in [Instance -> Ownerships]
          /\ stopping' \in [Instance -> BOOLEAN]
      BY <2>4, TypeCheck, OwnershipUpdates DEF TypeOK, ReleaseOwnership
    <3> QED BY <2>4, <3>1 DEF TypeOK, ReleaseOwnership, AfterStop
  <2>5. CASE LoadState(i)
    BY <2>5 DEF TypeOK, LoadState, Merged, Unowned, Contents, Ownerships
  <2>6. CASE ReserveOwnership(i)
    <3>1. NextTicket \in Nat
      BY DEF NextTicket, TypeOK
    <3>2. Unowned(NextTicket) \in Ownerships
      BY <3>1 DEF Unowned, Ownerships
    <3> QED BY <2>6, <3>1, <3>2 DEF TypeOK, ReserveOwnership
  <2> QED BY <1>2, <2>1, <2>2, <2>3, <2>4, <2>5, <2>6 DEF Lifecycle
<1>3. ASSUME NEW i \in Instance, Refresh(i) PROVE TypeOK'
  <2>1. CASE StartRefresh(i)
    <3>1. /\ ownership' \in [Instance -> Ownerships]
          /\ stopping' \in [Instance -> BOOLEAN]
      BY <2>1, TypeMark DEF TypeOK, StartRefresh
    <3> QED BY <2>1, <3>1 DEF TypeOK, StartRefresh
  <2>2. CASE FetchInventory(i)
    BY <2>2 DEF TypeOK, FetchInventory
  <2>3. CASE InventoryFailed(i)
    BY <2>3 DEF TypeOK, InventoryFailed
  <2>4. CASE PromoteReservation(i)
    <3>1. /\ ownership' \in [Instance -> Ownerships]
          /\ stopping' \in [Instance -> BOOLEAN]
      BY <2>4, TypeMark DEF TypeOK, PromoteReservation
    <3>2. journal' \in [highest : Nat, activeGeneration : Nat,
                        activeOwner : Instance \cup {NoInstance}, active : BOOLEAN]
      <4>1. \/ journal' = journal
            \/ journal' = [journal EXCEPT !.activeGeneration = ownership[i].ticket,
                                          !.activeOwner = i, !.active = TRUE]
        BY <2>4 DEF PromoteReservation
      <4>2. ownership[i].ticket \in Nat
        BY DEF TypeOK, Ownerships
      <4> QED BY <4>1, <4>2 DEF TypeOK
    <3> QED BY <2>4, <3>1, <3>2 DEF TypeOK, PromoteReservation
  <2>5. CASE AbandonClaim(i)
    BY <2>5 DEF TypeOK, AbandonClaim
  <2>6. CASE ReloadAfterClaim(i)
    BY <2>6 DEF TypeOK, ReloadAfterClaim, Merged, Contents
  <2>7. CASE PublishClaim(i)
    BY <2>7, OwnershipUpdates DEF TypeOK, PublishClaim
  <2>8. ASSUME NEW c \in SUBSET Credential, Reconcile(i, c) PROVE TypeOK'
    <3>1. memory' \in [Instance -> Contents] /\ memory'[i] \in Contents
      <4>1. memory' = [memory EXCEPT ![i].confirmations = c]
        BY <2>8 DEF Reconcile
      <4>2. memory \in [Instance -> Contents]
        BY DEF TypeOK
      <4>3. memory' \in [Instance -> Contents]
        BY <4>1, <4>2, MemoryUpdates
      <4> QED BY <4>3
    <3>2. ownership[i].ticket \in Nat
      BY DEF TypeOK, Ownerships
    <3>3. /\ ownership' \in [Instance -> Ownerships]
          /\ stopping' \in [Instance -> BOOLEAN]
          /\ stateFile' \in [bans : SUBSET Credential, confirmations : SUBSET Credential,
                             ticket : Nat, taken : Nat]
      BY <2>8, <3>1, <3>2, TypeCommit DEF Reconcile
    <3> QED BY <2>8, <3>1, <3>3 DEF TypeOK, Reconcile
  <2> QED BY <1>3, <2>1, <2>2, <2>3, <2>4, <2>5, <2>6, <2>7, <2>8 DEF Refresh
<1>4. ASSUME NEW i \in Instance, Callback(i) PROVE TypeOK'
  <2>1. ASSUME NEW b \in SUBSET Credential, ChangeBans(i, b) PROVE TypeOK'
    <3>1. memory' \in [Instance -> Contents]
      BY <2>1, MemoryUpdates DEF TypeOK, ChangeBans
    <3> QED BY <2>1, <3>1 DEF TypeOK, ChangeBans
  <2>2. CASE TakeSnapshot(i)
    <3>1. PICK active \in BOOLEAN :
             /\ CheckOwner(i, active)
             /\ saver' = [saver EXCEPT ![i] =
                             IF active THEN [at |-> "snapped", contents |-> memory[i],
                                             taken |-> ownership[i].ticket]
                                       ELSE Idle]
      BY <2>2 DEF TakeSnapshot
    <3>2. /\ ownership' \in [Instance -> Ownerships]
          /\ stopping' \in [Instance -> BOOLEAN]
      BY <3>1, TypeCheck
    <3>3. memory[i] \in Contents /\ ownership[i].ticket \in Nat /\ Idle.contents \in Contents
      BY DEF TypeOK, Ownerships, Idle, Empty, Contents
    <3>4. saver' \in [Instance -> [at : {"idle", "saving", "snapped"},
                                  contents : Contents, taken : Nat]]
      BY <3>1, <3>3 DEF TypeOK, Idle
    <3> QED BY <2>2, <3>2, <3>4 DEF TypeOK, TakeSnapshot
  <2>3. CASE CommitSnapshot(i)
    <3>1. /\ ownership' \in [Instance -> Ownerships]
          /\ stopping' \in [Instance -> BOOLEAN]
          /\ stateFile' \in [bans : SUBSET Credential, confirmations : SUBSET Credential,
                             ticket : Nat, taken : Nat]
      <4>1. saver[i].contents \in Contents /\ saver[i].taken \in Nat
        BY DEF TypeOK
      <4> QED BY <2>3, <4>1, TypeCommit DEF CommitSnapshot
    <3> QED BY <2>3, <3>1 DEF TypeOK, CommitSnapshot, Idle, Empty, Contents
  <2>4. CASE BeginOwnerCheck(i)
    BY <2>4 DEF TypeOK, BeginOwnerCheck, Ownerships
  <2>5. CASE EndOwnerCheck(i)
    <3>1. /\ ownership' \in [Instance -> Ownerships]
          /\ stopping' \in [Instance -> BOOLEAN]
      BY <2>5, TypeMark DEF TypeOK, EndOwnerCheck
    <3> QED BY <2>5, <3>1 DEF TypeOK, EndOwnerCheck
  <2> QED BY <1>4, <2>1, <2>2, <2>3, <2>4, <2>5 DEF Callback
<1>5. ASSUME NEW i \in Instance, Crash(i) PROVE TypeOK'
  BY <1>5 DEF TypeOK, Crash, Unowned, Empty, Idle, Contents, Ownerships
<1> QED BY <1>1, <1>2, <1>3, <1>4, <1>5 DEF Next

\* The state keeps its types in every behaviour.
THEOREM TypeCorrect == Spec => []TypeOK
  BY TypeInit, TypeStep, PTL DEF Spec
-----------------------------------------------------------------------------
(* The fence.                                                               *)

\* What an instance in the middle of a claim may rely on.  A refresh in progress
\* belongs to an unclaimed reservation that no configure can replace; once
\* promoted it was granted; and what it reloaded stays the durable set as long as
\* its grant stands, because nobody else can commit and it does not yet.
ClaimInProgress ==
    \A i \in Instance :
        /\ refresh[i] # "idle" =>
              /\ lifecycle[i] \in {"running", "draining"}
              /\ ~ownership[i].claimed
              /\ ownership[i].ticket # 0
        /\ refresh[i] \in {"promoted", "reloaded"} =>
              ownership[i].ticket =< journal.activeGeneration
        /\ refresh[i] = "reloaded" /\ OnRecord(i, ownership[i].ticket) =>
              memory[i].confirmations = stateFile.confirmations

FenceInv == TypeOK /\ ClaimsAreGranted /\ ClaimInProgress

\* The fence invariant holds initially.
LEMMA FenceInit == Init => FenceInv
<1>1. Init => ClaimsAreGranted
  BY DEF Init, ClaimsAreGranted, Unowned
<1>2. Init => ClaimInProgress
  BY DEF Init, ClaimInProgress
<1> QED BY <1>1, <1>2, TypeInit DEF FenceInv

\* Steps that leave the journal alone, reach the state file only through the fence
\* and change no ticket and no claim keep what the claims rely on.
LEMMA ClaimsKept ==
  ASSUME ClaimsAreGranted, journal' = journal,
         \A i \in Instance : /\ ownership'[i].ticket = ownership[i].ticket
                             /\ ownership'[i].claimed => ownership[i].claimed
  PROVE  ClaimsAreGranted'
  BY DEF ClaimsAreGranted

\* An ownership check changes no ticket and no claim.
LEMMA CheckKeepsClaims ==
  ASSUME TypeOK, NEW i \in Instance, NEW active \in BOOLEAN, CheckOwner(i, active)
  PROVE  \A j \in Instance : /\ ownership'[j].ticket = ownership[j].ticket
                             /\ ownership'[j].claimed = ownership[j].claimed
<1>1. CASE UNCHANGED <<ownership, stopping>>
  BY <1>1
<1>2. CASE MarkSuperseded(i)
  BY <1>2 DEF TypeOK, MarkSuperseded, Ownerships
<1> QED BY <1>1, <1>2 DEF CheckOwner

\* A fenced commit changes no ticket and no claim, and changes the file only for
\* an instance that owns it, under the ticket the journal has active.
LEMMA CommitIsFenced ==
  ASSUME TypeOK, NEW i \in Instance, NEW c \in Contents, NEW t \in Nat,
         CommitUnderFence(i, c, t)
  PROVE  /\ \A j \in Instance : /\ ownership'[j].ticket = ownership[j].ticket
                               /\ ownership'[j].claimed = ownership[j].claimed
         /\ \/ stateFile' = stateFile
            \/ /\ OwnerActive(i)
               /\ stateFile'.ticket = journal.activeGeneration
               /\ stateFile'.bans = c.bans
               /\ stateFile'.confirmations = c.confirmations
<1>1. PICK committed \in BOOLEAN :
         /\ CheckOwner(i, committed)
         /\ stateFile' = IF committed
                         THEN [bans |-> c.bans, confirmations |-> c.confirmations,
                               ticket |-> ownership[i].ticket, taken |-> t]
                         ELSE stateFile
  BY DEF CommitUnderFence
<1>2. committed => OwnerActive(i)
  BY <1>1 DEF CheckOwner
<1> QED BY <1>1, <1>2, CheckKeepsClaims DEF OwnerActive, OnRecord

\* Every step keeps the fence invariant.
LEMMA FenceStep == FenceInv /\ [Next]_vars => FenceInv'
<1> SUFFICES ASSUME FenceInv, [Next]_vars PROVE ClaimsAreGranted' /\ ClaimInProgress'
  BY TypeStep DEF FenceInv
<1>1. TypeOK /\ TypeOK'
  BY TypeStep DEF FenceInv
<1>2. ClaimsAreGranted /\ ClaimInProgress
  BY DEF FenceInv
<1>3. CASE UNCHANGED vars
  BY <1>2, <1>3 DEF vars, ClaimsAreGranted, ClaimInProgress, OnRecord
<1>4. ASSUME NEW i \in Instance, Lifecycle(i) PROVE ClaimsAreGranted' /\ ClaimInProgress'
  <2>1. ASSUME NEW g \in {"configure", "shutdown"}, BeginLifecycle(i, g)
        PROVE  ClaimsAreGranted' /\ ClaimInProgress'
    <3>1. \A j \in Instance : refresh[j] # "idle" => lifecycle'[j] \in {"running", "draining"}
      BY <1>1, <1>2, <2>1 DEF BeginLifecycle, ClaimInProgress, TypeOK
    <3> QED BY <1>2, <2>1, <3>1
            DEF BeginLifecycle, ClaimsAreGranted, ClaimInProgress, OnRecord
  <2>2. CASE Drained(i)
    <3>1. \A j \in Instance : /\ ownership'[j].ticket = ownership[j].ticket
                              /\ ownership'[j].claimed = ownership[j].claimed
      BY <1>1, <2>2, CheckKeepsClaims DEF Drained
    <3>2. \A j \in Instance : refresh[j] # "idle" => lifecycle'[j] \in {"running", "draining"}
      BY <1>1, <1>2, <2>2 DEF Drained, ClaimInProgress, TypeOK
    <3>3. UNCHANGED <<journal, stateFile, memory, refresh>>
      BY <2>2 DEF Drained
    <3>4. ClaimsAreGranted'
      BY <1>2, <3>1, <3>3, ClaimsKept
    <3> QED BY <1>2, <3>1, <3>2, <3>3, <3>4 DEF ClaimInProgress, OnRecord
  <2>3. CASE StopCommit(i)
    <3>1. refresh[i] = "idle"
      BY <1>1, <1>2, <2>3 DEF StopCommit, ClaimInProgress, TypeOK
    <3>2. memory[i] \in Contents /\ ownership[i].ticket \in Nat
      BY <1>1 DEF TypeOK, Ownerships
    <3>3. /\ \A j \in Instance : /\ ownership'[j].ticket = ownership[j].ticket
                                 /\ ownership'[j].claimed = ownership[j].claimed
          /\ stateFile' = stateFile \/ OwnerActive(i)
      BY <1>1, <2>3, <3>2, CommitIsFenced DEF StopCommit
    <3>4. UNCHANGED <<journal, memory, refresh>>
      BY <2>3 DEF StopCommit
    <3>5. ClaimsAreGranted'
      BY <1>2, <3>3, <3>4, ClaimsKept
    <3>6. \A j \in Instance : refresh[j] # "idle" => lifecycle'[j] \in {"running", "draining"}
      BY <1>1, <1>2, <2>3 DEF StopCommit, ClaimInProgress, TypeOK
    <3>7. \A j \in Instance : refresh[j] = "reloaded" /\ OnRecord(j, ownership[j].ticket) =>
                                memory[j].confirmations = stateFile'.confirmations
      BY <1>2, <3>1, <3>3 DEF OwnerActive, OnRecord, ClaimInProgress
    <3> QED BY <1>2, <3>3, <3>4, <3>5, <3>6, <3>7 DEF ClaimInProgress, OnRecord
  <2>4. CASE ReleaseOwnership(i)
    <3>1. \A j \in Instance : /\ ownership'[j].ticket = ownership[j].ticket
                              /\ ownership'[j].claimed = ownership[j].claimed
      <4>1. CASE CheckOwner(i, FALSE)
        BY <1>1, <4>1, CheckKeepsClaims
      <4>2. CASE \E o \in Outcomes :
                    ownership' = IF o = "ok" THEN [ownership EXCEPT ![i].released = TRUE]
                                             ELSE ownership
        BY <1>1, <4>2 DEF TypeOK, Ownerships
      <4> QED BY <2>4, <4>1, <4>2 DEF ReleaseOwnership
    <3>2. \/ journal' = journal
          \/ journal' = [journal EXCEPT !.active = FALSE]
      BY <2>4 DEF ReleaseOwnership
    <3>3. UNCHANGED <<stateFile, memory, refresh>>
      BY <2>4 DEF ReleaseOwnership
    <3>4. /\ journal'.highest = journal.highest
          /\ journal'.activeGeneration = journal.activeGeneration
          /\ journal'.activeOwner = journal.activeOwner
          /\ journal'.active => journal.active
      BY <1>1, <3>2 DEF TypeOK
    <3>5. \A j \in Instance : refresh[j] # "idle" => lifecycle'[j] \in {"running", "draining"}
      BY <1>1, <1>2, <2>4 DEF ReleaseOwnership, ClaimInProgress, TypeOK
    <3>6. ClaimsAreGranted'
      BY <1>2, <3>1, <3>4 DEF ClaimsAreGranted
    <3> QED BY <1>2, <3>1, <3>3, <3>4, <3>5, <3>6 DEF ClaimInProgress, OnRecord
  <2>5. CASE LoadState(i)
    <3>1. /\ refresh[i] = "idle"
          /\ \A j \in Instance : refresh[j] # "idle" => lifecycle'[j] \in {"running", "draining"}
      BY <1>1, <1>2, <2>5 DEF LoadState, ClaimInProgress, TypeOK
    <3>2. \A j \in Instance :
             /\ j # i => ownership'[j] = ownership[j] /\ memory'[j] = memory[j]
             /\ j = i => ownership'[j].ticket = 0 /\ ~ownership'[j].claimed
      BY <1>1, <2>5 DEF LoadState, Unowned, TypeOK
    <3>3. UNCHANGED <<journal, stateFile, refresh>>
      BY <2>5 DEF LoadState
    <3>4. journal.highest \in Nat
      BY <1>1 DEF TypeOK
    <3>5. ClaimsAreGranted'
      BY <1>2, <3>2, <3>3, <3>4 DEF ClaimsAreGranted
    <3> QED BY <1>2, <3>1, <3>2, <3>3, <3>5 DEF ClaimInProgress, OnRecord
  <2>6. CASE ReserveOwnership(i)
    <3>1. /\ refresh[i] = "idle"
          /\ \A j \in Instance : refresh[j] # "idle" => lifecycle'[j] \in {"running", "draining"}
      BY <1>1, <1>2, <2>6 DEF ReserveOwnership, ClaimInProgress, TypeOK
    <3>2. /\ journal.highest \in Nat /\ journal.activeGeneration \in Nat
          /\ \A j \in Instance : ownership[j].ticket \in Nat
      BY <1>1 DEF TypeOK, Ownerships
    <3>3. NextTicket = journal.highest + 1
      BY <1>2, <3>2 DEF NextTicket, ClaimsAreGranted
    <3>4. \/ journal' = journal /\ ownership' = ownership
          \/ journal' = [journal EXCEPT !.highest = NextTicket] /\ ownership' = ownership
          \/ /\ journal' = [journal EXCEPT !.highest = NextTicket]
             /\ ownership' = [ownership EXCEPT ![i] = Unowned(NextTicket)]
      BY <2>6 DEF ReserveOwnership
    <3>5. /\ journal'.highest >= journal.highest
          /\ journal'.activeGeneration = journal.activeGeneration
          /\ journal'.activeOwner = journal.activeOwner
          /\ journal'.active = journal.active
      BY <1>1, <3>2, <3>3, <3>4 DEF TypeOK
    <3>6. UNCHANGED <<stateFile, memory, refresh>>
      BY <2>6 DEF ReserveOwnership
    <3>7. \/ ownership' = ownership
          \/ /\ journal'.highest = journal.highest + 1
             /\ \A j \in Instance : j # i => ownership'[j] = ownership[j]
             /\ ownership'[i].ticket = journal.highest + 1
             /\ ~ownership'[i].claimed
      BY <1>1, <3>3, <3>4 DEF TypeOK, Unowned
    <3>8. ClaimsAreGranted'
      <4>1. journal'.highest \in Nat
        BY <1>1 DEF TypeOK
      <4>2. CASE ownership' = ownership
        BY <1>2, <3>2, <3>5, <4>1, <4>2 DEF ClaimsAreGranted
      <4>3. CASE /\ journal'.highest = journal.highest + 1
                 /\ \A j \in Instance : j # i => ownership'[j] = ownership[j]
                 /\ ownership'[i].ticket = journal.highest + 1
                 /\ ~ownership'[i].claimed
        BY <1>2, <3>2, <3>5, <4>3 DEF ClaimsAreGranted
      <4> QED BY <3>7, <4>2, <4>3
    <3> QED BY <1>2, <3>1, <3>5, <3>6, <3>7, <3>8 DEF ClaimInProgress, OnRecord
  <2> QED BY <1>4, <2>1, <2>2, <2>3, <2>4, <2>5, <2>6 DEF Lifecycle
<1>5. ASSUME NEW i \in Instance, Refresh(i) PROVE ClaimsAreGranted' /\ ClaimInProgress'
  <2>1. CASE StartRefresh(i)
    <3>1. \A j \in Instance : /\ ownership'[j].ticket = ownership[j].ticket
                              /\ ownership'[j].claimed = ownership[j].claimed
      BY <1>1, <2>1 DEF StartRefresh, MarkSuperseded, TypeOK, Ownerships
    <3>2. UNCHANGED <<journal, stateFile, memory, lifecycle>>
      BY <2>1 DEF StartRefresh
    <3>3. \A j \in Instance :
             \/ refresh'[j] = refresh[j]
             \/ /\ refresh'[j] = "probing"
                /\ lifecycle[j] = "running" /\ ~ownership[j].claimed /\ ownership[j].ticket # 0
      BY <1>1, <2>1 DEF StartRefresh, TypeOK
    <3>4. ClaimsAreGranted'
      BY <1>2, <3>1, <3>2, ClaimsKept
    <3> QED BY <1>2, <3>1, <3>2, <3>3, <3>4 DEF ClaimInProgress, OnRecord
  <2>2. CASE FetchInventory(i) \/ InventoryFailed(i) \/ AbandonClaim(i)
    <3>1. /\ UNCHANGED <<journal, stateFile, ownership, memory, lifecycle>>
          /\ refresh[i] # "idle"
          /\ \A j \in Instance : refresh'[j] \in {refresh[j], "idle"}
                                \/ (j = i /\ refresh'[j] = "fetched")
      BY <1>1, <2>2 DEF FetchInventory, InventoryFailed, AbandonClaim, TypeOK
    <3>2. ClaimsAreGranted'
      BY <1>2, <3>1, ClaimsKept
    <3> QED BY <1>2, <3>1, <3>2 DEF ClaimInProgress, OnRecord
  <2>3. CASE PromoteReservation(i)
    <3>1. \A j \in Instance : /\ ownership'[j].ticket = ownership[j].ticket
                              /\ ownership'[j].claimed = ownership[j].claimed
      <4>1. ownership' = ownership \/ MarkSuperseded(i)
        BY <2>3 DEF PromoteReservation
      <4> QED BY <1>1, <4>1 DEF MarkSuperseded, TypeOK, Ownerships
    <3>2. UNCHANGED <<stateFile, memory, lifecycle>> /\ refresh[i] = "fetched"
      BY <2>3 DEF PromoteReservation
    <3>3. CASE /\ journal' = journal
               /\ refresh' = [refresh EXCEPT ![i] = "idle"]
      <4>1. ClaimsAreGranted'
        BY <1>2, <3>1, <3>3, ClaimsKept
      <4>2. \A j \in Instance : refresh'[j] = refresh[j] \/ refresh'[j] = "idle"
        BY <1>1, <3>3 DEF TypeOK
      <4> QED BY <1>2, <3>1, <3>2, <3>3, <4>1, <4>2 DEF ClaimInProgress, OnRecord
    <3>4. CASE /\ journal.highest = ownership[i].ticket
               /\ ~Overtaken(i)
               /\ journal' = [journal EXCEPT !.activeGeneration = ownership[i].ticket,
                                             !.activeOwner = i, !.active = TRUE]
               /\ \E r \in {"idle", "promoted"} : refresh' = [refresh EXCEPT ![i] = r]
      <4>1. /\ journal'.highest = journal.highest
            /\ journal'.activeGeneration = journal.highest
            /\ journal'.activeOwner = i
        BY <1>1, <3>4 DEF TypeOK
      <4>2. /\ journal.highest \in Nat /\ journal.activeGeneration \in Nat
            /\ \A j \in Instance : ownership[j].ticket \in Nat
        BY <1>1 DEF TypeOK, Ownerships
      <4>3. journal.activeGeneration =< journal'.activeGeneration
        BY <1>2, <4>1, <4>2 DEF ClaimsAreGranted
      <4>4. ClaimsAreGranted'
        BY <1>2, <3>1, <4>1, <4>2, <4>3 DEF ClaimsAreGranted
      <4>5. \A j \in Instance : j # i => refresh'[j] = refresh[j]
        BY <1>1, <3>4 DEF TypeOK
      <4>6. refresh'[i] \in {"idle", "promoted"}
        BY <1>1, <3>4 DEF TypeOK
      <4>7. \A j \in Instance : ownership[j].ticket =< journal.activeGeneration =>
                                ownership[j].ticket =< journal'.activeGeneration
        BY <4>1, <4>2, <4>3
      <4>8. ownership[i].ticket =< journal'.activeGeneration
        BY <3>4, <4>1, <4>2
      <4> QED BY <1>2, <3>1, <3>2, <4>1, <4>4, <4>5, <4>6, <4>7, <4>8
              DEF ClaimInProgress, OnRecord
    <3>5. \/ /\ journal' = journal
             /\ refresh' = [refresh EXCEPT ![i] = "idle"]
          \/ /\ journal.highest = ownership[i].ticket
             /\ ~Overtaken(i)
             /\ journal' = [journal EXCEPT !.activeGeneration = ownership[i].ticket,
                                           !.activeOwner = i, !.active = TRUE]
             /\ \E r \in {"idle", "promoted"} : refresh' = [refresh EXCEPT ![i] = r]
      BY <2>3 DEF PromoteReservation
    <3> QED BY <3>3, <3>4, <3>5
  <2>4. CASE ReloadAfterClaim(i)
    <3>1. /\ UNCHANGED <<journal, stateFile, ownership, lifecycle>>
          /\ refresh[i] = "promoted" /\ refresh'[i] = "reloaded"
          /\ memory'[i].confirmations = stateFile.confirmations
          /\ \A j \in Instance : j # i => refresh'[j] = refresh[j] /\ memory'[j] = memory[j]
      BY <1>1, <2>4 DEF ReloadAfterClaim, Merged, TypeOK
    <3>2. ClaimsAreGranted'
      BY <1>2, <3>1, ClaimsKept
    <3> QED BY <1>2, <3>1, <3>2 DEF ClaimInProgress, OnRecord
  <2>5. CASE PublishClaim(i)
    <3>1. /\ UNCHANGED <<journal, stateFile, memory, lifecycle>>
          /\ refresh[i] = "reloaded" /\ refresh'[i] = "idle"
          /\ ownership'[i].ticket = ownership[i].ticket
          /\ \A j \in Instance : j # i => refresh'[j] = refresh[j] /\ ownership'[j] = ownership[j]
      BY <1>1, <2>5 DEF PublishClaim, TypeOK, Ownerships
    <3>2. /\ 0 < ownership[i].ticket
          /\ ownership[i].ticket =< journal.activeGeneration
      BY <1>1, <1>2, <3>1 DEF ClaimInProgress, TypeOK, Ownerships
    <3>3. ClaimsAreGranted'
      BY <1>2, <3>1, <3>2 DEF ClaimsAreGranted
    <3> QED BY <1>2, <3>1, <3>3 DEF ClaimInProgress, OnRecord
  <2>6. ASSUME NEW c \in SUBSET Credential, Reconcile(i, c)
        PROVE  ClaimsAreGranted' /\ ClaimInProgress'
    <3>1. /\ UNCHANGED <<journal, lifecycle, refresh>>
          /\ ownership[i].claimed /\ OwnerActive(i)
          /\ memory' = [memory EXCEPT ![i].confirmations = c]
      BY <2>6 DEF Reconcile, OwnerActive, Held
    <3>2. memory'[i] \in Contents /\ ownership[i].ticket \in Nat
      BY <1>1 DEF TypeOK, Ownerships
    <3>3. \A j \in Instance : /\ ownership'[j].ticket = ownership[j].ticket
                              /\ ownership'[j].claimed = ownership[j].claimed
      BY <1>1, <2>6, <3>2, CommitIsFenced DEF Reconcile
    <3>4. ClaimsAreGranted'
      BY <1>2, <3>1, <3>3, ClaimsKept
    <3>5. refresh[i] = "idle" /\ \A j \in Instance : j # i => memory'[j] = memory[j]
      BY <1>1, <1>2, <3>1 DEF ClaimInProgress, TypeOK
    <3>6. \A j \in Instance : j # i => ~OnRecord(j, ownership[j].ticket)
      BY <3>1 DEF OwnerActive, OnRecord
    <3> QED BY <1>2, <3>1, <3>3, <3>4, <3>5, <3>6 DEF ClaimInProgress, OnRecord
  <2> QED BY <1>5, <2>1, <2>2, <2>3, <2>4, <2>5, <2>6 DEF Refresh
<1>6. ASSUME NEW i \in Instance, Callback(i) PROVE ClaimsAreGranted' /\ ClaimInProgress'
  <2>1. ASSUME NEW b \in SUBSET Credential, ChangeBans(i, b)
        PROVE  ClaimsAreGranted' /\ ClaimInProgress'
    <3>1. /\ UNCHANGED <<journal, stateFile, ownership, lifecycle, refresh>>
          /\ \A j \in Instance : memory'[j].confirmations = memory[j].confirmations
      BY <1>1, <2>1 DEF ChangeBans, TypeOK, Contents
    <3>2. ClaimsAreGranted'
      BY <1>2, <3>1, ClaimsKept
    <3> QED BY <1>2, <3>1, <3>2 DEF ClaimInProgress, OnRecord
  <2>2. CASE TakeSnapshot(i) \/ BeginOwnerCheck(i) \/ EndOwnerCheck(i)
    <3>1. \A j \in Instance : /\ ownership'[j].ticket = ownership[j].ticket
                              /\ ownership'[j].claimed = ownership[j].claimed
      <4>1. CASE \E active \in BOOLEAN : CheckOwner(i, active)
        BY <1>1, <4>1, CheckKeepsClaims
      <4>2. CASE ownership' = ownership \/ MarkSuperseded(i)
        BY <1>1, <4>2 DEF MarkSuperseded, TypeOK, Ownerships
      <4> QED BY <2>2, <4>1, <4>2 DEF TakeSnapshot, BeginOwnerCheck, EndOwnerCheck
    <3>2. UNCHANGED <<journal, stateFile, memory, lifecycle, refresh>>
      BY <2>2 DEF TakeSnapshot, BeginOwnerCheck, EndOwnerCheck
    <3>3. ClaimsAreGranted'
      BY <1>2, <3>1, <3>2, ClaimsKept
    <3> QED BY <1>2, <3>1, <3>2, <3>3 DEF ClaimInProgress, OnRecord
  <2>3. CASE CommitSnapshot(i)
    <3>1. UNCHANGED <<journal, memory, lifecycle, refresh>>
      BY <2>3 DEF CommitSnapshot
    <3>2. saver[i].contents \in Contents /\ saver[i].taken \in Nat
      BY <1>1 DEF TypeOK
    <3>3. /\ \A j \in Instance : /\ ownership'[j].ticket = ownership[j].ticket
                                 /\ ownership'[j].claimed = ownership[j].claimed
          /\ stateFile' = stateFile \/ OwnerActive(i)
      BY <1>1, <2>3, <3>2, CommitIsFenced DEF CommitSnapshot
    <3>4. ClaimsAreGranted'
      BY <1>2, <3>1, <3>3, ClaimsKept
    <3>5. \A j \in Instance : refresh[j] = "reloaded" /\ OnRecord(j, ownership[j].ticket) =>
                                memory[j].confirmations = stateFile'.confirmations
      BY <1>2, <3>3 DEF OwnerActive, Held, OnRecord, ClaimInProgress
    <3> QED BY <1>2, <3>1, <3>3, <3>4, <3>5 DEF ClaimInProgress, OnRecord
  <2> QED BY <1>6, <2>1, <2>2, <2>3 DEF Callback
<1>7. ASSUME NEW i \in Instance, Crash(i) PROVE ClaimsAreGranted' /\ ClaimInProgress'
  <2>1. /\ UNCHANGED <<journal, stateFile>>
        /\ refresh'[i] = "idle" /\ ownership'[i].ticket = 0 /\ ~ownership'[i].claimed
        /\ \A j \in Instance : j # i =>
              /\ ownership'[j] = ownership[j] /\ memory'[j] = memory[j]
              /\ lifecycle'[j] = lifecycle[j] /\ refresh'[j] = refresh[j]
    BY <1>1, <1>7 DEF Crash, Unowned, TypeOK
  <2>2. journal.highest \in Nat
    BY <1>1 DEF TypeOK
  <2>3. ClaimsAreGranted'
    BY <1>2, <2>1, <2>2 DEF ClaimsAreGranted
  <2> QED BY <1>2, <2>1, <2>3 DEF ClaimInProgress, OnRecord
<1> QED BY <1>3, <1>4, <1>5, <1>6, <1>7 DEF Next

\* No two instances ever hold a claim on one ticket, and no claim is ahead of the
\* journal.
THEOREM ClaimsGranted == Spec => []ClaimsAreGranted
<1>1. Spec => []FenceInv
  BY FenceInit, FenceStep, PTL DEF Spec
<1>2. FenceInv => ClaimsAreGranted
  BY DEF FenceInv
<1> QED BY <1>1, <1>2, PTL
-----------------------------------------------------------------------------
(* What a takeover starts from.                                             *)

\* Only publishing a claim sets claimed, and what it publishes with is durable.
LEMMA TakeoverStep == FenceInv /\ [Next]_vars => TakeoverIsCurrent
<1> SUFFICES ASSUME FenceInv, [Next]_vars, NEW i \in Instance,
                    ~ownership[i].claimed, OwnerActive(i)'
             PROVE  memory[i].confirmations = stateFile.confirmations
  BY DEF TakeoverIsCurrent
<1>1. TypeOK /\ ClaimInProgress /\ ownership'[i].claimed
  BY DEF FenceInv, OwnerActive, Held
<1>2. CASE PublishClaim(i)
  <2>1. refresh[i] = "reloaded" /\ journal' = journal /\ ownership'[i].ticket = ownership[i].ticket
    BY <1>1, <1>2 DEF PublishClaim, TypeOK, Ownerships
  <2> QED BY <1>1, <2>1 DEF ClaimInProgress, OwnerActive, OnRecord
<1>3. ASSUME ~PublishClaim(i) PROVE ownership'[i].claimed = ownership[i].claimed \/ ~ownership'[i].claimed
  <2>1. CASE UNCHANGED vars
    BY <2>1 DEF vars
  <2>2. ASSUME NEW j \in Instance, Lifecycle(j)
        PROVE  ownership'[i].claimed = ownership[i].claimed \/ ~ownership'[i].claimed
    <3>1. CASE ownership' = ownership
      BY <3>1
    <3>2. CASE \E active \in BOOLEAN : CheckOwner(j, active)
      BY <1>1, <3>2, CheckKeepsClaims
    <3>3. CASE ownership' = [ownership EXCEPT ![j].released = TRUE]
      BY <1>1, <3>3 DEF TypeOK, Ownerships
    <3>4. ASSUME NEW t, ownership' = [ownership EXCEPT ![j] = Unowned(t)]
          PROVE  ownership'[i].claimed = ownership[i].claimed \/ ~ownership'[i].claimed
      BY <1>1, <3>4 DEF TypeOK, Unowned
    <3>5. CASE StopCommit(j)
      <4>1. memory[j] \in Contents /\ ownership[j].ticket \in Nat
        BY <1>1 DEF TypeOK, Ownerships
      <4> QED BY <1>1, <3>5, <4>1, CommitIsFenced DEF StopCommit
    <3> QED BY <2>2, <3>1, <3>2, <3>3, <3>4, <3>5
            DEF Lifecycle, BeginLifecycle, Drained, ReleaseOwnership, LoadState, ReserveOwnership
  <2>3. ASSUME NEW j \in Instance, Refresh(j)
        PROVE  ownership'[i].claimed = ownership[i].claimed \/ ~ownership'[i].claimed
    <3>1. CASE ownership' = ownership \/ MarkSuperseded(j)
      BY <1>1, <3>1 DEF MarkSuperseded, TypeOK, Ownerships
    <3>2. CASE PublishClaim(j)
      BY <1>1, <1>3, <3>2 DEF PublishClaim, TypeOK, Ownerships
    <3>3. ASSUME NEW c \in SUBSET Credential, Reconcile(j, c)
          PROVE  ownership'[i].claimed = ownership[i].claimed \/ ~ownership'[i].claimed
      <4>1. memory' = [memory EXCEPT ![j].confirmations = c]
        BY <3>3 DEF Reconcile
      <4>2. memory'[j] \in Contents /\ ownership[j].ticket \in Nat
        <5>1. memory' \in [Instance -> Contents]
          BY <1>1, <4>1, MemoryUpdates DEF TypeOK
        <5> QED BY <1>1, <5>1 DEF TypeOK, Ownerships
      <4> QED BY <1>1, <3>3, <4>2, CommitIsFenced DEF Reconcile
    <3> QED BY <2>3, <3>1, <3>2, <3>3
            DEF Refresh, StartRefresh, FetchInventory, InventoryFailed, PromoteReservation,
                AbandonClaim, ReloadAfterClaim
  <2>4. ASSUME NEW j \in Instance, Callback(j)
        PROVE  ownership'[i].claimed = ownership[i].claimed \/ ~ownership'[i].claimed
    <3>1. CASE ownership' = ownership \/ MarkSuperseded(j)
      BY <1>1, <3>1 DEF MarkSuperseded, TypeOK, Ownerships
    <3>2. CASE \E active \in BOOLEAN : CheckOwner(j, active)
      BY <1>1, <3>2, CheckKeepsClaims
    <3>3. CASE CommitSnapshot(j)
      <4>1. saver[j].contents \in Contents /\ saver[j].taken \in Nat
        BY <1>1 DEF TypeOK
      <4> QED BY <1>1, <3>3, <4>1, CommitIsFenced DEF CommitSnapshot
    <3> QED BY <2>4, <3>1, <3>2, <3>3
            DEF Callback, ChangeBans, TakeSnapshot, BeginOwnerCheck, EndOwnerCheck
  <2>5. ASSUME NEW j \in Instance, Crash(j)
        PROVE  ownership'[i].claimed = ownership[i].claimed \/ ~ownership'[i].claimed
    BY <1>1, <2>5 DEF Crash, Unowned, TypeOK
  <2> QED BY <2>1, <2>2, <2>3, <2>4, <2>5 DEF Next
<1> QED BY <1>1, <1>2, <1>3

\* A claim that is published and still stands started from the durable reset
\* confirmations, in every behaviour.
THEOREM TakeoversCurrent == Spec => TakeoversAreCurrent
<1>1. Spec => []FenceInv
  BY FenceInit, FenceStep, PTL DEF Spec
<1>2. FenceInv /\ [Next]_vars => [TakeoverIsCurrent]_vars
  BY TakeoverStep
<1> QED BY <1>1, <1>2, PTL DEF Spec, TakeoversAreCurrent
-----------------------------------------------------------------------------
(* The journal and the state file implement FencedWriter.                   *)

LEMMA FenceRefinesInit == Init => Fence!Init
  BY DEF Init, Fence!Init, Contents

\* A commit under the fence is a write of the abstract document, or nothing.
LEMMA CommitRefines ==
  ASSUME TypeOK, TypeOK', NEW i \in Instance, NEW c \in Contents, NEW t \in Nat,
         CommitUnderFence(i, c, t), journal' = journal
  PROVE  Fence!Write \/ UNCHANGED Fence!avars
<1>1. CASE stateFile' = stateFile
  BY <1>1 DEF Fence!avars
<1>2. CASE OwnerActive(i) /\ stateFile'.ticket = journal.activeGeneration
  <2>1. [bans |-> stateFile'.bans, confirmations |-> stateFile'.confirmations] \in Contents
    BY DEF TypeOK, Contents
  <2> QED BY <1>2, <2>1 DEF OwnerActive, OnRecord, Fence!Write
<1> QED BY <1>1, <1>2, CommitIsFenced

\* Every step of the plugin is a step of the abstract specification, or a stutter.
LEMMA FenceRefinesStep == FenceInv /\ [Next]_vars => [Fence!Next]_(Fence!avars)
<1> SUFFICES ASSUME FenceInv, [Next]_vars
             PROVE  Fence!Next \/ UNCHANGED Fence!avars
  OBVIOUS
<1>1. TypeOK /\ TypeOK' /\ ClaimsAreGranted
  BY TypeStep DEF FenceInv
<1>2. CASE UNCHANGED <<journal, stateFile>>
  BY <1>2 DEF Fence!avars
<1>3. ASSUME NEW i \in Instance, Lifecycle(i)
      PROVE  Fence!Next \/ UNCHANGED Fence!avars
  <2>1. CASE StopCommit(i)
    <3>1. memory[i] \in Contents /\ ownership[i].ticket \in Nat
      BY <1>1 DEF TypeOK, Ownerships
    <3> QED BY <1>1, <2>1, <3>1, CommitRefines DEF StopCommit, Fence!Next
  <2>2. CASE ReleaseOwnership(i)
    <3>1. CASE journal' = journal
      BY <1>2, <2>2, <3>1 DEF ReleaseOwnership
    <3>2. CASE OwnerActive(i) /\ journal' = [journal EXCEPT !.active = FALSE]
      <4>1. Fence!Surrender
        BY <1>1, <2>2, <3>2 DEF ReleaseOwnership, OwnerActive, OnRecord, TypeOK, Fence!Surrender
      <4> QED BY <4>1 DEF Fence!Next
    <3> QED BY <2>2, <3>1, <3>2 DEF ReleaseOwnership
  <2>3. CASE ReserveOwnership(i)
    <3>1. NextTicket = journal.highest + 1
      BY <1>1 DEF NextTicket, ClaimsAreGranted, TypeOK
    <3>2. CASE journal' = journal
      BY <1>2, <2>3, <3>2 DEF ReserveOwnership
    <3>3. CASE journal' = [journal EXCEPT !.highest = NextTicket]
      <4>1. Fence!Issue
        BY <1>1, <2>3, <3>1, <3>3 DEF ReserveOwnership, TypeOK, Fence!Issue
      <4> QED BY <4>1 DEF Fence!Next
    <3> QED BY <2>3, <3>2, <3>3 DEF ReserveOwnership
  <2> QED BY <1>2, <1>3, <2>1, <2>2, <2>3 DEF Lifecycle, BeginLifecycle, Drained, LoadState
<1>4. ASSUME NEW i \in Instance, Refresh(i)
      PROVE  Fence!Next \/ UNCHANGED Fence!avars
  <2>1. CASE PromoteReservation(i)
    <3>1. CASE journal' = journal
      BY <1>2, <2>1, <3>1 DEF PromoteReservation
    <3>2. CASE /\ ~Overtaken(i)
               /\ journal.highest = ownership[i].ticket
               /\ journal' = [journal EXCEPT !.activeGeneration = ownership[i].ticket,
                                             !.activeOwner = i, !.active = TRUE]
      <4>1. journal.activeGeneration < journal.highest
        BY <1>1, <3>2 DEF Overtaken, TypeOK, Ownerships
      <4>2. Fence!Grant
        BY <1>1, <2>1, <3>2, <4>1 DEF PromoteReservation, TypeOK, Fence!Grant
      <4> QED BY <4>2 DEF Fence!Next
    <3> QED BY <2>1, <3>1, <3>2 DEF PromoteReservation
  <2>2. ASSUME NEW c \in SUBSET Credential, Reconcile(i, c)
        PROVE  Fence!Next \/ UNCHANGED Fence!avars
    <3>1. memory'[i] \in Contents /\ ownership[i].ticket \in Nat
      BY <1>1 DEF TypeOK, Ownerships
    <3> QED BY <1>1, <2>2, <3>1, CommitRefines DEF Reconcile, Fence!Next
  <2> QED BY <1>2, <1>4, <2>1, <2>2
          DEF Refresh, StartRefresh, FetchInventory, InventoryFailed, AbandonClaim,
              ReloadAfterClaim, PublishClaim
<1>5. ASSUME NEW i \in Instance, Callback(i)
      PROVE  Fence!Next \/ UNCHANGED Fence!avars
  <2>1. CASE CommitSnapshot(i)
    <3>1. saver[i].contents \in Contents /\ saver[i].taken \in Nat
      BY <1>1 DEF TypeOK
    <3> QED BY <1>1, <2>1, <3>1, CommitRefines DEF CommitSnapshot, Fence!Next
  <2> QED BY <1>2, <1>5, <2>1
          DEF Callback, ChangeBans, TakeSnapshot, BeginOwnerCheck, EndOwnerCheck
<1>6. ASSUME NEW i \in Instance, Crash(i)
      PROVE  Fence!Next \/ UNCHANGED Fence!avars
  BY <1>2, <1>6 DEF Crash
<1> QED BY <1>2, <1>3, <1>4, <1>5, <1>6 DEF Next, vars

\* Whatever the instances, their crashes and their failing appends do, the state
\* file behaves as a document that only the newest live grant replaces.
THEOREM ImplementsFence == Spec => FenceSpec
<1>1. Spec => []FenceInv
  BY FenceInit, FenceStep, PTL DEF Spec
<1> QED BY <1>1, FenceRefinesInit, FenceRefinesStep, PTL DEF Spec, FenceSpec, Fence!Spec
-----------------------------------------------------------------------------
(* Who is retired.                                                          *)

\* A step of one instance changes nothing that belongs to another.
StepOf(i) == Lifecycle(i) \/ Refresh(i) \/ Callback(i) \/ Crash(i)

Untouched(i) ==
    /\ ownership'[i] = ownership[i] /\ lifecycle'[i] = lifecycle[i] /\ goal'[i] = goal[i]
    /\ refresh'[i] = refresh[i] /\ saver'[i] = saver[i] /\ observer'[i] = observer[i]

\* An ownership check, or retiring an instance, changes at most its own ownership.
LEMMA CheckOutcome ==
  ASSUME TypeOK, NEW i \in Instance, NEW active \in BOOLEAN, CheckOwner(i, active)
  PROVE  \/ ownership' = ownership
         \/ /\ Held(i) /\ ~OwnerActive(i)
            /\ ownership' = [ownership EXCEPT ![i].superseded = TRUE]
  BY DEF CheckOwner, MarkSuperseded

LEMMA CommitOutcome ==
  ASSUME TypeOK, NEW i \in Instance, NEW c, NEW t, CommitUnderFence(i, c, t)
  PROVE  /\ \/ ownership' = ownership
            \/ /\ Held(i) /\ ~OwnerActive(i)
               /\ ownership' = [ownership EXCEPT ![i].superseded = TRUE]
         /\ \/ stateFile' = stateFile
            \/ stateFile'.ticket = ownership[i].ticket /\ stateFile'.taken = t
  BY CheckOutcome DEF CommitUnderFence

LEMMA OthersUntouched ==
  ASSUME TypeOK, NEW j \in Instance, StepOf(j), NEW i \in Instance, i # j
  PROVE  Untouched(i)
<1>1. /\ ownership \in [Instance -> Ownerships] /\ DOMAIN lifecycle = Instance
      /\ DOMAIN goal = Instance /\ DOMAIN refresh = Instance /\ DOMAIN saver = Instance
      /\ DOMAIN observer = Instance /\ lifecycle = [k \in Instance |-> lifecycle[k]]
      /\ goal = [k \in Instance |-> goal[k]] /\ refresh = [k \in Instance |-> refresh[k]]
      /\ saver = [k \in Instance |-> saver[k]] /\ observer = [k \in Instance |-> observer[k]]
  BY DEF TypeOK
<1>2. ownership'[i] = ownership[i]
  <2>1. \/ ownership' = ownership
        \/ \E e : ownership' = [ownership EXCEPT ![j] = e]
    <3>1. \A active \in BOOLEAN : CheckOwner(j, active) =>
             ownership' = ownership \/ \E e : ownership' = [ownership EXCEPT ![j] = e]
      BY DEF CheckOwner, MarkSuperseded
    <3>2. \A c, t : CommitUnderFence(j, c, t) =>
             ownership' = ownership \/ \E e : ownership' = [ownership EXCEPT ![j] = e]
      BY <3>1 DEF CommitUnderFence
    <3>3. MarkSuperseded(j) => \E e : ownership' = [ownership EXCEPT ![j] = e]
      BY DEF MarkSuperseded
    <3>4. CASE Lifecycle(j)
      BY <3>1, <3>2, <3>4 DEF Lifecycle, BeginLifecycle, Drained, StopCommit,
            ReleaseOwnership, LoadState, ReserveOwnership
    <3>5. CASE Refresh(j)
      BY <3>2, <3>3, <3>5 DEF Refresh, StartRefresh, FetchInventory, InventoryFailed,
            PromoteReservation, AbandonClaim, ReloadAfterClaim, PublishClaim, Reconcile
    <3>6. CASE Callback(j)
      BY <3>1, <3>2, <3>3, <3>6 DEF Callback, ChangeBans, TakeSnapshot, CommitSnapshot,
            BeginOwnerCheck, EndOwnerCheck
    <3>7. CASE Crash(j)
      BY <3>7 DEF Crash
    <3> QED BY <3>4, <3>5, <3>6, <3>7 DEF StepOf
  <2> QED BY <1>1, <2>1
<1>3. lifecycle'[i] = lifecycle[i] /\ goal'[i] = goal[i]
  BY <1>1 DEF StepOf, Lifecycle, Refresh, Callback, Crash, BeginLifecycle, Drained,
              StopCommit, ReleaseOwnership, LoadState, ReserveOwnership, StartRefresh,
              FetchInventory, InventoryFailed, PromoteReservation, AbandonClaim,
              ReloadAfterClaim, PublishClaim, Reconcile, ChangeBans, TakeSnapshot,
              CommitSnapshot, BeginOwnerCheck, EndOwnerCheck
<1>4. refresh'[i] = refresh[i]
  BY <1>1 DEF StepOf, Lifecycle, Refresh, Callback, Crash, BeginLifecycle, Drained,
              StopCommit, ReleaseOwnership, LoadState, ReserveOwnership, StartRefresh,
              FetchInventory, InventoryFailed, PromoteReservation, AbandonClaim,
              ReloadAfterClaim, PublishClaim, Reconcile, ChangeBans, TakeSnapshot,
              CommitSnapshot, BeginOwnerCheck, EndOwnerCheck
<1>5. saver'[i] = saver[i] /\ observer'[i] = observer[i]
  BY <1>1 DEF StepOf, Lifecycle, Refresh, Callback, Crash, BeginLifecycle, Drained,
              StopCommit, ReleaseOwnership, LoadState, ReserveOwnership, StartRefresh,
              FetchInventory, InventoryFailed, PromoteReservation, AbandonClaim,
              ReloadAfterClaim, PublishClaim, Reconcile, ChangeBans, TakeSnapshot,
              CommitSnapshot, BeginOwnerCheck, EndOwnerCheck
<1> QED BY <1>2, <1>3, <1>4, <1>5 DEF Untouched

\* What a step of an instance can do to the journal: reserve, surrender, or grant the
\* newest reservation to the instance that holds it.
Granted(j) ==
    /\ refresh[j] = "fetched" /\ Promotable(j) /\ ~Overtaken(j)
    /\ journal.highest = ownership[j].ticket
    /\ journal' = [journal EXCEPT !.activeGeneration = ownership[j].ticket,
                                  !.activeOwner = j, !.active = TRUE]

LEMMA JournalMoves ==
  ASSUME NEW j \in Instance, StepOf(j)
  PROVE  \/ journal' = journal
         \/ journal' = [journal EXCEPT !.highest = NextTicket]
         \/ OwnerActive(j) /\ journal' = [journal EXCEPT !.active = FALSE]
         \/ PromoteReservation(j) /\ Granted(j)
<1>1. CASE Lifecycle(j)
  BY <1>1 DEF Lifecycle, BeginLifecycle, Drained, StopCommit, ReleaseOwnership, LoadState,
              ReserveOwnership
<1>2. CASE Refresh(j)
  BY <1>2 DEF Refresh, StartRefresh, FetchInventory, InventoryFailed, PromoteReservation,
              AbandonClaim, ReloadAfterClaim, PublishClaim, Reconcile, Granted
<1>3. CASE Callback(j) \/ Crash(j)
  BY <1>3 DEF Callback, Crash, ChangeBans, TakeSnapshot, CommitSnapshot, BeginOwnerCheck,
              EndOwnerCheck
<1> QED BY <1>1, <1>2, <1>3 DEF StepOf

\* The journal only moves forward, and puts an instance on record only by granting it
\* the reservation it holds.
LEMMA JournalForward ==
  ASSUME FenceInv, NEW j \in Instance, StepOf(j)
  PROVE  /\ journal'.highest >= journal.highest
         /\ journal'.activeGeneration >= journal.activeGeneration
         /\ \A i \in Instance, t \in Nat :
               OnRecord(i, t)' => \/ OnRecord(i, t)
                                  \/ /\ i = j /\ PromoteReservation(j) /\ Granted(j)
                                     /\ t = ownership[j].ticket
<1>1. /\ journal.highest \in Nat /\ journal.activeGeneration \in Nat
      /\ \A i \in Instance : ownership[i].ticket \in Nat
      /\ journal.activeGeneration =< journal.highest
      /\ journal = [highest |-> journal.highest, activeGeneration |-> journal.activeGeneration,
                    activeOwner |-> journal.activeOwner, active |-> journal.active]
  BY DEF FenceInv, TypeOK, Ownerships, ClaimsAreGranted
<1>2. CASE journal' = journal
  BY <1>1, <1>2 DEF OnRecord
<1>3. CASE journal' = [journal EXCEPT !.highest = NextTicket]
  <2>1. NextTicket = journal.highest + 1
    BY <1>1 DEF NextTicket
  <2>2. /\ journal'.highest = journal.highest + 1
        /\ journal'.activeGeneration = journal.activeGeneration
        /\ journal'.activeOwner = journal.activeOwner /\ journal'.active = journal.active
    BY <1>1, <1>3, <2>1
  <2> QED BY <1>1, <2>2 DEF OnRecord
<1>4. CASE journal' = [journal EXCEPT !.active = FALSE]
  <2>1. /\ journal'.highest = journal.highest
        /\ journal'.activeGeneration = journal.activeGeneration /\ ~journal'.active
    BY <1>1, <1>4
  <2> QED BY <1>1, <2>1 DEF OnRecord
<1>5. CASE PromoteReservation(j) /\ Granted(j)
  <2>1. /\ journal'.highest = journal.highest
        /\ journal'.activeGeneration = journal.highest
        /\ journal'.activeOwner = j /\ journal.highest = ownership[j].ticket
    BY <1>1, <1>5 DEF Granted
  <2> QED BY <1>1, <1>5, <2>1 DEF OnRecord
<1> QED BY <1>2, <1>3, <1>4, <1>5, JournalMoves

\* An instance that has not got a ticket yet in its life has nothing under way, unless
\* the host configures it in place.
Outset(i) ==
    /\ lifecycle[i] \in {"loading", "reserving"} => goal[i] = "configure"
    /\ /\ i \notin Reconfigurable
       /\ lifecycle[i] = "down" \/ (Busy(i) /\ goal[i] = "configure")
       => ownership[i] = Unowned(0) /\ observer[i] = 0 /\ saver[i].at # "snapped"

\* A call under way began under a claim, which is still the one the instance has,
\* unless the host configures it in place.
CallsAreCurrent(i) ==
    /\ observer[i] # 0 => i \in Observed
    /\ i \notin Reconfigurable =>
          /\ observer[i] # 0 => ownership[i].claimed /\ observer[i] = ownership[i].ticket
          /\ saver[i].at = "snapped" =>
                ownership[i].claimed /\ saver[i].taken = ownership[i].ticket

\* A claim in progress belongs to an instance that is not retired.
ClaimantStands(i) == refresh[i] # "idle" => ~ownership[i].superseded

LocalInv(i) == Outset(i) /\ CallsAreCurrent(i)
StandingInv(i) == Retired(i) /\ ClaimantStands(i)

RetireInv ==
    /\ FenceInv
    /\ \A i \in Instance : LocalInv(i)
    /\ \A i \in Steady : StandingInv(i)

LEMMA RetireInit == Init => RetireInv
<1>1. Init => \A i \in Instance : LocalInv(i) /\ StandingInv(i)
  BY DEF Init, LocalInv, StandingInv, Outset, CallsAreCurrent, Retired, ClaimantStands, Busy,
         Idle, Unowned
<1> QED BY <1>1, FenceInit DEF RetireInv, Steady

\* What another instance does leaves these facts as they are.
LEMMA OthersKeepThem ==
  ASSUME FenceInv, NEW j \in Instance, StepOf(j), NEW i \in Instance, i # j
  PROVE  /\ LocalInv(i) => LocalInv(i)'
         /\ StandingInv(i) => StandingInv(i)'
<1>1. Untouched(i)
  BY OthersUntouched DEF FenceInv
<1>2. LocalInv(i) => LocalInv(i)'
  BY <1>1 DEF Untouched, LocalInv, Outset, CallsAreCurrent, Busy
<1>3. StandingInv(i) => StandingInv(i)'
  <2>1. /\ ownership[i].ticket \in Nat /\ journal.highest \in Nat /\ journal'.highest \in Nat
        /\ journal.activeGeneration \in Nat /\ journal'.activeGeneration \in Nat
    <3>1. [Next]_vars
      BY DEF StepOf, Next
    <3>2. TypeOK /\ TypeOK'
      BY <3>1, TypeStep DEF FenceInv
    <3> QED BY <3>2 DEF TypeOK, Ownerships
  <2>2. /\ journal'.highest >= journal.highest
        /\ journal'.activeGeneration >= journal.activeGeneration
        /\ OnRecord(i, ownership[i].ticket)' => OnRecord(i, ownership[i].ticket)
    BY <1>1, <2>1, JournalForward DEF Untouched, OnRecord
  <2> QED BY <1>1, <2>1, <2>2 DEF Untouched, StandingInv, Retired, ClaimantStands
<1> QED BY <1>2, <1>3

\* The parts of one instance under its own steps: its lifecycle, ...
LEMMA LocalLifecycle ==
  ASSUME FenceInv, NEW i \in Instance, LocalInv(i), Lifecycle(i)
  PROVE  LocalInv(i)'
<1>1. TypeOK /\ ClaimInProgress
  BY DEF FenceInv
<1>2. Held(i) => ownership[i].claimed /\ ownership[i].ticket # 0
  BY DEF FenceInv, ClaimsAreGranted, Held
<1> USE DEF LocalInv, Outset, CallsAreCurrent
<1>3. ASSUME NEW g \in {"configure", "shutdown"}, BeginLifecycle(i, g) PROVE LocalInv(i)'
  <2>1. /\ lifecycle'[i] = "draining" /\ goal'[i] = g
        /\ UNCHANGED <<ownership, observer, saver>>
    BY <1>1, <1>3 DEF BeginLifecycle, TypeOK
  <2>2. ~Busy(i) /\ (g = "configure" /\ i \notin Reconfigurable => lifecycle[i] = "down")
    BY <1>3 DEF BeginLifecycle, Alive
  <2> QED BY <2>1, <2>2 DEF Busy
<1>4. CASE Drained(i)
  <2>1. /\ lifecycle[i] = "draining"
        /\ lifecycle'[i] \in {"committing", AfterStop(i)}
        /\ UNCHANGED <<goal, observer, saver>>
    BY <1>1, <1>4 DEF Drained, TypeOK
  <2>2. \/ ownership' = ownership
        \/ Held(i) /\ ownership' = [ownership EXCEPT ![i].superseded = TRUE]
    BY <1>1, <1>4, CheckOutcome DEF Drained
  <2>3. /\ ownership'[i].claimed = ownership[i].claimed
        /\ ownership'[i].ticket = ownership[i].ticket
        /\ ~Held(i) => ownership' = ownership
    BY <1>1, <2>2 DEF TypeOK, Ownerships
  <2>4. goal[i] = "configure" /\ i \notin Reconfigurable => ~Held(i)
    BY <2>1 DEF Busy, Held, Unowned
  <2> QED BY <2>1, <2>3, <2>4 DEF Busy, AfterStop
<1>5. CASE StopCommit(i)
  <2>1. /\ lifecycle[i] = "committing" /\ lifecycle'[i] = "releasing"
        /\ UNCHANGED <<goal, observer, saver>>
    BY <1>1, <1>5 DEF StopCommit, TypeOK
  <2>2. \/ ownership' = ownership
        \/ Held(i) /\ ownership' = [ownership EXCEPT ![i].superseded = TRUE]
    BY <1>1, <1>5, CommitOutcome DEF StopCommit
  <2>3. /\ ownership'[i].claimed = ownership[i].claimed
        /\ ownership'[i].ticket = ownership[i].ticket
        /\ ~Held(i) => ownership' = ownership
    BY <1>1, <2>2 DEF TypeOK, Ownerships
  <2>4. goal[i] = "configure" /\ i \notin Reconfigurable => ~Held(i)
    BY <2>1 DEF Busy, Held, Unowned
  <2> QED BY <2>1, <2>3, <2>4 DEF Busy
<1>6. CASE ReleaseOwnership(i)
  <2>1. /\ lifecycle[i] = "releasing" /\ lifecycle'[i] = AfterStop(i)
        /\ UNCHANGED <<goal, observer, saver>>
    BY <1>1, <1>6 DEF ReleaseOwnership, TypeOK
  <2>2. \/ ownership' = ownership
        \/ Held(i) /\ ownership' = [ownership EXCEPT ![i].superseded = TRUE]
        \/ Held(i) /\ ownership' = [ownership EXCEPT ![i].released = TRUE]
    BY <1>1, <1>6, CheckOutcome DEF ReleaseOwnership, OwnerActive
  <2>3. /\ ownership'[i].claimed = ownership[i].claimed
        /\ ownership'[i].ticket = ownership[i].ticket
        /\ ~Held(i) => ownership' = ownership
    BY <1>1, <2>2 DEF TypeOK, Ownerships
  <2>4. goal[i] = "configure" /\ i \notin Reconfigurable => ~Held(i)
    BY <2>1 DEF Busy, Held, Unowned
  <2> QED BY <2>1, <2>3, <2>4 DEF Busy, AfterStop
<1>7. CASE LoadState(i)
  <2>1. /\ lifecycle[i] = "loading" /\ lifecycle'[i] = "reserving"
        /\ ownership'[i] = Unowned(0)
        /\ UNCHANGED <<goal, observer, saver>>
    BY <1>1, <1>7 DEF LoadState, TypeOK
  <2> QED BY <2>1 DEF Busy
<1>8. CASE ReserveOwnership(i)
  <2>1. /\ lifecycle[i] = "reserving" /\ lifecycle'[i] = "running"
        /\ UNCHANGED <<goal, observer, saver>>
    BY <1>1, <1>8 DEF ReserveOwnership, TypeOK
  <2>2. i \notin Reconfigurable => observer[i] = 0 /\ saver[i].at # "snapped"
    BY <2>1 DEF Busy
  <2> QED BY <2>1, <2>2 DEF Busy
<1> QED BY <1>3, <1>4, <1>5, <1>6, <1>7, <1>8 DEF Lifecycle

\* ... its refresh loop, ...
LEMMA LocalRefresh ==
  ASSUME FenceInv, NEW i \in Instance, LocalInv(i), Refresh(i)
  PROVE  LocalInv(i)'
<1>1. TypeOK /\ ClaimInProgress
  BY DEF FenceInv
<1>2. UNCHANGED <<lifecycle, goal, observer, saver>>
  BY DEF Refresh, StartRefresh, FetchInventory, InventoryFailed, PromoteReservation,
         AbandonClaim, ReloadAfterClaim, PublishClaim, Reconcile
<1>3. /\ ownership'[i].ticket = ownership[i].ticket
      /\ ownership[i].claimed => ownership'[i].claimed
      /\ ownership'[i] # ownership[i] => ownership[i].ticket # 0
  <2>1. CASE ownership' = ownership
    BY <2>1
  <2>2. CASE MarkSuperseded(i) /\ ownership[i].ticket # 0
    BY <1>1, <2>2 DEF MarkSuperseded, TypeOK, Ownerships
  <2>3. CASE PublishClaim(i)
    BY <1>1, <2>3 DEF PublishClaim, ClaimInProgress, TypeOK, Ownerships
  <2>4. ASSUME NEW c \in SUBSET Credential, Reconcile(i, c)
        PROVE  \/ ownership' = ownership
               \/ MarkSuperseded(i) /\ ownership[i].ticket # 0
    <3>1. Held(i) => ownership[i].ticket # 0
      BY DEF Held, FenceInv, ClaimsAreGranted
    <3> QED BY <2>4, <3>1 DEF Reconcile, CommitUnderFence, CheckOwner, OwnerActive
  <2>5. CASE StartRefresh(i) \/ PromoteReservation(i)
    <3>1. ownership[i].ticket # 0
      BY <1>1, <2>5 DEF StartRefresh, PromoteReservation, ClaimInProgress
    <3> QED BY <2>1, <2>2, <2>5, <3>1 DEF StartRefresh, PromoteReservation
  <2> QED BY <2>1, <2>2, <2>3, <2>4, <2>5
          DEF Refresh, FetchInventory, InventoryFailed, AbandonClaim, ReloadAfterClaim
<1>4. Outset(i)'
  <2>1. i \notin Reconfigurable /\ (lifecycle[i] = "down" \/ (Busy(i) /\ goal[i] = "configure"))
        => ownership[i] = Unowned(0) /\ ownership[i].ticket = 0
    BY DEF LocalInv, Outset, Unowned
  <2> QED BY <1>2, <1>3, <2>1 DEF LocalInv, Outset, Busy
<1> QED BY <1>2, <1>3, <1>4 DEF LocalInv, CallsAreCurrent

\* ... and the calls of its host.
LEMMA LocalCallback ==
  ASSUME FenceInv, NEW i \in Instance, LocalInv(i), Callback(i)
  PROVE  LocalInv(i)'
<1>1. TypeOK
  BY DEF FenceInv
<1>2. UNCHANGED <<lifecycle, goal>>
  BY DEF Callback, ChangeBans, TakeSnapshot, CommitSnapshot, BeginOwnerCheck, EndOwnerCheck
<1>3. /\ ownership'[i].ticket = ownership[i].ticket
      /\ ownership'[i].claimed = ownership[i].claimed
      /\ ownership'[i] # ownership[i] => ownership[i].claimed \/ observer[i] # 0
  <2>1. CASE ownership' = ownership
    BY <2>1
  <2>2. CASE ownership' = [ownership EXCEPT ![i].superseded = TRUE] /\ Held(i)
    <3>1. ownership'[i] = [ownership[i] EXCEPT !.superseded = TRUE] /\ ownership[i] \in Ownerships
      BY <1>1, <2>2 DEF TypeOK
    <3>2. ownership'[i].ticket = ownership[i].ticket /\ ownership'[i].claimed = ownership[i].claimed
      BY <3>1 DEF Ownerships
    <3> QED BY <2>2, <3>2 DEF Held
  <2>3. CASE MarkSuperseded(i) /\ observer[i] # 0
    <3>1. ownership'[i] = [ownership[i] EXCEPT !.superseded = TRUE] /\ ownership[i] \in Ownerships
      BY <1>1, <2>3 DEF MarkSuperseded, TypeOK
    <3> QED BY <2>3, <3>1 DEF Ownerships
  <2>4. CASE TakeSnapshot(i)
    BY <1>1, <2>1, <2>2, <2>4, CheckOutcome DEF TakeSnapshot
  <2>5. CASE CommitSnapshot(i)
    BY <1>1, <2>1, <2>2, <2>5, CommitOutcome DEF CommitSnapshot
  <2> QED BY <2>1, <2>3, <2>4, <2>5 DEF Callback, ChangeBans, BeginOwnerCheck, EndOwnerCheck
<1>4. /\ observer'[i] # 0 => \/ observer'[i] = observer[i]
                             \/ /\ i \in Observed /\ Held(i)
                                /\ observer'[i] = ownership[i].ticket
      /\ saver'[i].at = "snapped" =>
            \/ saver'[i] = saver[i]
            \/ Held(i) /\ saver'[i].taken = ownership[i].ticket
  <2>1. ASSUME NEW b \in SUBSET Credential, ChangeBans(i, b)
        PROVE  observer' = observer /\ saver'[i].at # "snapped"
    BY <1>1, <2>1 DEF ChangeBans, TypeOK
  <2>2. CASE TakeSnapshot(i)
    BY <1>1, <2>2 DEF TakeSnapshot, CheckOwner, OwnerActive, TypeOK, Idle
  <2>3. CASE CommitSnapshot(i)
    BY <1>1, <2>3 DEF CommitSnapshot, TypeOK, Idle
  <2>4. CASE BeginOwnerCheck(i)
    BY <1>1, <2>4 DEF BeginOwnerCheck, TypeOK
  <2>5. CASE EndOwnerCheck(i)
    BY <1>1, <2>5 DEF EndOwnerCheck, TypeOK
  <2> QED BY <2>1, <2>2, <2>3, <2>4, <2>5 DEF Callback
<1> QED BY <1>1, <1>2, <1>3, <1>4
        DEF LocalInv, Outset, CallsAreCurrent, Busy, Unowned, Held

LEMMA LocalStep ==
  ASSUME FenceInv, NEW i \in Instance, LocalInv(i), StepOf(i)
  PROVE  LocalInv(i)'
<1>1. CASE Crash(i)
  <2>1. /\ lifecycle'[i] = "down" /\ ownership'[i] = Unowned(0) /\ observer'[i] = 0
        /\ saver'[i] = Idle
    BY <1>1 DEF Crash, FenceInv, TypeOK
  <2> QED BY <2>1 DEF LocalInv, Outset, CallsAreCurrent, Busy, Idle
<1> QED BY <1>1, LocalLifecycle, LocalRefresh, LocalCallback DEF StepOf

\* Whether an instance stands, under its own steps.
LEMMA StandingStep ==
  ASSUME FenceInv, NEW i \in Steady, LocalInv(i), StandingInv(i), StepOf(i)
  PROVE  StandingInv(i)'
<1>1. /\ TypeOK /\ ClaimInProgress /\ i \in Instance
      /\ ownership[i] \in Ownerships /\ journal.highest \in Nat /\ journal.activeGeneration \in Nat
      /\ ownership[i].claimed => /\ ownership[i].ticket =< journal.activeGeneration
                                 /\ refresh[i] = "idle"
      /\ TypeOK'
  <2>1. [Next]_vars /\ i \in Instance
    BY DEF StepOf, Next, Steady
  <2> QED BY <2>1, TypeStep DEF FenceInv, ClaimsAreGranted, ClaimInProgress, TypeOK
<1>2. /\ journal'.highest \in Nat /\ journal'.activeGeneration \in Nat
      /\ journal'.highest >= journal.highest
      /\ journal'.activeGeneration >= journal.activeGeneration
      /\ OnRecord(i, ownership[i].ticket)' /\ ownership'[i].ticket = ownership[i].ticket =>
            OnRecord(i, ownership[i].ticket) \/ (refresh[i] = "fetched" /\ Promotable(i))
  <2>1. journal'.highest \in Nat /\ journal'.activeGeneration \in Nat
    BY <1>1 DEF TypeOK
  <2>2. PICK t \in Nat : t = ownership[i].ticket
    BY <1>1 DEF Ownerships
  <2>3. OnRecord(i, t)' => OnRecord(i, t) \/ (refresh[i] = "fetched" /\ Promotable(i))
    BY <1>1, <2>2, JournalForward DEF Granted
  <2>4. /\ journal'.highest >= journal.highest
        /\ journal'.activeGeneration >= journal.activeGeneration
    BY <1>1, JournalForward
  <2> QED BY <2>1, <2>2, <2>3, <2>4 DEF OnRecord
<1>3. ASSUME /\ ownership'[i].ticket = ownership[i].ticket
             /\ ownership'[i].claimed = ownership[i].claimed
             /\ ownership'[i].superseded = ownership[i].superseded
      PROVE  Retired(i)'
  BY <1>1, <1>2, <1>3 DEF StandingInv, Retired, Promotable, Ownerships
\* Someone has judged the generation the instance has.
<1>4. ASSUME ownership' = [ownership EXCEPT ![i].superseded = TRUE], journal' = journal,
             refresh' = [refresh EXCEPT ![i] = "idle"] \/ (refresh' = refresh /\ refresh[i] = "idle"),
             \/ ownership[i].claimed /\ ~OnRecord(i, ownership[i].ticket)
             \/ ~ownership[i].claimed /\ Overtaken(i)
      PROVE  StandingInv(i)'
  <2>1. /\ ownership'[i].ticket = ownership[i].ticket
        /\ ownership'[i].claimed = ownership[i].claimed
    BY <1>1, <1>4 DEF TypeOK, Ownerships
  <2>2. Retired(i)'
    BY <1>1, <1>4, <2>1 DEF Retired, Overtaken, OnRecord, Ownerships
  <2>3. refresh'[i] = "idle"
    BY <1>1, <1>4 DEF TypeOK
  <2> QED BY <2>2, <2>3 DEF StandingInv, ClaimantStands
<1>5. ASSUME UNCHANGED <<ownership, refresh>> PROVE StandingInv(i)'
  BY <1>3, <1>5 DEF StandingInv, ClaimantStands
<1>6. ASSUME UNCHANGED <<journal, refresh>>,
             \/ ownership' = ownership
             \/ /\ Held(i) /\ ~OwnerActive(i)
                /\ ownership' = [ownership EXCEPT ![i].superseded = TRUE]
      PROVE  StandingInv(i)'
  <2>1. Held(i) => ownership[i].claimed /\ refresh[i] = "idle"
    BY <1>1 DEF Held
  <2> QED BY <1>4, <1>5, <1>6, <2>1 DEF OwnerActive
<1>7. CASE Lifecycle(i)
  <2>1. ASSUME NEW g \in {"configure", "shutdown"}, BeginLifecycle(i, g) PROVE StandingInv(i)'
    BY <1>5, <2>1 DEF BeginLifecycle
  <2>2. CASE Drained(i)
    BY <1>1, <1>6, <2>2, CheckOutcome DEF Drained
  <2>3. CASE StopCommit(i)
    BY <1>1, <1>6, <2>3, CommitOutcome DEF StopCommit
  <2>4. CASE ReleaseOwnership(i)
    <3>1. CASE ownership' = [ownership EXCEPT ![i].released = TRUE]
      <4>1. /\ ownership'[i].ticket = ownership[i].ticket
            /\ ownership'[i].claimed = ownership[i].claimed
            /\ ownership'[i].superseded = ownership[i].superseded
        BY <1>1, <3>1 DEF TypeOK, Ownerships
      <4>2. refresh' = refresh
        BY <2>4 DEF ReleaseOwnership
      <4> QED BY <1>3, <4>1, <4>2 DEF StandingInv, ClaimantStands
    <3>2. CASE ownership' = ownership
      BY <1>5, <2>4, <3>2 DEF ReleaseOwnership
    <3>3. CASE CheckOwner(i, FALSE) /\ journal' = journal
      BY <1>1, <1>6, <2>4, <3>3, CheckOutcome DEF ReleaseOwnership
    <3> QED BY <2>4, <3>1, <3>2, <3>3 DEF ReleaseOwnership
  <2>5. CASE LoadState(i)
    BY <1>1, <2>5 DEF LoadState, Unowned, StandingInv, Retired, ClaimantStands, TypeOK
  <2>6. CASE ReserveOwnership(i)
    <3>1. ownership'[i] = ownership[i] \/ ~ownership'[i].superseded
      BY <1>1, <2>6 DEF ReserveOwnership, Unowned, TypeOK
    <3>2. refresh' = refresh
      BY <2>6 DEF ReserveOwnership
    <3> QED BY <1>3, <3>1, <3>2 DEF StandingInv, Retired, ClaimantStands
  <2> QED BY <1>7, <2>1, <2>2, <2>3, <2>4, <2>5, <2>6 DEF Lifecycle
<1>8. CASE Refresh(i)
  <2>1. CASE StartRefresh(i)
    <3>1. CASE Overtaken(i)
      BY <1>4, <2>1, <3>1 DEF StartRefresh, MarkSuperseded
    <3>2. CASE ~Overtaken(i)
      BY <1>3, <2>1, <3>2 DEF StartRefresh, StandingInv, ClaimantStands
    <3> QED BY <3>1, <3>2
  <2>2. CASE FetchInventory(i) \/ InventoryFailed(i) \/ AbandonClaim(i) \/ ReloadAfterClaim(i)
    <3>1. ownership' = ownership /\ refresh[i] # "idle"
      BY <2>2 DEF FetchInventory, InventoryFailed, AbandonClaim, ReloadAfterClaim
    <3> QED BY <1>3, <3>1 DEF StandingInv, ClaimantStands
  <2>3. CASE PromoteReservation(i)
    <3>1. CASE Overtaken(i)
      BY <1>4, <2>3, <3>1 DEF PromoteReservation, MarkSuperseded, Promotable
    <3>2. CASE ~Overtaken(i)
      BY <1>3, <2>3, <3>2 DEF PromoteReservation, Promotable, StandingInv, ClaimantStands
    <3> QED BY <3>1, <3>2
  <2>4. CASE PublishClaim(i)
    <3>1. ~ownership[i].superseded
      BY <2>4 DEF PublishClaim, StandingInv, ClaimantStands
    <3>2. ownership'[i].superseded = ownership[i].superseded
      BY <1>1, <2>4 DEF PublishClaim, TypeOK, Ownerships
    <3> QED BY <3>1, <3>2 DEF StandingInv, Retired, ClaimantStands
  <2>5. ASSUME NEW c \in SUBSET Credential, Reconcile(i, c) PROVE StandingInv(i)'
    BY <1>1, <1>6, <2>5, CommitOutcome DEF Reconcile
  <2> QED BY <1>8, <2>1, <2>2, <2>3, <2>4, <2>5 DEF Refresh
<1>9. CASE Callback(i)
  <2>1. CASE TakeSnapshot(i)
    BY <1>1, <1>6, <2>1, CheckOutcome DEF TakeSnapshot
  <2>2. CASE CommitSnapshot(i)
    BY <1>1, <1>6, <2>2, CommitOutcome DEF CommitSnapshot
  <2>3. CASE EndOwnerCheck(i)
    <3>1. observer[i] = ownership[i].ticket /\ ownership[i].claimed
      BY <2>3 DEF EndOwnerCheck, Steady, LocalInv, CallsAreCurrent
    <3> QED BY <1>1, <1>4, <1>5, <2>3, <3>1 DEF EndOwnerCheck, MarkSuperseded
  <2> QED BY <1>5, <1>9, <2>1, <2>2, <2>3 DEF Callback, ChangeBans, BeginOwnerCheck
<1>10. CASE Crash(i)
  BY <1>1, <1>10 DEF Crash, Unowned, StandingInv, Retired, ClaimantStands, TypeOK
<1> QED BY <1>7, <1>8, <1>9, <1>10 DEF StepOf

\* Every step keeps the retirement invariant.
LEMMA RetireStep == RetireInv /\ [Next]_vars => RetireInv'
<1> SUFFICES ASSUME RetireInv, [Next]_vars PROVE RetireInv'
  OBVIOUS
<1>1. FenceInv /\ FenceInv'
  BY FenceStep DEF RetireInv
<1>2. CASE UNCHANGED vars
  BY <1>1, <1>2 DEF vars, RetireInv, LocalInv, StandingInv, Outset, CallsAreCurrent, Retired,
         ClaimantStands, OnRecord, Busy
<1>3. ASSUME NEW j \in Instance, StepOf(j) PROVE RetireInv'
  <2>1. ASSUME NEW i \in Instance PROVE LocalInv(i)'
    BY <1>1, <1>3, LocalStep, OthersKeepThem DEF RetireInv
  <2>2. ASSUME NEW i \in Steady PROVE StandingInv(i)'
    BY <1>1, <1>3, StandingStep, OthersKeepThem DEF RetireInv, Steady
  <2> QED BY <1>1, <2>1, <2>2 DEF RetireInv
<1> QED BY <1>2, <1>3 DEF Next, StepOf

\* An instance is retired only when another one overtook it or its grant is gone, however
\* journal reads and appends fail and instances crash: every instance that the host does
\* not configure in place while an ownership check of it is in flight.
THEOREM RetirementIsJustified == Spec => []SteadyRetireOnlyIfOvertaken
<1>1. Spec => []RetireInv
  BY RetireInit, RetireStep, PTL DEF Spec
<1>2. RetireInv => SteadyRetireOnlyIfOvertaken
  BY DEF RetireInv, StandingInv, SteadyRetireOnlyIfOvertaken
<1> QED BY <1>1, <1>2, PTL

\* With no such instance the promise is kept for all (generation_owner.go:128-129).
THEOREM NobodyIsRetiredByMistake ==
  ASSUME Reconfigurable \cap Observed = {}
  PROVE  Spec => []SupersededOnlyIfOvertaken
<1>1. SteadyRetireOnlyIfOvertaken => SupersededOnlyIfOvertaken
  BY DEF Steady, SteadyRetireOnlyIfOvertaken, SupersededOnlyIfOvertaken
<1> QED BY <1>1, RetirementIsJustified, PTL

\* What an append that is durable and reports an error would break: an instance on
\* record that has not claimed yet is between its promotion and its claim.
GrantUnderWay(i) ==
    ~ownership[i].claimed /\ OnRecord(i, ownership[i].ticket) =>
        refresh[i] \in {"promoted", "reloaded"}

GrantInv ==
    /\ RetireInv
    /\ journal.active => 0 < journal.activeGeneration
    /\ \A i \in Steady : GrantUnderWay(i)

\* Without an append that becomes durable and reports an error, every step keeps that.
LEMMA GrantStep ==
  ASSUME "unsure" \notin Outcomes
  PROVE  GrantInv /\ [Next]_vars => GrantInv'
<1> SUFFICES ASSUME GrantInv, [Next]_vars PROVE GrantInv'
  OBVIOUS
<1>1. /\ RetireInv /\ RetireInv' /\ FenceInv /\ TypeOK /\ TypeOK' /\ ClaimInProgress
      /\ journal.activeGeneration \in Nat /\ journal'.activeGeneration \in Nat
      /\ journal.highest \in Nat /\ journal.activeGeneration =< journal.highest
      /\ \A i \in Instance : ownership[i] \in Ownerships /\ ownership[i].ticket \in Nat
  BY RetireStep DEF GrantInv, RetireInv, FenceInv, ClaimsAreGranted, TypeOK, Ownerships
<1>2. CASE UNCHANGED vars
  BY <1>1, <1>2 DEF vars, GrantInv, GrantUnderWay, OnRecord
<1>3. ASSUME NEW j \in Instance, StepOf(j) PROVE GrantInv'
  <2>1. /\ journal'.activeGeneration >= journal.activeGeneration
        /\ \A i \in Instance, t \in Nat :
              OnRecord(i, t)' => \/ OnRecord(i, t)
                                 \/ i = j /\ PromoteReservation(j) /\ Granted(j)
    BY <1>1, <1>3, JournalForward
  <2>2. journal'.active => 0 < journal'.activeGeneration
    <3>1. CASE journal'.active => journal.active
      BY <1>1, <2>1, <3>1 DEF GrantInv
    <3>2. CASE Granted(j)
      <4>1. journal'.activeGeneration = ownership[j].ticket /\ ownership[j].ticket # 0
        BY <1>1, <3>2 DEF Granted, ClaimInProgress, TypeOK
      <4> QED BY <1>1, <4>1
    <3>3. CASE journal' = [journal EXCEPT !.highest = NextTicket]
      BY <1>1, <3>1, <3>3 DEF TypeOK
    <3>4. CASE journal' = [journal EXCEPT !.active = FALSE]
      BY <1>1, <3>1, <3>4 DEF TypeOK
    <3> QED BY <1>3, <3>1, <3>2, <3>3, <3>4, JournalMoves
  <2>3. ASSUME NEW i \in Steady, ~ownership'[i].claimed, OnRecord(i, ownership[i].ticket)'
        PROVE  refresh'[i] \in {"promoted", "reloaded"}
    <3>1. /\ i \in Instance
          /\ ~ownership[i].claimed /\ OnRecord(i, ownership[i].ticket) =>
                refresh[i] \in {"promoted", "reloaded"}
      BY DEF Steady, GrantInv, GrantUnderWay
    <3>2. 0 < ownership'[i].ticket /\ ownership'[i].ticket = journal'.activeGeneration
      BY <2>2, <2>3 DEF OnRecord
    <3>3. ASSUME ownership'[i].ticket = ownership[i].ticket
          PROVE  \/ OnRecord(i, ownership[i].ticket)
                 \/ i = j /\ PromoteReservation(j) /\ Granted(j)
      <4>1. PICK t \in Nat : t = ownership[i].ticket
        BY <1>1, <3>1
      <4>2. OnRecord(i, t)'
        BY <2>3, <3>3, <4>1 DEF OnRecord
      <4> QED BY <2>1, <3>1, <4>1, <4>2
    <3>4. CASE i # j
      <4>1. Untouched(i)
        BY <1>1, <1>3, <3>1, <3>4, OthersUntouched
      <4> QED BY <2>3, <3>1, <3>3, <3>4, <4>1 DEF Untouched
    <3>5. CASE i = j /\ PromoteReservation(j) /\ Granted(j)
      <4>1. PICK o \in Outcomes :
               /\ journal' = IF o = "failed" \/ journal.highest # ownership[i].ticket
                             THEN journal
                             ELSE [journal EXCEPT !.activeGeneration = ownership[i].ticket,
                                                  !.activeOwner = i, !.active = TRUE]
               /\ refresh' = [refresh EXCEPT ![i] =
                                 IF o = "ok" /\ journal.highest = ownership[i].ticket
                                 THEN "promoted" ELSE "idle"]
        BY <3>5 DEF PromoteReservation, Granted
      <4>2. journal' # journal
        <5>1. journal'.activeGeneration = ownership[i].ticket
          BY <1>1, <3>5 DEF Granted, TypeOK
        <5>2. journal.activeGeneration < ownership[i].ticket
          BY <1>1, <3>1, <3>5 DEF Granted, Overtaken
        <5> QED BY <1>1, <5>1, <5>2
      <4>3. o = "ok" /\ journal.highest = ownership[i].ticket
        BY <4>1, <4>2, OutcomesAssumption
      <4> QED BY <1>1, <3>1, <4>1, <4>3 DEF TypeOK
    <3>6. ASSUME i = j, ownership'[i].ticket = ownership[i].ticket,
                 ownership'[i].claimed = ownership[i].claimed,
                 refresh' = refresh \/ refresh[i] \notin {"promoted", "reloaded"},
                 ~PromoteReservation(i)
          PROVE  refresh'[i] \in {"promoted", "reloaded"}
      BY <2>3, <3>1, <3>3, <3>6
    <3>7. CASE i = j /\ Lifecycle(i)
      <4>1. CASE LoadState(i)
        BY <1>1, <3>1, <3>2, <4>1 DEF LoadState, Unowned, TypeOK
      <4>2. CASE ReserveOwnership(i)
        <5>1. ~(ownership'[i] = Unowned(NextTicket))
          BY <1>1, <3>2, <4>2 DEF NextTicket, Unowned, ReserveOwnership, TypeOK
        <5>2. ownership'[i] = ownership[i] /\ refresh' = refresh /\ refresh[i] = "idle"
          BY <1>1, <3>1, <4>2, <5>1 DEF ReserveOwnership, ClaimInProgress, TypeOK
        <5>3. OnRecord(i, ownership[i].ticket)
          BY <2>3, <4>2, <5>2 DEF ReserveOwnership, OnRecord, TypeOK
        <5> QED BY <2>3, <3>1, <5>2, <5>3
      <4>3. ASSUME NEW g \in {"configure", "shutdown"}, BeginLifecycle(i, g)
            PROVE  ownership' = ownership /\ refresh' = refresh
        BY <4>3 DEF BeginLifecycle
      <4>4. CASE Drained(i) \/ StopCommit(i) \/ ReleaseOwnership(i)
        <5>1. /\ ownership'[i].ticket = ownership[i].ticket
              /\ ownership'[i].claimed = ownership[i].claimed
          <6>1. \/ ownership' = ownership
                \/ ownership' = [ownership EXCEPT ![i].superseded = TRUE]
                \/ ownership' = [ownership EXCEPT ![i].released = TRUE]
            BY <1>1, <3>1, <4>4, CheckOutcome, CommitOutcome
               DEF Drained, StopCommit, ReleaseOwnership
          <6> QED BY <1>1, <3>1, <6>1 DEF TypeOK, Ownerships
        <5>2. refresh' = refresh
          BY <4>4 DEF Drained, StopCommit, ReleaseOwnership
        <5>3. \/ journal' = journal
              \/ journal' = [journal EXCEPT !.active = FALSE]
          BY <4>4 DEF Drained, StopCommit, ReleaseOwnership
        <5>4. /\ journal'.active => journal.active
              /\ journal'.activeGeneration = journal.activeGeneration
              /\ journal'.activeOwner = journal.activeOwner
          BY <1>1, <5>3 DEF TypeOK
        <5> QED BY <2>3, <3>1, <5>1, <5>2, <5>4 DEF OnRecord
      <4> QED BY <1>1, <2>3, <3>1, <3>7, <4>1, <4>2, <4>3, <4>4
              DEF Lifecycle, BeginLifecycle, OnRecord
    <3>8. CASE i = j /\ Refresh(i)
      <4>1. CASE PromoteReservation(i)
        <5>1. CASE Granted(i)
          BY <3>5, <3>8, <4>1, <5>1
        <5>2. CASE ~Granted(i)
          <6>1. ownership' = ownership \/ MarkSuperseded(i)
            BY <4>1 DEF PromoteReservation
          <6>2. ownership'[i].ticket = ownership[i].ticket
                /\ ownership'[i].claimed = ownership[i].claimed
            BY <1>1, <3>1, <6>1 DEF MarkSuperseded, TypeOK, Ownerships
          <6>3. refresh[i] = "fetched"
            BY <4>1 DEF PromoteReservation
          <6> QED BY <2>3, <3>1, <3>3, <3>8, <5>2, <6>2, <6>3
        <5> QED BY <5>1, <5>2
      <4>2. CASE PublishClaim(i)
        <5>1. ~ownership[i].superseded
          BY <1>1, <4>2 DEF PublishClaim, RetireInv, StandingInv, ClaimantStands
        <5>2. ownership'[i].claimed
          BY <1>1, <3>1, <4>2, <5>1 DEF PublishClaim, TypeOK, Ownerships
        <5> QED BY <2>3, <5>2
      <4>3. CASE ReloadAfterClaim(i)
        BY <1>1, <3>1, <4>3 DEF ReloadAfterClaim, TypeOK
      <4>4. CASE StartRefresh(i) \/ FetchInventory(i) \/ InventoryFailed(i) \/ AbandonClaim(i)
        <5>1. ownership' = ownership \/ MarkSuperseded(i)
          BY <4>4 DEF StartRefresh, FetchInventory, InventoryFailed, AbandonClaim
        <5>2. ownership'[i].ticket = ownership[i].ticket
              /\ ownership'[i].claimed = ownership[i].claimed
          BY <1>1, <3>1, <5>1 DEF MarkSuperseded, TypeOK, Ownerships
        <5>3. refresh[i] \in {"idle", "probing", "fetched"} /\ journal' = journal
          BY <4>4 DEF StartRefresh, FetchInventory, InventoryFailed, AbandonClaim
        <5> QED BY <2>3, <3>1, <5>2, <5>3 DEF OnRecord
      <4>5. ASSUME NEW c \in SUBSET Credential, Reconcile(i, c)
            PROVE  ownership'[i].claimed
        <5>1. Held(i)
          BY <4>5 DEF Reconcile, OwnerActive
        <5>2. \/ ownership' = ownership
              \/ ownership' = [ownership EXCEPT ![i].superseded = TRUE]
          BY <1>1, <3>1, <4>5, CommitOutcome DEF Reconcile
        <5> QED BY <1>1, <3>1, <5>1, <5>2 DEF Held, TypeOK, Ownerships
      <4> QED BY <2>3, <3>8, <4>1, <4>2, <4>3, <4>4, <4>5 DEF Refresh
    <3>9. CASE i = j /\ Callback(i)
      <4>1. \/ ownership' = ownership
            \/ ownership' = [ownership EXCEPT ![i].superseded = TRUE]
        BY <1>1, <3>1, <3>9, CheckOutcome, CommitOutcome
           DEF Callback, ChangeBans, TakeSnapshot, CommitSnapshot, BeginOwnerCheck,
               EndOwnerCheck, MarkSuperseded
      <4>2. ownership'[i].ticket = ownership[i].ticket
            /\ ownership'[i].claimed = ownership[i].claimed
        BY <1>1, <3>1, <4>1 DEF TypeOK, Ownerships
      <4>3. journal' = journal /\ refresh' = refresh
        BY <3>9 DEF Callback, ChangeBans, TakeSnapshot, CommitSnapshot, BeginOwnerCheck,
                    EndOwnerCheck
      <4> QED BY <2>3, <3>1, <4>2, <4>3 DEF OnRecord
    <3>10. CASE Crash(i)
      BY <1>1, <3>1, <3>2, <3>10 DEF Crash, Unowned, TypeOK
    <3> QED BY <1>3, <3>4, <3>7, <3>8, <3>9, <3>10 DEF StepOf
  <2> QED BY <1>1, <2>2, <2>3 DEF GrantInv, GrantUnderWay
<1> QED BY <1>2, <1>3 DEF Next, StepOf

\* The instance on record is not retired, as long as no append that became durable
\* reports an error: such an append is the only way to a retired owner.
THEOREM TheGrantedAreNotRetired ==
  ASSUME "unsure" \notin Outcomes, Reconfigurable \cap Observed = {}
  PROVE  Spec => []NewestGrantIsNotRetired
<1>1. Init => GrantInv
  BY RetireInit DEF Init, GrantInv, GrantUnderWay, OnRecord
<1>2. Spec => []GrantInv
  BY <1>1, GrantStep, PTL DEF Spec
<1>3. GrantInv => NewestGrantIsNotRetired
  BY DEF GrantInv, RetireInv, StandingInv, Steady, Retired, ClaimantStands, GrantUnderWay,
         NewestGrantIsNotRetired
<1> QED BY <1>2, <1>3, PTL
-----------------------------------------------------------------------------
(* Whose snapshot the state file holds.                                     *)

\* A commit writes a snapshot of the instance's own generation, under its ticket.
LEMMA CommitIsOwn ==
  ASSUME RetireInv, NEW i \in Instance, i \notin Reconfigurable, StepOf(i)
  PROVE  \/ stateFile' = stateFile
         \/ /\ stateFile'.ticket = journal.activeGeneration
            /\ stateFile'.taken = stateFile'.ticket
<1>1. TypeOK
  BY DEF RetireInv, FenceInv
<1>2. ASSUME NEW c \in Contents, CommitUnderFence(i, c, ownership[i].ticket)
      PROVE  \/ stateFile' = stateFile
             \/ /\ stateFile'.ticket = journal.activeGeneration
                /\ stateFile'.taken = stateFile'.ticket
  <2>1. ownership[i].ticket \in Nat
    BY <1>1 DEF TypeOK, Ownerships
  <2> QED BY <1>1, <1>2, <2>1, CommitIsFenced, CommitOutcome
<1>3. CASE StopCommit(i)
  <2>1. memory[i] \in Contents
    BY <1>1 DEF TypeOK
  <2> QED BY <1>2, <1>3, <2>1 DEF StopCommit
<1>4. ASSUME NEW c \in SUBSET Credential, Reconcile(i, c)
      PROVE  \E d \in Contents : CommitUnderFence(i, d, ownership[i].ticket)
  <2>1. memory' = [memory EXCEPT ![i].confirmations = c]
    BY <1>4 DEF Reconcile
  <2>2. memory'[i] \in Contents
    <3>1. memory' \in [Instance -> Contents]
      BY <1>1, <2>1, MemoryUpdates DEF TypeOK
    <3> QED BY <3>1
  <2> QED BY <1>4, <2>2 DEF Reconcile
<1>5. CASE CommitSnapshot(i)
  <2>1. saver[i].contents \in Contents /\ saver[i].taken = ownership[i].ticket
    BY <1>1, <1>5 DEF TypeOK, CommitSnapshot, RetireInv, LocalInv, CallsAreCurrent
  <2> QED BY <1>2, <1>5, <2>1 DEF CommitSnapshot
<1>6. CASE Lifecycle(i)
  BY <1>3, <1>6 DEF Lifecycle, BeginLifecycle, Drained, ReleaseOwnership, LoadState,
                    ReserveOwnership
<1>7. CASE Refresh(i)
  BY <1>2, <1>4, <1>7 DEF Refresh, StartRefresh, FetchInventory, InventoryFailed,
                          PromoteReservation, AbandonClaim, ReloadAfterClaim, PublishClaim
<1>8. CASE Callback(i) \/ Crash(i)
  BY <1>5, <1>8 DEF Callback, Crash, ChangeBans, TakeSnapshot, BeginOwnerCheck, EndOwnerCheck
<1> QED BY <1>6, <1>7, <1>8 DEF StepOf

\* The state file holds a snapshot that its committing generation took itself, if the
\* host configures no instance in place.
THEOREM SnapshotsAreOwn ==
  ASSUME Reconfigurable = {}
  PROVE  Spec => []CommitsOwnSnapshot
<1>1. Init => CommitsOwnSnapshot
  BY DEF Init, CommitsOwnSnapshot
<1>2. RetireInv /\ CommitsOwnSnapshot /\ [Next]_vars => CommitsOwnSnapshot'
  <2> SUFFICES ASSUME RetireInv, CommitsOwnSnapshot, [Next]_vars PROVE CommitsOwnSnapshot'
    OBVIOUS
  <2>1. CASE UNCHANGED vars
    BY <2>1 DEF vars, CommitsOwnSnapshot
  <2>2. ASSUME NEW i \in Instance, StepOf(i) PROVE CommitsOwnSnapshot'
    BY <2>2, CommitIsOwn DEF CommitsOwnSnapshot
  <2> QED BY <2>1, <2>2 DEF Next, StepOf
<1> QED BY <1>1, <1>2, RetireInit, RetireStep, PTL DEF Spec

\* A save that was delayed past the takeover of a successor never lands: the tickets
\* under which the state file is replaced only grow.
LEMMA WriterStep ==
  FenceInv /\ stateFile.ticket =< journal.activeGeneration /\ [Next]_vars =>
      /\ stateFile.ticket =< stateFile'.ticket
      /\ stateFile'.ticket =< journal'.activeGeneration
<1> SUFFICES ASSUME FenceInv, stateFile.ticket =< journal.activeGeneration, [Next]_vars
             PROVE  /\ stateFile.ticket =< stateFile'.ticket
                    /\ stateFile'.ticket =< journal'.activeGeneration
  OBVIOUS
<1>1. /\ stateFile.ticket \in Nat /\ stateFile'.ticket \in Nat
      /\ journal.activeGeneration \in Nat /\ journal'.activeGeneration \in Nat
      /\ journal.highest \in Nat
  BY TypeStep DEF FenceInv, TypeOK
<1>2. [Fence!Next]_(Fence!avars)
  BY FenceRefinesStep
<1> QED BY <1>1, <1>2 DEF Fence!Next, Fence!avars, Fence!Issue, Fence!Grant, Fence!Surrender,
                          Fence!Write

THEOREM LateSavesNeverLand == Spec => [][stateFile.ticket =< stateFile'.ticket]_vars
<1>1. Init => FenceInv /\ stateFile.ticket =< journal.activeGeneration
  BY FenceInit DEF Init
<1>2. /\ FenceInv /\ stateFile.ticket =< journal.activeGeneration
      /\ [Next]_vars
      => (FenceInv /\ stateFile.ticket =< journal.activeGeneration)'
  BY WriterStep, FenceStep
<1>3. FenceInv /\ stateFile.ticket =< journal.activeGeneration /\ [Next]_vars
      => [stateFile.ticket =< stateFile'.ticket]_vars
  BY WriterStep
<1> QED BY <1>1, <1>2, <1>3, PTL DEF Spec
-----------------------------------------------------------------------------
(* The file behind the record (GenerationJournal): JournalSpec.             *)

\* Only the last line may be unfinished, and no record falls behind an earlier one.
Sound(f) ==
    /\ f \in Journals
    /\ Len(f.lines) <= RecoveryMax
    /\ \A k \in DOMAIN f.lines : f.lines[k] = Torn => k = Len(f.lines) /\ ~f.ended
    /\ \A j, k \in DOMAIN f.lines :
          j < k /\ f.lines[j] # Torn /\ f.lines[k] # Torn => NotBelow(f.lines[j], f.lines[k])

Clean(f) == \A k \in DOMAIN f.lines : f.lines[k] # Torn

\* What the call that has the lock knows of the file.
Knows(w) ==
    /\ w.at \in {"compacting", "updating"} => w.rec = Latest(file)
    /\ w.at = "compacting" => file.lines # <<>>
    /\ w.at \in {"updating", "separating", "appending"} => Clean(file) /\ Len(file.lines) < MaxLines
    /\ w.at \in {"separating", "appending", "prefix"} => <<Latest(file), w.rec>> \in Change
    /\ w.at = "appending" => file.ended
    /\ w.at = "prefix" => /\ file.lines # <<>>
                          /\ file.lines[Len(file.lines)] = Torn
    /\ w.at = "object" => Clean(file) /\ ~file.ended

Alone ==
    \A c, d \in Caller :
        worker[c].at \notin Outside /\ worker[d].at \notin Outside => c = d

JournalInv ==
    /\ Sound(file)
    /\ JournalTypeOK
    /\ Alone
    /\ \A c \in Caller : Knows(worker[c])

\* The record is on the last line, or on the one before an unfinished last line.
LEMMA LatestIs ==
  ASSUME NEW f, Sound(f), NEW n, n = Len(f.lines)
  PROVE  /\ n = 0 => Latest(f) = NoRecord /\ Whole(f) = {}
         /\ n > 0 /\ f.lines[n] # Torn => Latest(f) = f.lines[n]
         /\ n = 1 /\ f.lines[n] = Torn => Latest(f) = NoRecord /\ Whole(f) = {}
         /\ n > 1 /\ f.lines[n] = Torn => Latest(f) = f.lines[n - 1] /\ f.lines[n - 1] # Torn
<1>1. n \in Nat /\ DOMAIN f.lines = 1..n
  <2>1. f.lines \in Seq(Record \cup {Torn})
    BY DEF Sound, Journals
  <2> QED BY <2>1
<1>2. ASSUME NEW k \in Whole(f), \A j \in Whole(f) : j <= k
      PROVE  Latest(f) = f.lines[k]
  <2>1. \A m \in Whole(f) : (\A j \in Whole(f) : j <= m) => m = k
    BY <1>1, <1>2 DEF Whole
  <2> QED BY <1>2, <2>1 DEF Latest
<1>3. CASE n = 0
  <2>1. Whole(f) = {}
    BY <1>1, <1>3 DEF Whole
  <2> QED BY <1>3, <2>1 DEF Latest
<1>4. CASE n > 0 /\ f.lines[n] # Torn
  <2>1. n \in Whole(f) /\ \A j \in Whole(f) : j <= n
    BY <1>1, <1>4 DEF Whole
  <2> QED BY <1>1, <1>2, <1>4, <2>1
<1>5. CASE n = 1 /\ f.lines[n] = Torn
  <2>1. Whole(f) = {}
    BY <1>1, <1>5 DEF Whole
  <2> QED BY <1>5, <2>1 DEF Latest
<1>6. CASE n > 1 /\ f.lines[n] = Torn
  <2>1. n - 1 \in DOMAIN f.lines /\ n - 1 # n
    BY <1>1, <1>6
  <2>2. f.lines[n - 1] # Torn
    BY <1>1, <2>1 DEF Sound
  <2>3. n - 1 \in Whole(f) /\ \A j \in Whole(f) : j <= n - 1
    BY <1>1, <1>6, <2>1, <2>2 DEF Whole
  <2> QED BY <1>1, <1>2, <1>6, <2>2, <2>3
<1> QED BY <1>1, <1>3, <1>4, <1>5, <1>6

LEMMA LatestIsRecord ==
  ASSUME NEW f, Sound(f)
  PROVE  Latest(f) \in Record
<1>1. PICK n : n = Len(f.lines)
  OBVIOUS
<1>2. f.lines \in Seq(Record \cup {Torn})
  BY DEF Sound, Journals
<1>3. n \in Nat /\ DOMAIN f.lines = 1..n /\ \A k \in 1..n : f.lines[k] \in Record \cup {Torn}
  BY <1>1, <1>2
<1>4. NoRecord \in Record
  BY DEF NoRecord, Record
<1> QED BY <1>1, <1>3, <1>4, LatestIs

\* A record that no earlier line exceeds may follow them.
LEMMA NoneIsAbove ==
  ASSUME NEW f, Sound(f), NEW k \in DOMAIN f.lines, f.lines[k] # Torn
  PROVE  NotBelow(f.lines[k], Latest(f))
<1>1. PICK n : n = Len(f.lines)
  OBVIOUS
<1>2. f.lines \in Seq(Record \cup {Torn})
  BY DEF Sound, Journals
<1>3. n \in Nat /\ DOMAIN f.lines = 1..n /\ \A j \in 1..n : f.lines[j] \in Record \cup {Torn}
  BY <1>1, <1>2
<1>4. \A r \in Record : NotBelow(r, r)
  BY DEF NotBelow, Record
<1>5. CASE f.lines[n] # Torn
  <2>1. k = n \/ k < n
    BY <1>3
  <2> QED BY <1>1, <1>3, <1>4, <1>5, <2>1, LatestIs DEF Sound
<1>6. CASE f.lines[n] = Torn
  <2>1. k < n /\ n > 1
    BY <1>3, <1>6
  <2>2. k = n - 1 \/ k < n - 1
    BY <1>3, <2>1
  <2>3. Latest(f) = f.lines[n - 1] /\ f.lines[n - 1] # Torn /\ n - 1 \in DOMAIN f.lines
    BY <1>1, <1>3, <1>6, <2>1, LatestIs
  <2> QED BY <1>3, <1>4, <2>2, <2>3 DEF Sound
<1> QED BY <1>5, <1>6

LEMMA ChangesAdvance ==
  ASSUME NEW r \in Record, NEW s, <<r, s>> \in Change
  PROVE  s \in Record /\ NotBelow(r, s)
BY DEF Change, NotBelow, Record

LEMMA ChangedIsChange ==
  ASSUME NEW r \in Record, NEW s \in Changed(r)
  PROVE  <<r, s>> \in Change
BY DEF Change, Changed, Record

\* The reader accepts what is sound, unless all there is is an unfinished first line.
LEMMA SoundIsReadable ==
  ASSUME NEW f, Sound(f), Whole(f) # {}
  PROVE  ~Unreadable(f)
<1>1. f.lines \in Seq(Record \cup {Torn})
  BY DEF Sound, Journals
<1>2. ~(Len(f.lines) > RecoveryMax)
  BY <1>1, SizeAssumption DEF Sound
<1>3. f.lines # <<>>
  BY DEF Whole
<1> QED BY <1>2, <1>3 DEF Sound, Unreadable, Whole

LEMMA ReadableIsSound ==
  ASSUME NEW f \in Journals, ~Unreadable(f)
  PROVE  Sound(f)
<1>1. f.lines \in Seq(Record \cup {Torn}) /\ f.ended \in BOOLEAN
  BY DEF Journals
<1>2. Len(f.lines) <= RecoveryMax
  BY <1>1, SizeAssumption DEF Unreadable
<1>3. \A k \in DOMAIN f.lines : f.lines[k] = Torn => k = Len(f.lines) /\ ~f.ended
  BY DEF Unreadable, Whole
<1>4. \A j, k \in DOMAIN f.lines :
         j < k /\ f.lines[j] # Torn /\ f.lines[k] # Torn => NotBelow(f.lines[j], f.lines[k])
  BY DEF Unreadable, Whole
<1> QED BY <1>2, <1>3, <1>4 DEF Sound

LEMMA JournalStarts ==
  ASSUME JournalInit
  PROVE  JournalInv
<1>1. Sound(file)
  <2>1. CASE file \in Legacy
    BY <2>1, ReadableIsSound, LegacyAssumption
  <2>2. CASE file = [lines |-> <<>>, ended |-> TRUE]
    <3>1. file.lines = <<>> /\ file \in Journals
      BY <2>2 DEF Journals
    <3> QED BY <3>1, SizeAssumption DEF Sound
  <2> QED BY <2>1, <2>2 DEF JournalInit
<1>2. NoRecord \in Record
  BY DEF NoRecord, Record
<1>3. \A c \in Caller : worker[c] = [at |-> "over", rec |-> NoRecord]
  BY DEF JournalInit
<1>4. file \in Journals
  BY <1>1 DEF Sound
<1> QED BY <1>1, <1>2, <1>3, <1>4 DEF JournalInv, JournalTypeOK, JournalInit, Alone, Knows, Outside

\* A call that moves on while the lock is its own, or is taken by it, or dropped.
LEMMA MoveOn ==
  ASSUME JournalInv, Sound(file'), NEW c \in Caller,
         NEW at \in Outside \cup Before \cup Done, NEW r \in Record, GoTo(c, at, r),
         Knows([at |-> at, rec |-> r])',
         \/ at \in Outside /\ file' = file
         \/ \A d \in Caller \ {c} : worker[d].at \in Outside
  PROVE  JournalInv'
<1>1. \A d \in Caller : worker'[d] = IF d = c THEN [at |-> at, rec |-> r] ELSE worker[d]
  BY DEF JournalInv, JournalTypeOK, GoTo
<1>2. worker' \in [Caller -> [at : Outside \cup Before \cup Done, rec : Record]]
  BY DEF JournalInv, JournalTypeOK, GoTo
<1>3. Alone'
  BY <1>1 DEF JournalInv, JournalTypeOK, Alone
<1>4. \A d \in Caller : Knows(worker[d])'
  <2> TAKE d \in Caller
  <2>1. CASE d = c
    BY <1>1, <2>1 DEF Knows
  <2>2. CASE d # c /\ worker[d].at \in Outside
    BY <1>1, <2>2 DEF Knows, Outside
  <2>3. CASE d # c /\ file' = file
    BY <1>1, <2>3 DEF Knows, JournalInv, JournalTypeOK
  <2> QED BY <2>1, <2>2, <2>3
<1>5. file' \in Journals
  BY DEF Sound
<1> QED BY <1>2, <1>3, <1>4, <1>5 DEF JournalInv, JournalTypeOK

\* Who has the lock has it alone.
LEMMA OthersOutside ==
  ASSUME JournalInv, NEW c \in Caller, worker[c].at \notin Outside
  PROVE  \A d \in Caller \ {c} : worker[d].at \in Outside
BY DEF JournalInv, JournalTypeOK, Alone

\* Appending the beginning of a record leaves the latest record what it is.
LEMMA PrefixIsNoRecord ==
  ASSUME NEW f, Sound(f), Clean(f), Len(f.lines) < MaxLines,
         NEW g, g = [lines |-> Append(f.lines, Torn), ended |-> FALSE]
  PROVE  /\ Sound(g) /\ Latest(g) = Latest(f)
         /\ g.lines # <<>> /\ g.lines[Len(g.lines)] = Torn
<1>1. PICK s, n : s = f.lines /\ n = Len(s)
  OBVIOUS
<1>2. s \in Seq(Record \cup {Torn}) /\ n \in Nat
  BY <1>1 DEF Sound, Journals
<1>3. DOMAIN s = 1..n
  BY <1>1, <1>2
<1>4. /\ g.lines = Append(s, Torn) /\ ~g.ended
      /\ Append(s, Torn) \in Seq(Record \cup {Torn})
      /\ Len(Append(s, Torn)) = n + 1 /\ DOMAIN Append(s, Torn) = 1..(n + 1)
      /\ \A k \in 1..n : Append(s, Torn)[k] = s[k]
      /\ Append(s, Torn)[n + 1] = Torn
  BY <1>1, <1>2
<1>5. n + 1 <= RecoveryMax
  BY <1>1, <1>2, SizeAssumption
<1>6. Sound(g)
  <2>1. g \in Journals
    BY <1>4 DEF Journals
  <2>2. \A k \in 1..(n + 1) : k \in 1..n \/ k = n + 1
    BY <1>2
  <2>3. \A k \in DOMAIN g.lines : g.lines[k] = Torn => k = Len(g.lines) /\ ~g.ended
    BY <1>1, <1>3, <1>4, <2>2 DEF Clean
  <2>4. \A j, k \in DOMAIN g.lines : j < k /\ g.lines[j] # Torn /\ g.lines[k] # Torn
                                       => NotBelow(g.lines[j], g.lines[k])
    BY <1>1, <1>3, <1>4, <2>2 DEF Sound
  <2> QED BY <1>4, <1>5, <2>1, <2>3, <2>4 DEF Sound
<1>7. Latest(g) = Latest(f)
  <2>1. CASE n = 0
    BY <1>1, <1>4, <1>6, <2>1, LatestIs
  <2>2. CASE n > 0
    <3>1. s[n] # Torn
      BY <1>1, <1>2, <1>3, <2>2 DEF Clean
    <3>2. Latest(f) = s[n]
      BY <1>1, <2>2, <3>1, LatestIs
    <3>3. Latest(g) = g.lines[n]
      <4>1. PICK m : m = n + 1
        OBVIOUS
      <4>2. m = Len(g.lines) /\ m > 1 /\ m - 1 = n /\ g.lines[m] = Torn
        BY <1>2, <1>4, <2>2, <4>1
      <4> QED BY <1>6, <4>2, LatestIs
    <3> QED BY <1>2, <1>4, <2>2, <3>2, <3>3
  <2> QED BY <1>2, <2>1, <2>2
<1> QED BY <1>2, <1>4, <1>6, <1>7

\* Completing it makes it the latest record.
LEMMA ObjectIsRecord ==
  ASSUME NEW f, Sound(f), f.lines # <<>>, f.lines[Len(f.lines)] = Torn,
         NEW r, <<Latest(f), r>> \in Change,
         NEW g, g = [f EXCEPT !.lines[Len(f.lines)] = r]
  PROVE  Sound(g) /\ Clean(g) /\ ~g.ended /\ Latest(g) = r
<1>1. PICK s, n : s = f.lines /\ n = Len(s)
  OBVIOUS
<1>2. s \in Seq(Record \cup {Torn}) /\ n \in Nat /\ n > 0 /\ DOMAIN s = 1..n
  BY <1>1 DEF Sound, Journals
<1>3. Latest(f) \in Record
  BY LatestIsRecord
<1>4. r \in Record /\ NotBelow(Latest(f), r)
  BY <1>3, ChangesAdvance
<1>5. PICK t : t = [s EXCEPT ![n] = r]
  OBVIOUS
<1>6. t \in Seq(Record \cup {Torn}) /\ Len(t) = n /\ DOMAIN t = 1..n
  BY <1>2, <1>4, <1>5
<1>7. t[n] = r /\ \A k \in 1..n : k # n => t[k] = s[k]
  BY <1>2, <1>5
<1>8. g.lines = t /\ g.ended = f.ended /\ g \in Journals
  BY <1>1, <1>5, <1>6 DEF Sound, Journals
<1>9. r # Torn
  BY <1>4, TornAssumption
<1>10. Clean(g) /\ ~g.ended
  BY <1>1, <1>2, <1>6, <1>7, <1>8, <1>9 DEF Clean, Sound
<1>11. \A k \in 1..n : k # n => NotBelow(s[k], r)
  <2> SUFFICES ASSUME NEW k \in 1..n, k # n PROVE NotBelow(s[k], r)
    OBVIOUS
  <2>1. s[k] # Torn /\ s[k] \in Record
    BY <1>1, <1>2 DEF Sound
  <2>2. NotBelow(s[k], Latest(f))
    BY <1>1, <1>2, <2>1, NoneIsAbove
  <2> QED BY <1>3, <1>4, <2>1, <2>2 DEF NotBelow, Record
<1>12. Sound(g)
  <2>1. Len(g.lines) <= RecoveryMax
    BY <1>1, <1>6, <1>8 DEF Sound
  <2>2. \A j, k \in DOMAIN g.lines : j < k /\ g.lines[j] # Torn /\ g.lines[k] # Torn
                                       => NotBelow(g.lines[j], g.lines[k])
    <3> SUFFICES ASSUME NEW j \in 1..n, NEW k \in 1..n, j < k, t[j] # Torn, t[k] # Torn
                 PROVE  NotBelow(t[j], t[k])
      BY <1>6, <1>8
    <3>1. j # n /\ t[j] = s[j]
      BY <1>2, <1>7
    <3>2. CASE k = n
      BY <1>7, <1>11, <3>1, <3>2
    <3>3. CASE k # n
      BY <1>1, <1>2, <1>7, <3>1, <3>3 DEF Sound
    <3> QED BY <3>2, <3>3
  <2> QED BY <1>8, <1>10, <2>1, <2>2 DEF Sound, Clean
<1>13. Latest(g) = r
  <2>1. n = Len(g.lines) /\ n > 0 /\ g.lines[n] = r
    BY <1>2, <1>6, <1>7, <1>8
  <2> QED BY <1>9, <1>12, <2>1, LatestIs
<1> QED BY <1>10, <1>12, <1>13

\* The latest record is a matter of the lines alone.
LEMMA SameLines ==
  ASSUME NEW f, Sound(f), Clean(f), NEW g, Sound(g), g.lines = f.lines
  PROVE  Latest(g) = Latest(f)
<1>1. PICK n : n = Len(f.lines)
  OBVIOUS
<1>2. f.lines \in Seq(Record \cup {Torn})
  BY DEF Sound, Journals
<1>3. n \in Nat /\ (n > 0 => f.lines[n] # Torn)
  BY <1>1, <1>2 DEF Clean
<1>4. Latest(f) = IF n = 0 THEN NoRecord ELSE f.lines[n]
  BY <1>1, <1>3, LatestIs
<1>5. Latest(g) = IF n = 0 THEN NoRecord ELSE f.lines[n]
  BY <1>1, <1>3, LatestIs
<1> QED BY <1>4, <1>5

\* A newline at the end changes no record.
LEMMA NewlineIsNoRecord ==
  ASSUME NEW f, Sound(f), Clean(f), NEW g, g = [f EXCEPT !.ended = TRUE]
  PROVE  Sound(g) /\ Clean(g) /\ g.ended /\ g.lines = f.lines /\ Latest(g) = Latest(f)
<1>1. g.lines = f.lines /\ g.ended = TRUE /\ g \in Journals
  BY DEF Sound, Journals
<1>2. Clean(g)
  BY <1>1 DEF Clean
<1>3. Sound(g)
  BY <1>1, <1>2 DEF Sound, Clean
<1> QED BY <1>1, <1>2, <1>3, SameLines

LEMMA CompactedIsSound ==
  ASSUME NEW r \in Record, NEW g, g = [lines |-> <<r>>, ended |-> TRUE]
  PROVE  Sound(g) /\ Clean(g) /\ Len(g.lines) < MaxLines /\ Latest(g) = r
<1>1. g.lines = <<r>> /\ g.ended = TRUE /\ r # Torn
  BY TornAssumption
<1>2. Len(<<r>>) = 1 /\ DOMAIN <<r>> = 1..1 /\ <<r>>[1] = r /\ <<r>> \in Seq(Record \cup {Torn})
  OBVIOUS
<1>3. 1 < MaxLines /\ 1 <= RecoveryMax
  BY SizeAssumption
<1>4. Sound(g)
  BY <1>1, <1>2, <1>3 DEF Sound, Journals
<1>5. Clean(g)
  BY <1>1, <1>2 DEF Clean
<1>6. Latest(g) = r
  <2>1. PICK n : n = Len(g.lines)
    OBVIOUS
  <2>2. n = 1 /\ n > 0 /\ g.lines[n] = r
    BY <1>1, <1>2, <2>1
  <2> QED BY <1>1, <1>4, <2>1, <2>2, LatestIs
<1> QED BY <1>1, <1>2, <1>3, <1>4, <1>5, <1>6

\* Each step of a call keeps the file sound, and moves the record only when the object of
\* the call is complete.
LEMMA JournalStep ==
  ASSUME JournalInv, [JournalNext]_journalVars
  PROVE  JournalInv'
<1> USE DEF Outside, Before, Done
<1>1. /\ Sound(file) /\ \A c \in Caller : worker[c].rec \in Record /\ Knows(worker[c])
      /\ Latest(file) \in Record
  BY LatestIsRecord DEF JournalInv, JournalTypeOK
<1>2. NoRecord \in Record
  BY DEF NoRecord, Record
<1>3. ASSUME NEW c \in Caller, Begin(c) \/ Abandon(c) PROVE JournalInv'
  <2>1. PICK at \in {"waiting", "over"} : GoTo(c, at, NoRecord) /\ file' = file
    BY <1>3 DEF Begin, Abandon
  <2>2. Sound(file')
    BY <1>1, <2>1
  <2>3. Knows([at |-> at, rec |-> NoRecord])'
    BY <2>1 DEF Knows
  <2> QED BY <1>2, <2>1, <2>2, <2>3, MoveOn
<1>4. ASSUME NEW c \in Caller, Lock(c) PROVE JournalInv'
  <2>1. /\ GoTo(c, "reading", NoRecord) /\ file' = file
        /\ \A d \in Caller : worker[d].at \in Outside
    BY <1>4 DEF Lock
  <2>2. Sound(file')
    BY <1>1, <2>1
  <2>3. Knows([at |-> "reading", rec |-> NoRecord])'
    BY <2>1 DEF Knows
  <2> QED BY <1>2, <2>1, <2>2, <2>3, MoveOn
<1>5. ASSUME NEW c \in Caller, ReadRecord(c) PROVE JournalInv'
  <2>1. PICK at \in {"compacting", "updating"} :
          /\ GoTo(c, at, Latest(file)) /\ file' = file
          /\ at = "compacting" <=> TornTail(file) \/ Len(file.lines) >= CompactAt
    BY <1>5 DEF ReadRecord
  <2>2. Sound(file')
    BY <1>1, <2>1
  <2>3. \A d \in Caller \ {c} : worker[d].at \in Outside
    BY <1>5, OthersOutside DEF ReadRecord
  <2>4. PICK s, n : s = file.lines /\ n = Len(s)
    OBVIOUS
  <2>5. s \in Seq(Record \cup {Torn}) /\ n \in Nat
    BY <1>1, <2>4 DEF Sound, Journals
  <2>6. CompactAt \in Nat /\ CompactAt > 0 /\ MaxLines \in Nat /\ CompactAt < MaxLines
    BY SizeAssumption
  <2>7. at = "compacting" => file.lines # <<>>
    <3>1. s = <<>> => n = 0
      BY <2>4
    <3> QED BY <2>1, <2>4, <2>5, <2>6, <3>1 DEF TornTail
  <2>8. at = "updating" => Len(file.lines) < MaxLines
    BY <2>1, <2>4, <2>5, <2>6
  <2>9. at = "updating" => Clean(file)
    <3> SUFFICES ASSUME at = "updating", NEW k \in DOMAIN s, s[k] = Torn PROVE FALSE
      BY <2>4 DEF Clean
    <3>1. k = n /\ ~file.ended
      BY <1>1, <2>4 DEF Sound
    <3>2. s # <<>>
      BY <2>5
    <3> QED BY <2>1, <2>4, <3>1, <3>2 DEF TornTail
  <2>10. Knows([at |-> at, rec |-> Latest(file)])'
    BY <2>1, <2>7, <2>8, <2>9 DEF Knows
  <2> QED BY <1>1, <2>1, <2>2, <2>3, <2>10, MoveOn
<1>6. ASSUME NEW c \in Caller, Compact(c) PROVE JournalInv'
  <2>1. PICK r : r = worker[c].rec
    OBVIOUS
  <2>2. /\ GoTo(c, "updating", r) /\ file' = [lines |-> <<r>>, ended |-> TRUE]
        /\ r \in Record
    BY <1>1, <1>6, <2>1 DEF Compact
  <2>3. \A d \in Caller \ {c} : worker[d].at \in Outside
    BY <1>6, OthersOutside DEF Compact
  <2>4. /\ Sound(file') /\ Clean(file') /\ Len(file'.lines) < MaxLines
        /\ Latest(file') = r
    BY <2>2, CompactedIsSound
  <2>5. Knows([at |-> "updating", rec |-> r])'
    BY <2>4 DEF Knows
  <2> QED BY <2>2, <2>3, <2>4, <2>5, MoveOn
<1>7. ASSUME NEW c \in Caller, Update(c) PROVE JournalInv'
  <2>1. worker[c].at = "updating" /\ file' = file
    BY <1>7 DEF Update
  <2>2. Sound(file') /\ worker[c].rec = Latest(file) /\ Clean(file) /\ Len(file.lines) < MaxLines
    BY <1>1, <2>1 DEF Knows
  <2>3. \A d \in Caller \ {c} : worker[d].at \in Outside
    BY <2>1, OthersOutside
  <2>4. CASE GoTo(c, "read", worker[c].rec)
    <3>1. Knows([at |-> "read", rec |-> worker[c].rec])'
      BY DEF Knows
    <3> QED BY <1>1, <2>2, <2>3, <2>4, MoveOn DEF Knows
  <2>5. ASSUME NEW r \in Changed(worker[c].rec), GoTo(c, "separating", r) PROVE JournalInv'
    <3>1. <<Latest(file), r>> \in Change /\ r \in Record
      BY <1>1, <2>2, ChangedIsChange, ChangesAdvance
    <3>2. Knows([at |-> "separating", rec |-> r])'
      BY <2>1, <2>2, <3>1 DEF Knows
    <3> QED BY <2>2, <2>3, <2>5, <3>1, <3>2, MoveOn
  <2> QED BY <1>7, <2>4, <2>5 DEF Update
<1>8. ASSUME NEW c \in Caller, Separate(c) PROVE JournalInv'
  <2>1. PICK r : r = worker[c].rec
    OBVIOUS
  <2>2. /\ worker[c].at = "separating" /\ file' = [file EXCEPT !.ended = TRUE]
        /\ GoTo(c, "appending", r) /\ r \in Record
    BY <1>1, <1>8, <2>1 DEF Separate
  <2>3. Clean(file) /\ Len(file.lines) < MaxLines /\ <<Latest(file), r>> \in Change
    BY <1>1, <2>1, <2>2 DEF Knows
  <2>4. /\ Sound(file') /\ Clean(file') /\ file'.ended /\ file'.lines = file.lines
        /\ Latest(file') = Latest(file)
    BY <1>1, <2>2, <2>3, NewlineIsNoRecord
  <2>5. \A d \in Caller \ {c} : worker[d].at \in Outside
    BY <2>2, OthersOutside
  <2>6. Knows([at |-> "appending", rec |-> r])'
    BY <2>3, <2>4 DEF Knows, Change, Record
  <2> QED BY <2>2, <2>4, <2>5, <2>6, MoveOn
<1>9. ASSUME NEW c \in Caller, WritePrefix(c) PROVE JournalInv'
  <2>1. PICK r : r = worker[c].rec
    OBVIOUS
  <2>2. /\ worker[c].at = "appending" /\ GoTo(c, "prefix", r) /\ r \in Record
        /\ file' = [lines |-> Append(file.lines, Torn), ended |-> FALSE]
    BY <1>1, <1>9, <2>1 DEF WritePrefix
  <2>3. Clean(file) /\ Len(file.lines) < MaxLines /\ <<Latest(file), r>> \in Change
    BY <1>1, <2>1, <2>2 DEF Knows
  <2>4. /\ Sound(file') /\ Latest(file') = Latest(file)
        /\ file'.lines # <<>> /\ file'.lines[Len(file'.lines)] = Torn
    BY <1>1, <2>2, <2>3, PrefixIsNoRecord
  <2>5. \A d \in Caller \ {c} : worker[d].at \in Outside
    BY <2>2, OthersOutside
  <2>6. Knows([at |-> "prefix", rec |-> r])'
    BY <2>3, <2>4 DEF Knows, Change, Record
  <2> QED BY <2>2, <2>4, <2>5, <2>6, MoveOn
<1>10. ASSUME NEW c \in Caller, WriteObject(c) PROVE JournalInv'
  <2>1. PICK r : r = worker[c].rec
    OBVIOUS
  <2>2. /\ worker[c].at = "prefix" /\ GoTo(c, "object", r) /\ r \in Record
        /\ file' = [file EXCEPT !.lines[Len(file.lines)] = r]
    BY <1>1, <1>10, <2>1 DEF WriteObject
  <2>3. /\ file.lines # <<>> /\ file.lines[Len(file.lines)] = Torn
        /\ <<Latest(file), r>> \in Change
    BY <1>1, <2>1, <2>2 DEF Knows
  <2>4. Sound(file') /\ Clean(file') /\ ~file'.ended
    BY <1>1, <2>2, <2>3, ObjectIsRecord
  <2>5. \A d \in Caller \ {c} : worker[d].at \in Outside
    BY <2>2, OthersOutside
  <2>6. Knows([at |-> "object", rec |-> r])'
    BY <2>4 DEF Knows
  <2> QED BY <2>2, <2>4, <2>5, <2>6, MoveOn
<1>11. ASSUME NEW c \in Caller, WriteNewline(c) PROVE JournalInv'
  <2>1. /\ worker[c].at = "object" /\ GoTo(c, "written", worker[c].rec)
        /\ file' = [file EXCEPT !.ended = TRUE]
    BY <1>11 DEF WriteNewline
  <2>2. Clean(file)
    BY <1>1, <2>1 DEF Knows
  <2>3. Sound(file')
    BY <1>1, <2>1, <2>2, NewlineIsNoRecord
  <2>4. \A d \in Caller \ {c} : worker[d].at \in Outside
    BY <2>1, OthersOutside
  <2>5. PICK r \in Record : r = worker[c].rec
    BY <1>1
  <2>6. Knows([at |-> "written", rec |-> r])'
    BY DEF Knows
  <2> QED BY <2>1, <2>3, <2>4, <2>5, <2>6, MoveOn
<1>12. ASSUME NEW c \in Caller, Finish(c) PROVE JournalInv'
  <2>1. GoTo(c, "answered", worker[c].rec) /\ file' = file
    BY <1>12 DEF Finish
  <2>2. Sound(file')
    BY <1>1, <2>1
  <2>3. PICK r \in Record : r = worker[c].rec
    BY <1>1
  <2>4. Knows([at |-> "answered", rec |-> r])'
    BY DEF Knows
  <2> QED BY <2>1, <2>2, <2>3, <2>4, MoveOn
<1>13. CASE UNCHANGED journalVars
  BY <1>13 DEF journalVars, JournalInv, JournalTypeOK, Alone, Knows
<1> QED
  BY <1>3, <1>4, <1>5, <1>6, <1>7, <1>8, <1>9, <1>10, <1>11, <1>12, <1>13 DEF JournalNext

\* Over deaths and errors in any call, once a record was written the next reader finds it and
\* an append finds room (generation_owner.go:458-460, 528-530).
THEOREM JournalAlwaysRecovers ==
  JournalSpec => []JournalRecovers
<1>1. JournalInit => JournalInv
  BY JournalStarts
<1>2. JournalInv /\ [JournalNext]_journalVars => JournalInv'
  BY JournalStep
<1>3. JournalInv => JournalRecovers
  BY SoundIsReadable DEF JournalInv, JournalTypeOK, Knows, JournalRecovers
<1> QED BY <1>1, <1>2, <1>3, PTL DEF JournalSpec

\* What the record's specification sees of the calls.
Views == [c \in Caller |-> Seen(worker[c])]

LEMMA CallGoes ==
  ASSUME JournalInv, NEW c \in Caller, NEW at, NEW r, GoTo(c, at, r)
  PROVE  Views' = [Views EXCEPT ![c] = Seen([at |-> at, rec |-> r])]
<1>1. \A d \in Caller : worker'[d] = IF d = c THEN [at |-> at, rec |-> r] ELSE worker[d]
  BY DEF JournalInv, JournalTypeOK, GoTo
<1>2. Views' = [d \in Caller |-> Seen(worker'[d])]
  BY DEF Views
<1> QED BY <1>1, <1>2 DEF Views

LEMMA RecordStep ==
  ASSUME JournalInv, [JournalNext]_journalVars
  PROVE  [GR!Next]_<<Latest(file), Views>>
<1> USE DEF Outside, Before, Done
<1>1. /\ Sound(file) /\ \A c \in Caller : Knows(worker[c]) /\ Views[c] = Seen(worker[c])
  BY DEF JournalInv, JournalTypeOK, Views
<1>0. \A c \in Caller : Views[c].at = Stage(worker[c].at)
  <2>1. \A w : Seen(w).at = Stage(w.at)
    BY DEF Seen
  <2> QED BY <2>1, <1>1
<1>2. ASSUME NEW c \in Caller, GR!Begin(c) \/ GR!TakeEffect(c) \/ GR!Answer(c) \/ GR!Abandon(c)
      PROVE  GR!Next
  BY <1>2 DEF GR!Next
<1>3. ASSUME NEW c \in Caller, NEW at, NEW r, GoTo(c, at, r),
             Latest(file)' = Latest(file),
             Seen(worker[c]) = Seen([at |-> at, rec |-> r])
      PROVE  UNCHANGED <<Latest(file), Views>>
  <2>1. Views' = [Views EXCEPT ![c] = Views[c]]
    BY <1>1, <1>3, CallGoes
  <2> QED BY <1>3, <2>1 DEF Views
<1>4. ASSUME NEW c \in Caller, Begin(c) PROVE GR!Begin(c)
  <2>1. /\ worker[c].at \in {"over", "answered"} /\ Latest(file)' = Latest(file)
        /\ GoTo(c, "waiting", NoRecord)
    BY <1>4 DEF Begin
  <2>2. Views[c].at \in {"over", "answered"}
    BY <1>0, <2>1 DEF Stage
  <2>3. Seen([at |-> "waiting", rec |-> NoRecord]) = [at |-> "open", got |-> Torn]
    BY DEF Seen, Stage
  <2>4. Views' = [Views EXCEPT ![c] = [at |-> "open", got |-> Torn]]
    BY <2>1, <2>3, CallGoes
  <2> QED BY <2>1, <2>2, <2>4 DEF GR!Begin, Views
<1>5. ASSUME NEW c \in Caller, Abandon(c) PROVE GR!Abandon(c)
  <2>1. Latest(file)' = Latest(file) /\ GoTo(c, "over", NoRecord)
    BY <1>5 DEF Abandon
  <2>2. Seen([at |-> "over", rec |-> NoRecord]) = [at |-> "over", got |-> Torn]
    BY DEF Seen, Stage
  <2>3. Views' = [Views EXCEPT ![c] = [at |-> "over", got |-> Torn]]
    BY <2>1, <2>2, CallGoes
  <2> QED BY <2>1, <2>3 DEF GR!Abandon, Views
<1>6. ASSUME NEW c \in Caller, Lock(c) \/ ReadRecord(c)
      PROVE  UNCHANGED <<Latest(file), Views>>
  <2>1. PICK at, r : /\ at \in {"reading", "compacting", "updating"}
                      /\ GoTo(c, at, r) /\ file' = file
    BY <1>6 DEF Lock, ReadRecord
  <2>2. worker[c].at \in {"waiting", "reading"}
    BY <1>6 DEF Lock, ReadRecord
  <2>3. Seen(worker[c]) = Seen([at |-> at, rec |-> r])
    BY <2>1, <2>2 DEF Seen, Stage
  <2> QED BY <1>3, <2>1, <2>3
<1>7. ASSUME NEW c \in Caller, Compact(c) PROVE UNCHANGED <<Latest(file), Views>>
  <2>1. PICK r : r = worker[c].rec
    OBVIOUS
  <2>2. /\ worker[c].at = "compacting" /\ GoTo(c, "updating", r)
        /\ file' = [lines |-> <<r>>, ended |-> TRUE] /\ r \in Record
    BY <1>7, <2>1 DEF Compact, JournalInv, JournalTypeOK
  <2>3. Latest(file)' = Latest(file)
    BY <1>1, <2>1, <2>2, CompactedIsSound DEF Knows
  <2>4. Seen(worker[c]) = Seen([at |-> "updating", rec |-> r])
    BY <2>2 DEF Seen, Stage
  <2> QED BY <1>3, <2>2, <2>3, <2>4
<1>8. ASSUME NEW c \in Caller, Update(c)
      PROVE  GR!TakeEffect(c) \/ UNCHANGED <<Latest(file), Views>>
  <2>1. /\ worker[c].at = "updating" /\ Latest(file)' = Latest(file)
        /\ worker[c].rec = Latest(file)
    BY <1>1, <1>8 DEF Update, Knows
  <2>2. CASE GoTo(c, "read", worker[c].rec)
    <3>1. PICK r : r = Latest(file)
      OBVIOUS
    <3>2. Views[c].at = "open"
      BY <1>0, <2>1 DEF Stage
    <3>3. Seen([at |-> "read", rec |-> r]) = [at |-> "done", got |-> r]
      BY DEF Seen, Stage
    <3>4. Views' = [Views EXCEPT ![c] = [at |-> "done", got |-> r]]
      BY <2>1, <2>2, <3>1, <3>3, CallGoes
    <3> QED BY <2>1, <3>1, <3>2, <3>4 DEF GR!TakeEffect, Views
  <2>3. ASSUME NEW r, GoTo(c, "separating", r) PROVE UNCHANGED <<Latest(file), Views>>
    <3>1. Seen(worker[c]) = Seen([at |-> "separating", rec |-> r])
      BY <2>1 DEF Seen, Stage
    <3> QED BY <1>3, <2>1, <2>3, <3>1
  <2> QED BY <1>8, <2>2, <2>3 DEF Update
<1>9. ASSUME NEW c \in Caller, Separate(c) \/ WritePrefix(c) \/ WriteNewline(c)
      PROVE  UNCHANGED <<Latest(file), Views>>
  <2>1. Latest(file)' = Latest(file)
    <3>1. CASE Separate(c) \/ WriteNewline(c)
      <4>1. Clean(file) /\ file' = [file EXCEPT !.ended = TRUE]
        BY <1>1, <3>1 DEF Separate, WriteNewline, Knows
      <4> QED BY <1>1, <4>1, NewlineIsNoRecord
    <3>2. CASE WritePrefix(c)
      <4>1. /\ Clean(file) /\ Len(file.lines) < MaxLines
            /\ file' = [lines |-> Append(file.lines, Torn), ended |-> FALSE]
        BY <1>1, <3>2 DEF WritePrefix, Knows
      <4> QED BY <1>1, <4>1, PrefixIsNoRecord
    <3> QED BY <1>9, <3>1, <3>2
  <2>2. PICK r : r = worker[c].rec
    OBVIOUS
  <2>3. CASE worker[c].at = "object" /\ GoTo(c, "written", r)
    <3>1. Seen(worker[c]) = Seen([at |-> "written", rec |-> r])
      BY <2>2, <2>3 DEF Seen, Stage
    <3> QED BY <1>3, <2>1, <2>3, <3>1
  <2>4. ASSUME worker[c].at \in {"separating", "appending"}, NEW at \in {"appending", "prefix"},
               GoTo(c, at, r)
        PROVE  UNCHANGED <<Latest(file), Views>>
    <3>1. Seen(worker[c]) = Seen([at |-> at, rec |-> r])
      BY <2>2, <2>4 DEF Seen, Stage
    <3> QED BY <1>3, <2>1, <2>4, <3>1
  <2> QED BY <1>9, <2>2, <2>3, <2>4 DEF Separate, WritePrefix, WriteNewline
<1>10. ASSUME NEW c \in Caller, WriteObject(c) PROVE GR!TakeEffect(c)
  <2>1. PICK r : r = worker[c].rec
    OBVIOUS
  <2>2. /\ worker[c].at = "prefix" /\ GoTo(c, "object", r)
        /\ file' = [file EXCEPT !.lines[Len(file.lines)] = r]
    BY <1>10, <2>1 DEF WriteObject
  <2>3. /\ file.lines # <<>> /\ file.lines[Len(file.lines)] = Torn
        /\ <<Latest(file), r>> \in Change
    BY <1>1, <2>1, <2>2 DEF Knows
  <2>4. Latest(file)' = r
    BY <1>1, <2>2, <2>3, ObjectIsRecord
  <2>5. Views[c].at = "open"
    BY <1>0, <2>2 DEF Stage
  <2>6. Seen([at |-> "object", rec |-> r]) = [at |-> "done", got |-> r]
    BY DEF Seen, Stage
  <2>7. Views' = [Views EXCEPT ![c] = [at |-> "done", got |-> r]]
    BY <2>2, <2>6, CallGoes
  <2> QED BY <2>3, <2>4, <2>5, <2>7 DEF GR!TakeEffect, Views
<1>11. ASSUME NEW c \in Caller, Finish(c) PROVE GR!Answer(c)
  <2>1. PICK r : r = worker[c].rec
    OBVIOUS
  <2>2. /\ worker[c].at \in {"read", "written"} /\ GoTo(c, "answered", r)
        /\ Latest(file)' = Latest(file)
    BY <1>11, <2>1 DEF Finish
  <2>3. Views[c] = [at |-> "done", got |-> r]
    BY <1>1, <2>1, <2>2 DEF Seen, Stage
  <2>4. Seen([at |-> "answered", rec |-> r]) = [at |-> "answered", got |-> r]
    BY DEF Seen, Stage
  <2>5. [Views[c] EXCEPT !.at = "answered"] = [at |-> "answered", got |-> r]
    BY <2>3
  <2>6. Views' = [Views EXCEPT ![c] = [at |-> "answered", got |-> r]]
    BY <2>2, <2>4, CallGoes
  <2>7. Views' = [Views EXCEPT ![c].at = "answered"]
    BY <2>5, <2>6
  <2> QED BY <2>2, <2>3, <2>7 DEF GR!Answer, Views
<1>12. CASE UNCHANGED journalVars
  BY <1>12 DEF journalVars, Views
<1> QED
  BY <1>2, <1>4, <1>5, <1>6, <1>7, <1>8, <1>9, <1>10, <1>11, <1>12 DEF JournalNext

\* A call on the file takes effect on the record at once or not at all, whoever dies or fails
\* in the middle of it: the step GenerationOwner takes it for.
THEOREM JournalImplementsRecord ==
  JournalSpec => RecordSpec
<1>1. JournalInit => GR!Init
  <2> SUFFICES ASSUME JournalInit
               PROVE  /\ Latest(file) \in Record
                      /\ Views = [c \in Caller |-> [at |-> "over", got |-> Torn]]
    BY DEF GR!Init, Views
  <2>1. Latest(file) \in Record
    BY JournalStarts, LatestIsRecord DEF JournalInv, JournalTypeOK
  <2>2. \A c \in Caller : Seen(worker[c]) = [at |-> "over", got |-> Torn]
    BY DEF JournalInit, Seen, Stage, Done
  <2> QED BY <2>1, <2>2 DEF Views
<1>2. JournalInit => JournalInv
  BY JournalStarts
<1>3. JournalInv /\ [JournalNext]_journalVars => JournalInv'
  BY JournalStep
<1>4. JournalInv /\ [JournalNext]_journalVars => [GR!Next]_<<Latest(file), Views>>
  BY RecordStep
<1> QED BY <1>1, <1>2, <1>3, <1>4, PTL DEF JournalSpec, RecordSpec, GR!Spec, Views

\* No call, finished or cut short, takes the journal back (generation_owner.go:540).
THEOREM RecordNeverGoesBack ==
  JournalSpec => [][NotBelow(Latest(file), Latest(file)')]_journalVars
<1>1. ASSUME JournalInv, [JournalNext]_journalVars
      PROVE  NotBelow(Latest(file), Latest(file)')
  <2>1. Latest(file) \in Record
    BY <1>1, LatestIsRecord DEF JournalInv, JournalTypeOK
  <2>2. Latest(file)' = Latest(file) \/ <<Latest(file), Latest(file)'>> \in Change
    BY <1>1, RecordStep
       DEF GR!Next, GR!Begin, GR!TakeEffect, GR!Answer, GR!Abandon
  <2>3. \A r \in Record : NotBelow(r, r)
    BY DEF NotBelow, Record
  <2> QED BY <2>1, <2>2, <2>3, ChangesAdvance
<1>2. JournalInv /\ [JournalNext]_journalVars => [NotBelow(Latest(file), Latest(file)')]_journalVars
  BY <1>1
<1>3. JournalInit => JournalInv
  BY JournalStarts
<1>4. JournalInv /\ [JournalNext]_journalVars => JournalInv'
  BY JournalStep
<1> QED BY <1>2, <1>3, <1>4, PTL DEF JournalSpec

THEOREM JournalTypeCorrect ==
  JournalSpec => []JournalTypeOK
<1>1. JournalInit => JournalInv
  BY JournalStarts
<1>2. JournalInv /\ [JournalNext]_journalVars => JournalInv'
  BY JournalStep
<1>3. JournalInv => JournalTypeOK
  BY DEF JournalInv
<1> QED BY <1>1, <1>2, <1>3, PTL DEF JournalSpec
=============================================================================
