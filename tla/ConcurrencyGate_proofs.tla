----------------------- MODULE ConcurrencyGate_proofs -----------------------
(***************************************************************************)
(* Proofs about ConcurrencyGate for any executions, activations and names. *)
(*                                                                         *)
(* First what keyLocked does: the least name of a set exists, a learnt     *)
(* name stands for itself, and the ledger follows.  Then the invariant,    *)
(* whose parts are shown action by action: the names, the ledger, the      *)
(* queue and the calls.  What the gate checks before it gives g.mu up and  *)
(* uses after (Room) needs callers that always name a credential alike.    *)
(***************************************************************************)
EXTENDS ConcurrencyGate, TLAPS, FiniteSetTheorems, WellFoundedInduction

\* A caller never presents some of the names of a credential and others with them.
NamedAlike == \A c, d \in Credential : c = d \/ c \cap d = {}

\* A name that stands for others stands for itself.
Settled(a) == \A x \in Alias : a[x] # 0 => a[x] \in Alias /\ a[a[x]] = a[x]

\* k is the name of a credential in use.
InUse(a, k) == k # 0 => k \in Alias /\ a[k] = k

\* Slots and queue entries are under names in use.
Current(a, rs) ==
    /\ a \in [Alias -> Nat]
    /\ Settled(a)
    /\ rs \in [Slot -> Entries]
    /\ \A s \in Slot : InUse(a, rs[s].key) /\ \A k \in rs[s].waitKeys : InUse(a, k)
-----------------------------------------------------------------------------
(* The names.                                                               *)

SmallerThan == {p \in Nat \X Nat : p[1] < p[2]}

\* Numbers have no infinite descent.
LEMMA SmallerIsWellFounded == IsWellFoundedOn(SmallerThan, Nat)
<1>1. OpToRel(<, Nat) = SmallerThan
  BY Zenon DEF OpToRel, SmallerThan
<1> QED BY <1>1, NatLessThanWellFounded

\* Every set of numbers with a member has a least one.
LEMMA LeastExists ==
  ASSUME NEW S, S \subseteq Nat, S # {}
  PROVE  Least(S) \in S /\ \A y \in S : Least(S) =< y
<1>1. PICK x \in S : \A y \in S : <<y, x>> \notin SmallerThan
  BY SmallerIsWellFounded, WFMin
<1>2. ASSUME NEW y \in S, y < x PROVE FALSE
  <2> DEFINE p == <<y, x>>
  <2>1. p \in Nat \X Nat /\ p[1] = y /\ p[2] = x
    OBVIOUS
  <2>2. p[1] < p[2]
    BY <1>2, <2>1
  <2> HIDE DEF p
  <2>3. p \in SmallerThan
    BY <2>1, <2>2 DEF SmallerThan
  <2> QED BY <2>3, <1>1 DEF p
<1>3. \A y \in S : x =< y
  BY <1>2
<1> QED BY <1>3 DEF Least

\* A credential has names, and no name is empty.
LEMMA CredentialNames ==
  ASSUME NEW c \in Credential
  PROVE  /\ c # {} /\ c \subseteq Alias /\ c \subseteq Nat /\ 0 \notin c
         /\ Alias \subseteq Nat /\ 0 \notin Alias
<1>1. \A d \in Credential : d # {} /\ d \subseteq Nat \ {0}
  BY CredentialAssumption
<1> QED BY <1>1 DEF Alias

\* The key of a credential is one of the names that are known, or its least.
LEMMA KeyForFacts ==
  ASSUME NEW a \in [Alias -> Nat], Settled(a), NEW c \in Credential
  PROVE  /\ KeyFor(a, c) \in Alias /\ KeyFor(a, c) \in Nat \ {0}
         /\ Known(a, c) = {} => KeyFor(a, c) \in c
         /\ Known(a, c) # {} => KeyFor(a, c) \in Known(a, c)
         /\ Known(a, c) \subseteq Alias
         /\ \A k \in Known(a, c) : a[k] = k
<1>1. c \subseteq Alias /\ c # {} /\ c \subseteq Nat /\ Alias \subseteq Nat /\ 0 \notin Alias
  BY CredentialNames
<1>2. \A k \in Known(a, c) : k \in Nat /\ k \in Alias /\ a[k] = k
  BY <1>1 DEF Known, Settled
<1>3. CASE Known(a, c) = {}
  <2>1. KeyFor(a, c) = Least(c)
    BY <1>3 DEF KeyFor
  <2>2. Least(c) \in c
    BY <1>1, LeastExists
  <2> QED BY <1>1, <1>3, <2>1, <2>2
<1>4. CASE Known(a, c) # {}
  <2>1. KeyFor(a, c) = Least(Known(a, c))
    BY <1>4 DEF KeyFor
  <2>2. Least(Known(a, c)) \in Known(a, c)
    BY <1>2, <1>4, LeastExists
  <2> QED BY <1>1, <1>2, <1>4, <2>1, <2>2
<1> QED BY <1>3, <1>4

\* A name that stood for another follows it.
LEMMA LearnFollows ==
  ASSUME NEW a \in [Alias -> Nat], NEW c \in Credential, NEW x \in Alias, a[x] # 0
  PROVE  Learn(a, c)[x] = Rename(a, c, a[x])
<1>1. x \in c => a[x] \in Known(a, c)
  BY DEF Known
<1> QED BY <1>1 DEF Learn, Rename

\* Learning keeps the names settled: a name follows the one it stood for.
LEMMA LearnFacts ==
  ASSUME NEW a \in [Alias -> Nat], Settled(a), NEW c \in Credential
  PROVE  /\ Learn(a, c) \in [Alias -> Nat]
         /\ Settled(Learn(a, c))
         /\ InUse(Learn(a, c), KeyFor(a, c))
         /\ \A x \in c : Learn(a, c)[x] = KeyFor(a, c)
         /\ \A k : InUse(a, k) => /\ InUse(Learn(a, c), Rename(a, c, k))
                                  /\ k # 0 => Learn(a, c)[k] = Rename(a, c, k)
<1> DEFINE K == KeyFor(a, c)
           L == Learn(a, c)
<1>1. /\ K \in Alias /\ K \in Nat \ {0}
      /\ Known(a, c) = {} => K \in c
      /\ Known(a, c) # {} => K \in Known(a, c)
      /\ Known(a, c) \subseteq Alias
      /\ \A k \in Known(a, c) : a[k] = k
  BY KeyForFacts
<1>2. c \subseteq Alias /\ 0 \notin Alias
  BY CredentialNames
<1>3. \A x \in Alias : L[x] = IF x \in c \/ a[x] \in Known(a, c) THEN K ELSE a[x]
  BY DEF Learn
<1>4. L \in [Alias -> Nat]
  BY <1>1 DEF Learn
<1>5. L[K] = K
  BY <1>1, <1>3
<1>6. \A k \in Alias : a[k] = k /\ k \in c => k \in Known(a, c)
  BY <1>2 DEF Known
<1> HIDE DEF K, L
<1>7. Settled(L)
  <2> SUFFICES ASSUME NEW x \in Alias, L[x] # 0
               PROVE  L[x] \in Alias /\ L[L[x]] = L[x]
    BY DEF Settled
  <2>1. CASE x \in c \/ a[x] \in Known(a, c)
    BY <2>1, <1>1, <1>3, <1>5
  <2>2. CASE ~(x \in c \/ a[x] \in Known(a, c))
    <3>1. L[x] = a[x] /\ a[x] \in Alias /\ a[a[x]] = a[x]
      BY <2>2, <1>3 DEF Settled
    <3> QED BY <2>2, <3>1, <1>3, <1>6
  <2> QED BY <2>1, <2>2
<1>8. ASSUME NEW k, InUse(a, k)
      PROVE  InUse(L, Rename(a, c, k)) /\ (k # 0 => L[k] = Rename(a, c, k))
  <2>1. CASE k \in Known(a, c)
    BY <2>1, <1>1, <1>3, <1>5 DEF Rename, InUse, K
  <2>2. CASE k \notin Known(a, c)
    <3>1. Rename(a, c, k) = k
      BY <2>2 DEF Rename
    <3>2. k # 0 => k \in Alias /\ L[k] = k
      BY <1>8, <2>2, <1>3, <1>6 DEF InUse
    <3> QED BY <3>1, <3>2 DEF InUse
  <2> QED BY <2>1, <2>2
<1>9. \A x \in c : L[x] = K
  BY <1>2, <1>3
<1> QED BY <1>1, <1>4, <1>5, <1>7, <1>8, <1>9 DEF K, L, InUse
-----------------------------------------------------------------------------
(* The ledger: who is registered, and the entries of those who are.         *)

Entered == \A s \in Slot \ registered : requests[s] = Fresh

Ledger ==
    /\ registered \subseteq Slot
    /\ completed \subseteq Request
    /\ registered \cap completed = {}
    /\ Current(aliases, requests)
    /\ Entered

\* An entry without a history.
LEMMA FreshFacts ==
  /\ Fresh \in Entries
  /\ Fresh.key = 0 /\ Fresh.waitKeys = {} /\ Fresh.deadline = "none"
  /\ ~Fresh.native /\ ~Fresh.dispatched /\ ~Fresh.rejected /\ ~Fresh.served
  BY DEF Fresh, Entries

\* A request is a slot, and an activation is not a request.
LEMMA SlotFacts ==
  /\ Request \subseteq Slot /\ Warmup \subseteq Slot /\ Request \cap Warmup = {}
  /\ Nobody \notin Slot /\ Slot = Request \cup Warmup
  BY SlotAssumption DEF Slot

\* Renaming keeps the empty key and never makes one.
LEMMA RenameFacts ==
  ASSUME NEW a \in [Alias -> Nat], Settled(a), NEW c \in Credential, NEW k \in Nat
  PROVE  Rename(a, c, k) \in Nat /\ (Rename(a, c, k) = 0 <=> k = 0)
<1>1. KeyFor(a, c) \in Nat \ {0}
  BY KeyForFacts
<1>2. 0 \notin Known(a, c)
  BY DEF Known
<1> QED BY <1>1, <1>2 DEF Rename

\* What Rekey leaves of an entry.
LEMMA RekeyEntry ==
  ASSUME NEW a, NEW rs, Current(a, rs), NEW c \in Credential, NEW s \in Slot
  PROVE  /\ Rekey(rs, a, c)[s] \in Entries
         /\ Rekey(rs, a, c)[s].key = Rename(a, c, rs[s].key)
         /\ Rekey(rs, a, c)[s].key = 0 <=> rs[s].key = 0
         /\ Rekey(rs, a, c)[s].waitKeys = {Rename(a, c, k) : k \in rs[s].waitKeys}
         /\ Rekey(rs, a, c)[s].native = rs[s].native
         /\ Rekey(rs, a, c)[s].dispatched = rs[s].dispatched
         /\ Rekey(rs, a, c)[s].rejected = rs[s].rejected
         /\ Rekey(rs, a, c)[s].deadline = rs[s].deadline
         /\ Rekey(rs, a, c)[s].served = rs[s].served
<1> DEFINE e == rs[s]
           key == Rename(a, c, e.key)
           keys == {Rename(a, c, k) : k \in e.waitKeys}
<1>1. e \in Entries /\ e.key \in Nat /\ e.waitKeys \subseteq Nat
  BY DEF Current, Entries
<1>2. key \in Nat /\ (key = 0 <=> e.key = 0)
  BY <1>1, RenameFacts DEF Current
<1>3. keys \subseteq Nat
  BY <1>1, RenameFacts DEF Current
<1>4. Rekey(rs, a, c)[s] = [e EXCEPT !.key = key, !.waitKeys = keys]
  BY DEF Rekey
<1> HIDE DEF e, key, keys
<1> QED BY <1>1, <1>2, <1>3, <1>4 DEF e, key, keys, Entries

\* Slots and queue entries follow their names.
LEMMA RekeyCurrent ==
  ASSUME NEW a, NEW rs, Current(a, rs), NEW c \in Credential
  PROVE  Current(Learn(a, c), Rekey(rs, a, c))
<1> DEFINE t == Rekey(rs, a, c)
           L == Learn(a, c)
<1>1. L \in [Alias -> Nat] /\ Settled(L) /\ \A k : InUse(a, k) => InUse(L, Rename(a, c, k))
  BY LearnFacts DEF Current
<1>2. t \in [Slot -> Entries]
  <2>1. \A s \in Slot : t[s] \in Entries
    BY RekeyEntry
  <2> QED BY <2>1 DEF Rekey
<1>3. ASSUME NEW s \in Slot
      PROVE  InUse(L, t[s].key) /\ \A k \in t[s].waitKeys : InUse(L, k)
  <2>1. InUse(a, rs[s].key) /\ \A k \in rs[s].waitKeys : InUse(a, k)
    BY DEF Current
  <2>2. t[s].key = Rename(a, c, rs[s].key)
        /\ t[s].waitKeys = {Rename(a, c, k) : k \in rs[s].waitKeys}
    BY RekeyEntry
  <2> HIDE DEF t, L
  <2> QED BY <1>1, <2>1, <2>2
<1> QED BY <1>1, <1>2, <1>3 DEF Current

\* An entry without a history stays one.
LEMMA RekeyFresh ==
  ASSUME NEW a, NEW rs, Current(a, rs), NEW c \in Credential, NEW s \in Slot, rs[s] = Fresh
  PROVE  Rekey(rs, a, c)[s] = Fresh
<1>1. Rename(a, c, 0) = 0
  BY RenameFacts DEF Current
<1>2. Rekey(rs, a, c)[s] = [Fresh EXCEPT !.key = Rename(a, c, 0), !.waitKeys = {}]
  <2>1. {Rename(a, c, k) : k \in {}} = {}
    OBVIOUS
  <2> QED BY <2>1, FreshFacts DEF Rekey
<1> QED BY <1>1, <1>2 DEF Fresh

\* A new entry for s whose names are in use keeps the ledger current.
LEMMA CurrentEntry ==
  ASSUME NEW a, NEW rs, Current(a, rs), NEW s \in Slot, NEW e \in Entries,
         InUse(a, e.key), \A k \in e.waitKeys : InUse(a, k)
  PROVE  Current(a, [rs EXCEPT ![s] = e])
<1> DEFINE t == [rs EXCEPT ![s] = e]
<1>1. t \in [Slot -> Entries] /\ t[s] = e /\ \A x \in Slot \ {s} : t[x] = rs[x]
  BY DEF Current
<1> HIDE DEF t
<1>2. Current(a, t)
  BY <1>1 DEF Current
<1> QED BY <1>2 DEF t

\* Dropped registrations leave an entry without a history.
LEMMA DroppedCurrent ==
  ASSUME NEW a, NEW rs, Current(a, rs), NEW old
  PROVE  Current(a, Dropped(rs, old))
<1> DEFINE t == Dropped(rs, old)
<1>1. t \in [Slot -> Entries] /\ \A x \in Slot : t[x] = IF x \in old THEN Fresh ELSE rs[x]
  BY FreshFacts DEF Current, Dropped
<1> HIDE DEF t
<1>2. Current(a, t)
  BY <1>1, FreshFacts DEF Current, InUse
<1> QED BY <1>2 DEF t

\* A name that has been learnt stays learnt, and the key of its credential is in use.
LEMMA LearntKey ==
  ASSUME NEW a \in [Alias -> Nat], Settled(a), NEW c \in Credential
  PROVE  /\ \A x \in Alias : a[x] # 0 => Learn(a, c)[x] # 0
         /\ \A x \in c : Learn(a, c)[x] # 0
         /\ (\E x \in c : a[x] # 0) => InUse(a, KeyFor(a, c))
<1>1. KeyFor(a, c) # 0 /\ c \subseteq Alias
      /\ (Known(a, c) # {} => InUse(a, KeyFor(a, c)))
  BY KeyForFacts, CredentialNames DEF InUse
<1>2. \A x \in Alias : Learn(a, c)[x] = IF x \in c \/ a[x] \in Known(a, c)
                                        THEN KeyFor(a, c) ELSE a[x]
  BY DEF Learn
<1>3. (\E x \in c : a[x] # 0) => Known(a, c) # {}
  BY DEF Known
<1> QED BY <1>1, <1>2, <1>3

\* What a call that has to wait leaves in the ledger.
LEMMA EnqueueEntry ==
  ASSUME NEW a, NEW rs, Current(a, rs), NEW q, NEW r \in Request, NEW keys,
         \A k \in keys : k \in Nat /\ InUse(a, k), Enqueue(rs, q, r, keys)
  PROVE  /\ Current(a, requests')
         /\ \A s \in Slot \ {r} : requests'[s] = rs[s]
         /\ requests'[r].key = rs[r].key /\ requests'[r].dispatched = rs[r].dispatched
         /\ requests'[r].waitKeys = keys
         /\ rs[r].rejected => requests'[r].rejected
         /\ rs[r].deadline # "passed" => requests'[r].rejected = rs[r].rejected
<1> DEFINE e == rs[r]
           deadline == IF e.deadline = "none" THEN "set" ELSE e.deadline
           rejected == e.rejected \/ e.deadline = "passed"
           f == [e EXCEPT !.waitKeys = keys, !.deadline = deadline, !.rejected = rejected]
<1>1. e \in Entries /\ InUse(a, e.key) /\ rs \in [Slot -> Entries] /\ r \in Slot
  BY SlotFacts DEF Current
<1>2. deadline \in {"none", "set", "passed"} /\ rejected \in BOOLEAN /\ keys \subseteq Nat
  BY <1>1 DEF Entries
<1>3. requests' = [rs EXCEPT ![r] = f]
  BY <1>1 DEF Enqueue
<1> HIDE DEF deadline, rejected
<1>4. f \in Entries /\ f.key = e.key /\ f.dispatched = e.dispatched
      /\ f.waitKeys = keys /\ f.rejected = rejected
  BY <1>1, <1>2 DEF Entries
<1> HIDE DEF f, e
<1>5. Current(a, requests')
  BY <1>1, <1>3, <1>4, CurrentEntry
<1>6. requests'[r] = f /\ \A s \in Slot \ {r} : requests'[s] = rs[s]
  BY <1>1, <1>3
<1> QED BY <1>1, <1>4, <1>5, <1>6 DEF e, rejected, Entries

\* Giving up the slot of an earlier attempt.
SlotGivenUp(rs, r) == [rs EXCEPT ![r].key = 0, ![r].dispatched = FALSE]

\* Nothing else of the ledger changes, and its names stay in use.
LEMMA GiveUpSlot ==
  ASSUME NEW a, NEW rs, Current(a, rs), NEW r \in Slot
  PROVE  LET t == SlotGivenUp(rs, r)
         IN  /\ Current(a, t)
             /\ \A s \in Slot \ {r} : t[s] = rs[s]
             /\ t[r].key = 0 /\ ~t[r].dispatched /\ t[r].rejected = rs[r].rejected
             /\ t[r].native = rs[r].native /\ t[r].deadline = rs[r].deadline
             /\ t[r].waitKeys = rs[r].waitKeys
<1> DEFINE e == [rs[r] EXCEPT !.key = 0, !.dispatched = FALSE]
           t == SlotGivenUp(rs, r)
<1>1. rs \in [Slot -> Entries] /\ \A k \in rs[r].waitKeys : InUse(a, k)
  BY DEF Current
<1>2. e \in Entries /\ e.key = 0 /\ e.waitKeys = rs[r].waitKeys /\ ~e.dispatched
      /\ e.rejected = rs[r].rejected /\ e.native = rs[r].native /\ e.deadline = rs[r].deadline
  BY <1>1 DEF Entries
<1>3. t = [rs EXCEPT ![r] = e]
  BY <1>1 DEF SlotGivenUp
<1> HIDE DEF e, t
<1>4. Current(a, t)
  BY <1>1, <1>2, <1>3, CurrentEntry DEF InUse
<1>5. t[r] = e /\ \A s \in Slot \ {r} : t[s] = rs[s]
  BY <1>1, <1>3
<1> QED BY <1>2, <1>4, <1>5 DEF t

\* An entry of the ledger.
LEMMA LedgerFacts ==
  ASSUME Ledger, NEW s \in Slot
  PROVE  /\ requests \in [Slot -> Entries] /\ requests[s] \in Entries
         /\ InUse(aliases, requests[s].key) /\ \A k \in requests[s].waitKeys : InUse(aliases, k)
         /\ s \notin registered => requests[s] = Fresh
         /\ aliases \in [Alias -> Nat] /\ Settled(aliases)
  BY DEF Ledger, Entered, Current

\* What the ledger looks like when a pick has given up the slot of the earlier
\* attempt and learnt the names of the two credentials.
PickedRequests(r, f, s) ==
    Rekey(Rekey(SlotGivenUp(requests, r), aliases, f), Learn(aliases, f), s)

\* Nobody but the execution is touched, and its slot is gone.
LEMMA PickEntries ==
  ASSUME Ledger, NEW r \in Request, NEW f \in Credential, NEW s \in Credential
  PROVE  LET rs == PickedRequests(r, f, s)
             a == Learn(Learn(aliases, f), s)
         IN  /\ Current(a, rs)
             /\ \A x \in Slot \ registered : x # r => rs[x] = Fresh
             /\ rs[r].key = 0 /\ ~rs[r].dispatched
             /\ rs[r].rejected = requests[r].rejected /\ rs[r].native = requests[r].native
             /\ rs[r].deadline = requests[r].deadline
             /\ \A c \in {f, s} : KeyFor(a, c) \in Nat \ {0} /\ InUse(a, KeyFor(a, c))
             /\ \A x \in Slot \ {r} :
                   /\ rs[x].rejected = requests[x].rejected
                   /\ rs[x].dispatched = requests[x].dispatched
                   /\ rs[x].key = IF requests[x].key = 0 THEN 0 ELSE a[requests[x].key]
<1> DEFINE t == SlotGivenUp(requests, r)
           L == Learn(aliases, f)
           t1 == Rekey(t, aliases, f)
           a == Learn(L, s)
           rs == Rekey(t1, L, s)
<1>1. r \in Slot /\ Current(aliases, requests)
  BY SlotFacts DEF Ledger
<1>2. /\ Current(aliases, t)
      /\ \A x \in Slot \ {r} : t[x] = requests[x]
      /\ t[r].key = 0 /\ ~t[r].dispatched /\ t[r].rejected = requests[r].rejected
      /\ t[r].native = requests[r].native /\ t[r].deadline = requests[r].deadline
  BY <1>1, GiveUpSlot
<1> HIDE DEF t
<1>3. Current(L, t1)
  BY <1>2, RekeyCurrent
<1>4. /\ t1[r].key = 0 /\ ~t1[r].dispatched /\ t1[r].rejected = requests[r].rejected
      /\ t1[r].native = requests[r].native /\ t1[r].deadline = requests[r].deadline
  BY <1>1, <1>2, RekeyEntry
<1>5. \A x \in Slot \ {r} : requests[x] = Fresh => t1[x] = Fresh
  BY <1>2, RekeyFresh
<1> HIDE DEF t1
<1>6. Current(a, rs)
  BY <1>3, RekeyCurrent
<1>7. /\ rs[r].key = 0 /\ ~rs[r].dispatched /\ rs[r].rejected = requests[r].rejected
      /\ rs[r].native = requests[r].native /\ rs[r].deadline = requests[r].deadline
  BY <1>1, <1>3, <1>4, RekeyEntry
<1>8. \A x \in Slot \ {r} : requests[x] = Fresh => rs[x] = Fresh
  BY <1>3, <1>5, RekeyFresh
<1>9. ASSUME NEW c \in {f, s}
      PROVE  KeyFor(a, c) \in Nat \ {0} /\ InUse(a, KeyFor(a, c))
  <2>1. aliases \in [Alias -> Nat] /\ Settled(aliases)
        /\ L \in [Alias -> Nat] /\ Settled(L) /\ a \in [Alias -> Nat] /\ Settled(a)
    BY <1>1, <1>3, <1>6 DEF Current
  <2>2. c # {} /\ c \subseteq Alias /\ c \in Credential
    BY CredentialNames
  <2> HIDE DEF L
  <2>3. \A x \in c : a[x] # 0
    <3>1. \A x \in f : L[x] # 0 /\ x \in Alias
      BY <2>1, LearntKey, CredentialNames DEF L
    <3>2. \A x \in s : a[x] # 0
      BY <2>1, LearntKey
    <3>3. \A x \in f : a[x] # 0
      BY <2>1, <3>1, LearntKey
    <3> QED BY <3>2, <3>3
  <2> HIDE DEF a
  <2> QED BY <2>1, <2>2, <2>3, LearntKey, KeyForFacts
<1>10. \A x \in Slot \ registered : x # r => rs[x] = Fresh
  BY <1>8 DEF Ledger, Entered
<1>11. ASSUME NEW x \in Slot \ {r}
       PROVE  /\ rs[x].rejected = requests[x].rejected
              /\ rs[x].dispatched = requests[x].dispatched
              /\ rs[x].key = IF requests[x].key = 0 THEN 0 ELSE a[requests[x].key]
  <2> DEFINE k == requests[x].key
  <2>1. /\ t1[x].rejected = requests[x].rejected /\ t1[x].dispatched = requests[x].dispatched
        /\ t1[x].key = Rename(aliases, f, k) /\ (t1[x].key = 0 <=> k = 0)
    BY <1>2, RekeyEntry DEF t1
  <2>2. /\ rs[x].rejected = t1[x].rejected /\ rs[x].dispatched = t1[x].dispatched
        /\ rs[x].key = Rename(L, s, t1[x].key) /\ (rs[x].key = 0 <=> t1[x].key = 0)
    BY <1>3, RekeyEntry
  <2>3. ASSUME k # 0 PROVE rs[x].key = a[k]
    <3>1. k \in Alias /\ aliases[k] = k /\ aliases \in [Alias -> Nat] /\ Settled(aliases)
      BY <2>3, LedgerFacts DEF InUse
    <3>2. L[k] = Rename(aliases, f, k)
      BY <3>1, <2>3, LearnFacts DEF InUse
    <3>3. L[k] # 0 /\ L \in [Alias -> Nat] /\ Settled(L)
      BY <3>1, <2>3, <1>3, LearntKey DEF Current
    <3> HIDE DEF L
    <3>4. a[k] = Rename(L, s, L[k])
      BY <3>1, <3>3, LearnFollows
    <3> QED BY <2>1, <2>2, <3>2, <3>4
  <2> QED BY <2>1, <2>2, <2>3
<1> HIDE DEF a, rs, L
<1> QED BY <1>6, <1>7, <1>9, <1>10, <1>11 DEF PickedRequests, a, rs, L, t1, t

\* Entries of one slot and the registration change together.
LEMMA LedgerEntry ==
  ASSUME Ledger, NEW s \in registered, NEW e \in Entries,
         InUse(aliases, e.key), \A k \in e.waitKeys : InUse(aliases, k),
         requests' = [requests EXCEPT ![s] = e],
         UNCHANGED <<registered, completed, aliases>>
  PROVE  Ledger'
<1>1. s \in Slot /\ Current(aliases, requests)
  BY DEF Ledger
<1>2. Current(aliases, requests')
  BY <1>1, CurrentEntry
<1>3. requests \in [Slot -> Entries]
  BY <1>1 DEF Current
<1>4. \A x \in Slot \ registered : requests'[x] = requests[x]
  BY <1>1, <1>3
<1> QED BY <1>2, <1>4 DEF Ledger, Entered, Current, Settled, InUse

\* A registration drops others that never had a slot.
LEMMA LedgerBefore ==
  ASSUME Ledger, NEW r \in Request, Before(r)
  PROVE  Ledger'
<1>1. PICK old \in SUBSET Expirable(r) :
         /\ registered' = (registered \ old) \cup (IF HasRoom(old) THEN {r} ELSE {})
         /\ requests' = Dropped(requests, old)
  BY DEF Before
<1>2. r \notin completed /\ UNCHANGED <<completed, aliases>> /\ r \in Slot
  BY SlotFacts DEF Before
<1>3. old \subseteq registered
  BY DEF Expirable
<1>4. Current(aliases, requests')
  BY <1>1, DroppedCurrent DEF Ledger
<1>5. \A x \in Slot \ registered' : requests'[x] = Fresh
  BY <1>1 DEF Dropped, Ledger, Entered
<1>6. registered' \subseteq Slot /\ registered' \cap completed' = {}
  BY <1>1, <1>2 DEF Ledger
<1> QED BY <1>2, <1>4, <1>5, <1>6 DEF Ledger, Entered, Current, Settled, InUse

\* A pick left to the host only marks the execution.
LEMMA LedgerPickMixed ==
  ASSUME Ledger, NEW r \in Request, PickMixed(r)
  PROVE  Ledger' /\ \A x \in Slot : requests'[x].key = requests[x].key
                                    /\ requests'[x].rejected = requests[x].rejected
                                    /\ requests'[x].dispatched = requests[x].dispatched
                                    /\ requests'[x].waitKeys = requests[x].waitKeys
                                    /\ requests'[x].deadline = requests[x].deadline
<1> DEFINE e == [requests[r] EXCEPT !.native = TRUE]
<1>1. r \in registered /\ r \in Slot /\ UNCHANGED <<registered, completed, aliases>>
      /\ requests' = [requests EXCEPT ![r] = e]
  BY SlotFacts DEF PickMixed
<1>2. requests \in [Slot -> Entries] /\ requests[r] \in Entries
      /\ InUse(aliases, requests[r].key) /\ \A k \in requests[r].waitKeys : InUse(aliases, k)
  BY <1>1, LedgerFacts
<1>3. e \in Entries /\ e.key = requests[r].key /\ e.waitKeys = requests[r].waitKeys
      /\ e.rejected = requests[r].rejected /\ e.dispatched = requests[r].dispatched
      /\ e.deadline = requests[r].deadline
  BY <1>2 DEF Entries
<1> HIDE DEF e
<1>4. Ledger'
  BY <1>1, <1>2, <1>3, LedgerEntry
<1> QED BY <1>1, <1>2, <1>3, <1>4

\* A wait past its deadline only rejects the execution.
LEMMA LedgerExpire ==
  ASSUME Ledger, NEW r \in Request, Expire(r)
  PROVE  Ledger' /\ requests'[r].key = requests[r].key /\ requests'[r].rejected
         /\ requests'[r].dispatched = requests[r].dispatched
         /\ requests'[r].waitKeys = requests[r].waitKeys
         /\ \A x \in Slot \ {r} : requests'[x] = requests[x]
<1> DEFINE e == [requests[r] EXCEPT !.rejected = TRUE]
<1>1. r \in registered /\ r \in Slot /\ UNCHANGED <<registered, completed, aliases>>
      /\ requests' = [requests EXCEPT ![r] = e]
  BY SlotFacts DEF Expire, Reject
<1>2. requests \in [Slot -> Entries] /\ requests[r] \in Entries
      /\ InUse(aliases, requests[r].key) /\ \A k \in requests[r].waitKeys : InUse(aliases, k)
  BY <1>1, LedgerFacts
<1>3. e \in Entries /\ e.key = requests[r].key /\ e.waitKeys = requests[r].waitKeys
      /\ e.rejected /\ e.dispatched = requests[r].dispatched
  BY <1>2 DEF Entries
<1> HIDE DEF e
<1>4. Ledger'
  BY <1>1, <1>2, <1>3, LedgerEntry
<1> QED BY <1>1, <1>2, <1>3, <1>4

\* The slot of an execution is given up after an attempt at another provider or
\* one that was rejected.
LEMMA LedgerGiveUpSlot ==
  ASSUME Ledger, NEW r \in Request, AfterOther(r) \/ ReleaseAttempt(r)
  PROVE  Ledger' /\ requests'[r].key = 0 /\ ~requests'[r].dispatched
         /\ requests'[r].rejected = requests[r].rejected
         /\ requests'[r].waitKeys = requests[r].waitKeys
         /\ requests'[r].deadline = requests[r].deadline
         /\ \A x \in Slot \ {r} : requests'[x] = requests[x]
<1>1. r \in registered /\ r \in Slot /\ UNCHANGED <<registered, completed, aliases>>
      /\ requests' = SlotGivenUp(requests, r)
  BY SlotFacts DEF AfterOther, ReleaseAttempt, SlotGivenUp
<1>2. /\ Current(aliases, requests')
      /\ \A x \in Slot \ {r} : requests'[x] = requests[x]
      /\ requests'[r].key = 0 /\ ~requests'[r].dispatched
      /\ requests'[r].rejected = requests[r].rejected
      /\ requests'[r].waitKeys = requests[r].waitKeys
      /\ requests'[r].deadline = requests[r].deadline
  BY <1>1, GiveUpSlot DEF Ledger
<1> QED BY <1>1, <1>2 DEF Ledger, Entered, Current, Settled, InUse

\* A call that returns takes the execution's wait back.
LEMMA LedgerEndWait ==
  ASSUME Ledger, NEW r \in Request, EndWait(r)
  PROVE  Ledger' /\ \A x \in Slot : requests'[x].key = requests[x].key
                                    /\ requests'[x].rejected = requests[x].rejected
                                    /\ requests'[x].dispatched = requests[x].dispatched
                                    /\ requests'[x].waitKeys \subseteq requests[x].waitKeys
                                    /\ requests'[x].deadline = requests[x].deadline
<1> DEFINE e == [requests[r] EXCEPT !.waitKeys = {}]
<1>1. r \in Slot /\ UNCHANGED <<registered, completed, aliases>>
      /\ requests' = IF r \in Queued THEN [requests EXCEPT ![r] = e] ELSE requests
  BY SlotFacts DEF EndWait
<1>2. requests \in [Slot -> Entries] /\ requests[r] \in Entries
      /\ InUse(aliases, requests[r].key) /\ (r \notin registered => requests[r] = Fresh)
      /\ Current(aliases, requests)
  BY <1>1, LedgerFacts DEF Ledger
<1>3. e \in Entries /\ e.key = requests[r].key /\ e.waitKeys = {}
      /\ e.rejected = requests[r].rejected /\ e.dispatched = requests[r].dispatched
      /\ e.deadline = requests[r].deadline
  BY <1>2 DEF Entries
<1>4. requests[r] = Fresh => e = Fresh
  <2>1. [Fresh EXCEPT !.waitKeys = {}] = Fresh
    BY DEF Fresh
  <2> QED BY <2>1
<1> HIDE DEF e
<1>5. Current(aliases, requests') /\ \A x \in Slot \ registered : requests'[x] = Fresh
  <2>1. Current(aliases, requests')
    BY <1>1, <1>2, <1>3, CurrentEntry
  <2> QED BY <2>1, <1>1, <1>2, <1>4, LedgerFacts
<1>6. Ledger'
  BY <1>1, <1>5 DEF Ledger, Entered, Current, Settled, InUse
<1> QED BY <1>1, <1>2, <1>3, <1>6

\* The terminal callback leaves nothing of the execution.
LEMMA LedgerComplete ==
  ASSUME Ledger, NEW r \in Request, Complete(r)
  PROVE  Ledger' /\ requests'[r] = Fresh /\ \A x \in Slot \ {r} : requests'[x] = requests[x]
<1>1. r \in Slot /\ Current(aliases, requests) /\ requests \in [Slot -> Entries]
  BY SlotFacts DEF Ledger, Current
<1>2. requests' = [requests EXCEPT ![r] = Fresh] /\ registered' = registered \ {r}
      /\ completed' = completed \cup {r} /\ aliases' = aliases
  BY DEF Complete
<1>3. Current(aliases, requests')
  BY <1>1, <1>2, FreshFacts, CurrentEntry DEF InUse
<1> QED BY <1>1, <1>2, <1>3 DEF Ledger, Entered, Current, Settled, InUse

\* An activation that ends leaves nothing behind.
LEMMA LedgerEndWarmup ==
  ASSUME Ledger, NEW w \in Warmup, EndWarmup(w)
  PROVE  Ledger' /\ requests'[w] = Fresh /\ \A x \in Slot \ {w} : requests'[x] = requests[x]
<1>1. w \in Slot /\ Current(aliases, requests) /\ requests \in [Slot -> Entries]
  BY SlotFacts DEF Ledger, Current
<1>2. requests' = [requests EXCEPT ![w] = Fresh] /\ registered' = registered \ {w}
      /\ completed' = completed /\ aliases' = aliases
  BY DEF EndWarmup
<1>3. Current(aliases, requests')
  BY <1>1, <1>2, FreshFacts, CurrentEntry DEF InUse
<1> QED BY <1>1, <1>2, <1>3 DEF Ledger, Entered, Current, Settled, InUse

\* Time only moves a deadline.
LEMMA LedgerDeadline ==
  ASSUME Ledger, NEW r \in Request, DeadlinePasses(r)
  PROVE  Ledger' /\ \A x \in Slot : requests'[x].key = requests[x].key
                                    /\ requests'[x].rejected = requests[x].rejected
                                    /\ requests'[x].dispatched = requests[x].dispatched
                                    /\ requests'[x].waitKeys = requests[x].waitKeys
                                    /\ (requests[x].deadline = "passed"
                                          => requests'[x].deadline = "passed")
<1> DEFINE e == [requests[r] EXCEPT !.deadline = "passed"]
<1>1. r \in Slot /\ UNCHANGED <<registered, completed, aliases>>
      /\ requests' = [requests EXCEPT ![r] = e] /\ requests[r].deadline = "set"
  BY SlotFacts DEF DeadlinePasses
<1>2. requests \in [Slot -> Entries] /\ requests[r] \in Entries /\ requests[r] # Fresh
      /\ InUse(aliases, requests[r].key) /\ \A k \in requests[r].waitKeys : InUse(aliases, k)
  BY <1>1, LedgerFacts, FreshFacts
<1>3. e \in Entries /\ e.key = requests[r].key /\ e.waitKeys = requests[r].waitKeys
      /\ e.rejected = requests[r].rejected /\ e.dispatched = requests[r].dispatched
      /\ e.deadline = "passed"
  BY <1>2 DEF Entries
<1> HIDE DEF e
<1>4. r \in registered
  BY <1>1, <1>2, LedgerFacts
<1>5. Ledger'
  BY <1>1, <1>2, <1>3, <1>4, LedgerEntry
<1> QED BY <1>1, <1>2, <1>3, <1>5

\* Learning the names of a credential keeps the ledger, and admits nobody.
LEMMA LedgerLearn ==
  ASSUME Ledger, NEW c \in Credential
  PROVE  LET rs == Rekey(requests, aliases, c)
             a == Learn(aliases, c)
         IN  /\ Current(a, rs)
             /\ KeyFor(aliases, c) \in Nat \ {0} /\ InUse(a, KeyFor(aliases, c))
             /\ \A x \in Slot \ registered : rs[x] = Fresh
             /\ \A x \in Slot : /\ rs[x].rejected = requests[x].rejected
                                /\ rs[x].dispatched = requests[x].dispatched
                                /\ rs[x].key = IF requests[x].key = 0 THEN 0
                                               ELSE a[requests[x].key]
<1> DEFINE rs == Rekey(requests, aliases, c)
           a == Learn(aliases, c)
<1>1. Current(aliases, requests) /\ aliases \in [Alias -> Nat] /\ Settled(aliases)
  BY DEF Ledger, Current
<1>2. Current(a, rs)
  BY <1>1, RekeyCurrent
<1>3. KeyFor(aliases, c) \in Nat \ {0} /\ InUse(a, KeyFor(aliases, c))
  BY <1>1, KeyForFacts, LearnFacts
<1>4. \A x \in Slot \ registered : rs[x] = Fresh
  BY <1>1, RekeyFresh DEF Ledger, Entered
<1>5. ASSUME NEW x \in Slot
      PROVE  /\ rs[x].rejected = requests[x].rejected
             /\ rs[x].dispatched = requests[x].dispatched
             /\ rs[x].key = IF requests[x].key = 0 THEN 0 ELSE a[requests[x].key]
  <2>1. InUse(aliases, requests[x].key)
    BY LedgerFacts
  <2>2. requests[x].key # 0 => a[requests[x].key] = Rename(aliases, c, requests[x].key)
    BY <1>1, <2>1, LearnFacts
  <2>3. /\ rs[x].rejected = requests[x].rejected
        /\ rs[x].dispatched = requests[x].dispatched
        /\ rs[x].key = Rename(aliases, c, requests[x].key)
        /\ rs[x].key = 0 <=> requests[x].key = 0
    BY <1>1, RekeyEntry
  <2> HIDE DEF rs, a
  <2> QED BY <2>2, <2>3
<1> HIDE DEF rs, a
<1> QED BY <1>2, <1>3, <1>4, <1>5 DEF rs, a

\* Learning names through a status poll.
LEMMA LedgerStatus ==
  ASSUME Ledger, NEW c \in Credential, Status(c)
  PROVE  Ledger' /\ \A x \in Slot : /\ requests'[x].rejected = requests[x].rejected
                                    /\ requests'[x].dispatched = requests[x].dispatched
                                    /\ requests'[x].key = 0 <=> requests[x].key = 0
                                    /\ ~Admitted(x)
<1>1. aliases' = Learn(aliases, c) /\ requests' = Rekey(requests, aliases, c)
      /\ UNCHANGED <<registered, completed>>
  BY DEF Status
<1>2. /\ Current(aliases', requests')
      /\ \A x \in Slot \ registered : requests'[x] = Fresh
      /\ \A x \in Slot : /\ requests'[x].rejected = requests[x].rejected
                         /\ requests'[x].dispatched = requests[x].dispatched
                         /\ requests'[x].key = IF requests[x].key = 0 THEN 0
                                               ELSE aliases'[requests[x].key]
  BY <1>1, LedgerLearn
<1>3. Ledger'
  BY <1>1, <1>2 DEF Ledger, Entered, Current, Settled, InUse
<1>4. ASSUME NEW x \in Slot
      PROVE  requests'[x].key = 0 <=> requests[x].key = 0
  BY <1>1, RekeyEntry DEF Ledger
<1>5. \A x \in Slot : ~Admitted(x)
  BY <1>2 DEF Admitted
<1> QED BY <1>2, <1>3, <1>4, <1>5

\* The activation takes its slot; nobody else is touched.
LEMMA LedgerBeginWarmup ==
  ASSUME Ledger, NEW w \in Warmup, NEW c \in Credential, BeginWarmup(w, c)
  PROVE  /\ Ledger' /\ requests'[w].key = KeyFor(aliases, c)
         /\ \A x \in Slot \ {w} : /\ requests'[x].rejected = requests[x].rejected
                                  /\ requests'[x].dispatched = requests[x].dispatched
                                  /\ ~Admitted(x)
<1> DEFINE rs == Rekey(requests, aliases, c)
           k == KeyFor(aliases, c)
           e == [rs[w] EXCEPT !.key = k]
<1>1. aliases' = Learn(aliases, c) /\ registered' = registered \cup {w}
      /\ requests' = [rs EXCEPT ![w] = e] /\ completed' = completed /\ w \in Slot
  BY SlotFacts DEF BeginWarmup
<1>2. /\ Current(aliases', rs)
      /\ k \in Nat \ {0} /\ InUse(aliases', k)
      /\ \A x \in Slot \ registered : rs[x] = Fresh
      /\ \A x \in Slot : /\ rs[x].rejected = requests[x].rejected
                         /\ rs[x].dispatched = requests[x].dispatched
                         /\ rs[x].key = IF requests[x].key = 0 THEN 0
                                        ELSE aliases'[requests[x].key]
  BY <1>1, LedgerLearn
<1> HIDE DEF rs, k
<1>3. rs \in [Slot -> Entries] /\ rs[w] \in Entries /\ \A n \in rs[w].waitKeys : InUse(aliases', n)
  BY <1>1, <1>2 DEF Current
<1>4. e \in Entries /\ e.key = k /\ e.waitKeys = rs[w].waitKeys
  BY <1>2, <1>3 DEF Entries
<1> HIDE DEF e
<1>5. Current(aliases', requests')
  BY <1>1, <1>2, <1>3, <1>4, CurrentEntry
<1>6. requests'[w] = e /\ \A x \in Slot \ {w} : requests'[x] = rs[x]
  BY <1>1, <1>3
<1>7. Ledger'
  BY <1>1, <1>2, <1>5, <1>6, SlotFacts DEF Ledger, Entered, Current, Settled, InUse
<1>8. \A x \in Slot \ {w} : ~Admitted(x)
  BY <1>2, <1>6 DEF Admitted
<1> QED BY <1>2, <1>4, <1>6, <1>7, <1>8 DEF k

\* The ranking's choice takes the slot for an execution that is still registered.
LEMMA LedgerSelected ==
  ASSUME Ledger, NEW r \in Request, NEW c \in Credential \cup {NoCredential}, Selected(r, c)
  PROVE  /\ Ledger'
         /\ requests'[r].rejected = requests[r].rejected
         /\ requests'[r].dispatched = requests[r].dispatched
         /\ \A x \in Slot \ {r} : /\ requests'[x].rejected = requests[x].rejected
                                  /\ requests'[x].dispatched = requests[x].dispatched
                                  /\ ~Admitted(x)
         /\ UNCHANGED <<aliases, requests>> \/
              (r \in registered /\ c \in Credential /\ requests'[r].key = KeyFor(aliases, c))
<1>0. r \in Slot /\ UNCHANGED <<registered, completed>> /\ (c # NoCredential => c \in Credential)
  BY SlotFacts DEF Selected
<1>1. CASE c # NoCredential /\ r \in registered
  <2> DEFINE rs == Rekey(requests, aliases, c)
             k == KeyFor(aliases, c)
             served == r \in Aged
             e == [rs[r] EXCEPT !.key = k, !.served = served]
  <2>1. aliases' = Learn(aliases, c) /\ requests' = [rs EXCEPT ![r] = e] /\ c \in Credential
    BY <1>0, <1>1 DEF Selected
  <2>2. /\ Current(aliases', rs)
        /\ k \in Nat \ {0} /\ InUse(aliases', k)
        /\ \A x \in Slot \ registered : rs[x] = Fresh
        /\ \A x \in Slot : /\ rs[x].rejected = requests[x].rejected
                           /\ rs[x].dispatched = requests[x].dispatched
                           /\ rs[x].key = IF requests[x].key = 0 THEN 0
                                          ELSE aliases'[requests[x].key]
    BY <2>1, LedgerLearn
  <2>3. served \in BOOLEAN
    OBVIOUS
  <2> HIDE DEF rs, k, served
  <2>4. rs \in [Slot -> Entries] /\ rs[r] \in Entries
        /\ \A n \in rs[r].waitKeys : InUse(aliases', n)
    BY <1>0, <2>1, <2>2 DEF Current
  <2>5. e \in Entries /\ e.key = k /\ e.waitKeys = rs[r].waitKeys
        /\ e.rejected = rs[r].rejected /\ e.dispatched = rs[r].dispatched
    BY <2>2, <2>3, <2>4 DEF Entries
  <2> HIDE DEF e
  <2>6. Current(aliases', requests')
    BY <1>0, <2>1, <2>2, <2>4, <2>5, CurrentEntry
  <2>7. requests'[r] = e /\ \A x \in Slot \ {r} : requests'[x] = rs[x]
    BY <1>0, <2>1, <2>4
  <2>8. Ledger'
    BY <1>0, <1>1, <2>2, <2>6, <2>7 DEF Ledger, Entered, Current, Settled, InUse
  <2>9. \A x \in Slot \ {r} : ~Admitted(x)
    BY <2>2, <2>7 DEF Admitted
  <2> QED BY <1>0, <1>1, <2>1, <2>2, <2>5, <2>7, <2>8, <2>9 DEF k
<1>2. CASE ~(c # NoCredential /\ r \in registered)
  <2>1. UNCHANGED <<aliases, requests>>
    BY <1>2 DEF Selected
  <2>2. \A x \in Slot : ~Admitted(x)
    BY <2>1 DEF Admitted
  <2> QED BY <1>0, <2>1, <2>2 DEF Ledger, Entered, Current, Settled, InUse
<1> QED BY <1>1, <1>2

\* A turn of schedulerPick leaves the execution without a slot, whether it waits
\* or goes on to the ranking; it goes on only when it is not rejected.
LEMMA LedgerPick ==
  ASSUME Ledger, NEW r \in Request, NEW f \in Credential, NEW s \in Credential, NEW p,
         NEW skipped, Pick(r, f, s, p, skipped)
  PROVE  /\ Ledger' /\ r \in registered /\ ~requests[r].rejected
         /\ requests'[r].key = 0 /\ ~requests'[r].dispatched
         /\ \A x \in Slot \ {r} : /\ requests'[x].rejected = requests[x].rejected
                                  /\ requests'[x].dispatched = requests[x].dispatched
                                  /\ ~Admitted(x)
         /\ call'[r].at = "selecting" /\ call \in [Request -> CallStates]
              => ~requests'[r].rejected
<1> DEFINE a == Learn(Learn(aliases, f), s)
           rs == PickedRequests(r, f, s)
           candidates == {f, s}
           eligible == candidates \ skipped
           preferred == {p} \cap eligible
           busy == {c \in candidates :
                    cfg.enforced /\ Blocked(rs, queue, KeyFor(a, c), r, cfg.limit)}
           mustWait == \/ preferred # {} /\ preferred \subseteq busy
                       \/ eligible # {} /\ eligible \subseteq busy
                       \/ candidates \subseteq busy
           keys == {KeyFor(a, c) : c \in IF preferred = {} THEN eligible ELSE preferred}
<1>1. /\ aliases' = a /\ r \in registered /\ ~requests[r].rejected /\ r \in Slot
      /\ UNCHANGED <<registered, completed>>
  BY SlotFacts DEF Pick, Admissible
<1>2. /\ mustWait => /\ Enqueue(rs, queue, r, keys)
                     /\ call' = [call EXCEPT ![r] =
                               [at |-> IF requests'[r].rejected THEN "returning" ELSE "picking",
                                first |-> f, second |-> s, preferred |-> p,
                                idle |-> {}, waits |-> TRUE]]
      /\ ~mustWait => requests' = rs
  BY DEF Pick, PickedRequests, SlotGivenUp
<1>3. /\ Current(a, rs)
      /\ \A x \in Slot \ registered : x # r => rs[x] = Fresh
      /\ rs[r].key = 0 /\ ~rs[r].dispatched
      /\ rs[r].rejected = requests[r].rejected
      /\ \A c \in {f, s} : KeyFor(a, c) \in Nat \ {0} /\ InUse(a, KeyFor(a, c))
      /\ \A x \in Slot \ {r} :
             /\ rs[x].rejected = requests[x].rejected
             /\ rs[x].dispatched = requests[x].dispatched
             /\ rs[x].key = IF requests[x].key = 0 THEN 0 ELSE a[requests[x].key]
  BY PickEntries
<1> HIDE DEF a, rs
<1>4. \A k \in keys : k \in Nat /\ InUse(a, k)
  BY <1>3
<1> HIDE DEF keys, mustWait
<1>5. /\ Current(a, requests')
      /\ \A x \in Slot \ {r} : requests'[x] = rs[x]
      /\ requests'[r].key = 0 /\ ~requests'[r].dispatched
  <2>1. CASE mustWait
    BY <1>2, <1>3, <1>4, <2>1, EnqueueEntry
  <2>2. CASE ~mustWait
    BY <1>2, <1>3, <2>2
  <2> QED BY <2>1, <2>2
<1>6. Ledger'
  BY <1>1, <1>3, <1>5 DEF Ledger, Entered, Current, Settled, InUse
<1>7. \A x \in Slot \ {r} : ~Admitted(x)
  BY <1>1, <1>3, <1>5 DEF Admitted
<1>8. ASSUME call'[r].at = "selecting", call \in [Request -> CallStates]
      PROVE  ~requests'[r].rejected
  <2>1. ~mustWait
    <3>1. mustWait => call'[r].at \in {"returning", "picking"}
      BY <1>2, <1>8
    <3> QED BY <3>1, <1>8
  <2> QED BY <1>1, <1>2, <1>3, <2>1
<1> QED BY <1>1, <1>3, <1>5, <1>6, <1>7, <1>8

\* The ledger in concurrencyAfter once the names are learnt, and once the slot of
\* another credential is given up.
AfterRequests(c, old) == Rekey(Dropped(requests, old), aliases, c)
MovedRequests(r, c, old) ==
    LET k == KeyFor(aliases, c)
    IN  [AfterRequests(c, old) EXCEPT ![r].native = TRUE, ![r].key = IF @ = k THEN k ELSE 0]

\* Dropping and learning leave the others alone.
LEMMA AfterEntries ==
  ASSUME Ledger, NEW r \in Request, NEW c \in Credential, NEW old, old \subseteq registered
  PROVE  LET rs == AfterRequests(c, old)
             a == Learn(aliases, c)
         IN  /\ Current(a, rs)
             /\ KeyFor(aliases, c) \in Nat \ {0} /\ InUse(a, KeyFor(aliases, c))
             /\ \A x \in (Slot \ registered) \cup old : rs[x] = Fresh
             /\ \A x \in Slot \ old : /\ rs[x].rejected = requests[x].rejected
                                      /\ rs[x].dispatched = requests[x].dispatched
                                      /\ rs[x].key = IF requests[x].key = 0 THEN 0
                                                     ELSE a[requests[x].key]
<1> DEFINE d == Dropped(requests, old)
           rs == AfterRequests(c, old)
           a == Learn(aliases, c)
<1>1. Current(aliases, requests) /\ aliases \in [Alias -> Nat] /\ Settled(aliases)
      /\ registered \subseteq Slot /\ \A x \in Slot \ registered : requests[x] = Fresh
  BY DEF Ledger, Current, Entered
<1>2. Current(aliases, d) /\ \A x \in Slot : d[x] = IF x \in old THEN Fresh ELSE requests[x]
  BY <1>1, DroppedCurrent DEF Dropped
<1> HIDE DEF d
<1>3. Current(a, rs)
  BY <1>2, RekeyCurrent DEF AfterRequests, d
<1>4. KeyFor(aliases, c) \in Nat \ {0} /\ InUse(a, KeyFor(aliases, c))
  BY <1>1, KeyForFacts, LearnFacts
<1>5. \A x \in (Slot \ registered) \cup old : rs[x] = Fresh
  BY <1>1, <1>2, RekeyFresh DEF AfterRequests, d
<1>6. ASSUME NEW x \in Slot \ old
      PROVE  /\ rs[x].rejected = requests[x].rejected
             /\ rs[x].dispatched = requests[x].dispatched
             /\ rs[x].key = IF requests[x].key = 0 THEN 0 ELSE a[requests[x].key]
  <2>1. InUse(aliases, requests[x].key) /\ d[x] = requests[x]
    BY <1>2, LedgerFacts
  <2>2. requests[x].key # 0 => a[requests[x].key] = Rename(aliases, c, requests[x].key)
    BY <1>1, <2>1, LearnFacts
  <2>3. /\ rs[x].rejected = d[x].rejected
        /\ rs[x].dispatched = d[x].dispatched
        /\ rs[x].key = Rename(aliases, c, d[x].key)
        /\ rs[x].key = 0 <=> d[x].key = 0
    BY <1>2, RekeyEntry DEF AfterRequests, d
  <2> HIDE DEF rs, a
  <2> QED BY <2>1, <2>2, <2>3
<1> HIDE DEF rs, a
<1> QED BY <1>3, <1>4, <1>5, <1>6 DEF rs, a

\* The attempt joins the selection of its credential, without a slot of another.
LEMMA MovedEntries ==
  ASSUME NEW a, NEW c \in Credential, NEW old, Current(a, AfterRequests(c, old)),
         NEW r \in Request, KeyFor(aliases, c) \in Nat, InUse(a, KeyFor(aliases, c))
  PROVE  LET rs == AfterRequests(c, old)
             t == MovedRequests(r, c, old)
             k == KeyFor(aliases, c)
         IN  /\ Current(a, t)
             /\ \A x \in Slot \ {r} : t[x] = rs[x]
             /\ t[r].native /\ t[r].key = IF rs[r].key = k THEN k ELSE 0
             /\ t[r].dispatched = rs[r].dispatched /\ t[r].rejected = rs[r].rejected
             /\ t[r].waitKeys = rs[r].waitKeys /\ t[r].deadline = rs[r].deadline
<1> DEFINE rs == AfterRequests(c, old)
           k == KeyFor(aliases, c)
           key == IF rs[r].key = k THEN k ELSE 0
           e == [rs[r] EXCEPT !.native = TRUE, !.key = key]
           t == MovedRequests(r, c, old)
<1>1. r \in Slot /\ rs \in [Slot -> Entries] /\ rs[r] \in Entries
      /\ \A n \in rs[r].waitKeys : InUse(a, n)
  BY SlotFacts DEF Current
<1>2. key \in Nat /\ InUse(a, key)
  BY DEF InUse
<1>3. t = [rs EXCEPT ![r] = e]
  BY <1>1 DEF MovedRequests
<1> HIDE DEF rs, t, k, key
<1>4. e \in Entries /\ e.key = key /\ e.native /\ e.waitKeys = rs[r].waitKeys
      /\ e.dispatched = rs[r].dispatched /\ e.rejected = rs[r].rejected
      /\ e.deadline = rs[r].deadline
  BY <1>1, <1>2 DEF Entries
<1> HIDE DEF e
<1>5. Current(a, t)
  BY <1>1, <1>2, <1>3, <1>4, CurrentEntry DEF rs
<1>6. t[r] = e /\ \A x \in Slot \ {r} : t[x] = rs[x]
  BY <1>1, <1>3
<1> QED BY <1>4, <1>5, <1>6 DEF rs, t, k, key

\* What concurrencyAfter leaves in the ledger.
LEMMA LedgerAfter ==
  ASSUME Ledger, NEW r \in Request, NEW c \in Credential, NEW refused \in BOOLEAN,
         NEW old \in SUBSET Aged, After(r, c, refused, old)
  PROVE  /\ Ledger' /\ r \in registered' /\ r \notin old /\ old \subseteq registered
         /\ ~requests[r].rejected
         /\ \A x \in Slot \ {r} : /\ x \in registered' =>
                                       /\ requests'[x].rejected = requests[x].rejected
                                       /\ requests'[x].dispatched = requests[x].dispatched
                                  /\ ~Admitted(x)
<1> DEFINE k == KeyFor(aliases, c)
           rs == AfterRequests(c, old)
           moved == MovedRequests(r, c, old)
           native == rs[r].native \/ rs[r].key = 0
           mustWait == /\ native /\ cfg.enforced /\ moved[r].key = 0
                       /\ Blocked(moved, Without(queue, old), k, r, cfg.limit)
           a == Learn(aliases, c)
           served == r \in Aged
           dispatched(x) == x \/ ~refused
<1>1. /\ aliases' = a /\ registered' = (registered \ old) \cup {r} /\ completed' = completed
      /\ ~requests[r].rejected
      /\ \/ r \notin registered \cup completed /\ old \in SUBSET Expirable(r)
         \/ r \in registered /\ old = {}
  BY DEF After
<1>2. /\ mustWait => Enqueue(moved, Without(queue, old), r, {k})
      /\ ~mustWait => requests' =
             IF native
             THEN [moved EXCEPT ![r].key = k, ![r].served = served,
                                ![r].dispatched = dispatched(@)]
             ELSE IF cfg.enforced /\ rs[r].key # k
                  THEN [rs EXCEPT ![r].rejected = TRUE]
                  ELSE [rs EXCEPT ![r].dispatched = dispatched(@)]
  BY DEF After, AfterRequests, MovedRequests
<1>3. r \in Slot /\ r \notin old /\ old \subseteq registered
      /\ (r \notin registered => r \notin completed)
  BY <1>1, SlotFacts DEF Expirable
<1>4. /\ Current(a, rs)
      /\ k \in Nat \ {0} /\ InUse(a, k)
      /\ \A x \in (Slot \ registered) \cup old : rs[x] = Fresh
      /\ \A x \in Slot \ old : /\ rs[x].rejected = requests[x].rejected
                               /\ rs[x].dispatched = requests[x].dispatched
                               /\ rs[x].key = IF requests[x].key = 0 THEN 0
                                              ELSE a[requests[x].key]
  BY <1>3, AfterEntries
<1>5. /\ Current(a, moved)
      /\ \A x \in Slot \ {r} : moved[x] = rs[x]
  BY <1>4, MovedEntries
<1> HIDE DEF rs, moved, k, a, native, mustWait, served
<1>6. rs \in [Slot -> Entries] /\ rs[r] \in Entries /\ moved \in [Slot -> Entries]
      /\ moved[r] \in Entries /\ (\A n \in rs[r].waitKeys : InUse(a, n)) /\ InUse(a, rs[r].key)
      /\ (\A n \in moved[r].waitKeys : InUse(a, n)) /\ served \in BOOLEAN
  BY <1>3, <1>4, <1>5 DEF Current, served
<1>7. Current(a, requests') /\ \A x \in Slot \ {r} : requests'[x] = rs[x]
  <2>1. CASE mustWait
    <3>1. \A n \in {k} : n \in Nat /\ InUse(a, n)
      BY <1>4
    <3>2. Enqueue(moved, Without(queue, old), r, {k}) /\ Current(a, moved)
      BY <1>2, <1>5, <2>1
    <3>3. Current(a, requests') /\ \A x \in Slot \ {r} : requests'[x] = moved[x]
      BY <3>1, <3>2, EnqueueEntry
    <3> QED BY <1>5, <3>3
  <2>2. CASE ~mustWait /\ native
    <3> DEFINE e == [moved[r] EXCEPT !.key = k, !.served = served,
                                     !.dispatched = dispatched(@)]
    <3>1. requests' = [moved EXCEPT ![r] = e]
      BY <1>2, <1>6, <2>2
    <3>2. e \in Entries /\ e.key = k /\ e.waitKeys = moved[r].waitKeys
      BY <1>4, <1>6 DEF Entries
    <3> HIDE DEF e
    <3>3. Current(a, requests')
      BY <1>3, <1>4, <1>5, <1>6, <3>1, <3>2, CurrentEntry
    <3> QED BY <1>5, <1>6, <3>1, <3>3
  <2>3. CASE ~mustWait /\ ~native /\ cfg.enforced /\ rs[r].key # k
    <3> DEFINE e == [rs[r] EXCEPT !.rejected = TRUE]
    <3>1. requests' = [rs EXCEPT ![r] = e]
      BY <1>2, <1>6, <2>3
    <3>2. e \in Entries /\ e.key = rs[r].key /\ e.waitKeys = rs[r].waitKeys
      BY <1>6 DEF Entries
    <3> HIDE DEF e
    <3>3. Current(a, requests')
      BY <1>3, <1>4, <1>6, <3>1, <3>2, CurrentEntry
    <3> QED BY <1>6, <3>1, <3>3
  <2>4. CASE ~mustWait /\ ~native /\ ~(cfg.enforced /\ rs[r].key # k)
    <3> DEFINE e == [rs[r] EXCEPT !.dispatched = dispatched(@)]
    <3>1. requests' = [rs EXCEPT ![r] = e]
      BY <1>2, <1>6, <2>4
    <3>2. e \in Entries /\ e.key = rs[r].key /\ e.waitKeys = rs[r].waitKeys
      BY <1>6 DEF Entries
    <3> HIDE DEF e
    <3>3. Current(a, requests')
      BY <1>3, <1>4, <1>6, <3>1, <3>2, CurrentEntry
    <3> QED BY <1>6, <3>1, <3>3
  <2> QED BY <2>1, <2>2, <2>3, <2>4
<1>8. Ledger'
  BY <1>1, <1>3, <1>4, <1>7 DEF Ledger, Entered, Current, Settled, InUse
<1>9. ASSUME NEW x \in Slot \ {r} PROVE ~Admitted(x)
  <2>1. CASE x \in old
    BY <1>4, <1>7, <2>1, FreshFacts DEF Admitted
  <2>2. CASE x \notin old
    BY <1>1, <1>4, <1>7, <2>2 DEF Admitted
  <2> QED BY <2>1, <2>2
<1> QED BY <1>1, <1>3, <1>4, <1>7, <1>8, <1>9
-----------------------------------------------------------------------------
(* The queue and the calls.                                                 *)

\* q is one line of executions.
Line(q) ==
    /\ In(q) \subseteq Request /\ q \subseteq In(q) \X In(q)
    /\ \A a, b \in In(q) : <<a, b>> \in q \/ <<b, a>> \in q
    /\ \A a, b \in In(q) : <<a, b>> \in q /\ <<b, a>> \in q => a = b
    /\ \A a, b, c \in In(q) : <<a, b>> \in q /\ <<b, c>> \in q => <<a, c>> \in q

\* A call that waits has a place to give back; one at a time holds selectionMu.
CallsAgree ==
    /\ call \in [Request -> CallStates]
    /\ \A r \in Request : /\ call[r].at = "idle" => call[r] = NoCall
                          /\ call[r].at \in {"picking", "admitting", "returning"} => call[r].waits
    /\ \A r, o \in Request : call[r].at = "selecting" /\ call[o].at = "selecting" => r = o

Queueing == Line(queue) /\ CallsAgree /\ QueueIsLive

Waiters == {r \in Request : call[r].waits}

\* Pairs of a line, and who is in it.
LEMMA LinePairs ==
  ASSUME NEW q, Line(q)
  PROVE  /\ \A p \in q : p = <<p[1], p[2]>>
         /\ \A a, b : <<a, b>> \in q => a \in In(q) /\ b \in In(q)
         /\ \A a \in In(q) : <<a, a>> \in q
  BY DEF Line

\* A set of pairs with these members is a line.
LEMMA PairsLine ==
  ASSUME NEW q, NEW S, S \subseteq Request, q \subseteq S \X S, \A a \in S : <<a, a>> \in q,
         \A a, b \in S : <<a, b>> \in q \/ <<b, a>> \in q,
         \A a, b \in S : <<a, b>> \in q /\ <<b, a>> \in q => a = b,
         \A a, b, c \in S : <<a, b>> \in q /\ <<b, c>> \in q => <<a, c>> \in q
  PROVE  Line(q) /\ In(q) = S
<1>1. \A a \in S : a \in In(q)
  <2> SUFFICES ASSUME NEW a \in S PROVE \E p \in q : p[1] = a
    BY DEF In
  <2> QED BY <<a, a>>[1] = a
<1>2. In(q) \subseteq S
  BY DEF In
<1>3. In(q) = S
  BY <1>1, <1>2
<1> QED BY <1>3 DEF Line

\* Who leaves a line leaves the order of the others.
LEMMA WithoutLine ==
  ASSUME NEW q, Line(q), NEW gone
  PROVE  /\ Line(Without(q, gone)) /\ In(Without(q, gone)) = In(q) \ gone
         /\ \A a, b : <<a, b>> \in Without(q, gone) <=>
                        <<a, b>> \in q /\ a \notin gone /\ b \notin gone
<1> DEFINE w == Without(q, gone)
           S == In(q) \ gone
<1>1. \A a, b : <<a, b>> \in w <=> <<a, b>> \in q /\ a \notin gone /\ b \notin gone
  BY DEF Without
<1>2. w \subseteq S \X S
  BY LinePairs DEF Without
<1>3. S \subseteq Request /\ \A a \in S : <<a, a>> \in w
  BY <1>1, LinePairs DEF Line
<1>4. \A a, b \in S : <<a, b>> \in w \/ <<b, a>> \in w
  BY <1>1 DEF Line
<1>5. \A a, b \in S : <<a, b>> \in w /\ <<b, a>> \in w => a = b
  BY <1>1 DEF Line
<1>6. \A a, b, c \in S : <<a, b>> \in w /\ <<b, c>> \in w => <<a, c>> \in w
  BY <1>1 DEF Line
<1> HIDE DEF w, S
<1>7. Line(w) /\ In(w) = S
  BY <1>2, <1>3, <1>4, <1>5, <1>6, PairsLine
<1> QED BY <1>1, <1>7 DEF w, S

\* A newcomer joins a line at its end.
LEMMA JoinedLine ==
  ASSUME NEW q, Line(q), NEW r \in Request, r \notin In(q)
  PROVE  Line(Joined(q, r)) /\ In(Joined(q, r)) = In(q) \cup {r}
<1> DEFINE j == Joined(q, r)
           S == In(q) \cup {r}
<1>1. \A a, b : <<a, b>> \in j <=> <<a, b>> \in q \/ (a \in S /\ b = r)
  BY DEF Joined
<1>2. \A a, b : <<a, b>> \in q => a \in In(q) /\ b \in In(q)
  BY LinePairs
<1>3. j \subseteq S \X S
  BY LinePairs DEF Joined
<1>4. S \subseteq Request /\ \A a \in S : <<a, a>> \in j
  BY <1>1, LinePairs DEF Line
<1> HIDE DEF j
<1>5. \A a, b \in S : <<a, b>> \in j \/ <<b, a>> \in j
  BY <1>1 DEF Line
<1>6. \A a, b \in S : <<a, b>> \in j /\ <<b, a>> \in j => a = b
  BY <1>1, <1>2 DEF Line
<1>7. \A a, b, c \in S : <<a, b>> \in j /\ <<b, c>> \in j => <<a, c>> \in j
  BY <1>1, <1>2 DEF Line
<1> HIDE DEF S
<1>8. Line(j) /\ In(j) = S
  BY <1>3, <1>4, <1>5, <1>6, <1>7, PairsLine
<1> QED BY <1>8 DEF j, S

\* The number of waiters follows the one call that changes.
LEMMA WaitersChange ==
  ASSUME NEW r \in Request, \A x \in Request \ {r} : call'[x].waits = call[x].waits,
         call[r].waits \in BOOLEAN, call'[r].waits \in BOOLEAN
  PROVE  /\ Cardinality(Waiters) \in Nat
         /\ call'[r].waits = call[r].waits => Cardinality(Waiters') = Cardinality(Waiters)
         /\ call'[r].waits /\ ~call[r].waits => Cardinality(Waiters') = Cardinality(Waiters) + 1
         /\ ~call'[r].waits /\ call[r].waits => Cardinality(Waiters') = Cardinality(Waiters) - 1
<1>1. IsFiniteSet(Waiters)
  <2>1. IsFiniteSet(Slot) /\ Waiters \subseteq Slot
    BY SlotAssumption, SlotFacts DEF Waiters
  <2> QED BY <2>1, FS_Subset
<1>2. CASE call'[r].waits = call[r].waits
  <2>1. Waiters' = Waiters
    BY <1>2 DEF Waiters
  <2> QED BY <1>1, <1>2, <2>1, FS_CardinalityType
<1>3. CASE call'[r].waits /\ ~call[r].waits
  <2>1. Waiters' = Waiters \cup {r} /\ r \notin Waiters
    BY <1>3 DEF Waiters
  <2> QED BY <1>1, <1>3, <2>1, FS_AddElement, FS_CardinalityType
<1>4. CASE ~call'[r].waits /\ call[r].waits
  <2>1. Waiters' = Waiters \ {r} /\ r \in Waiters
    BY <1>4 DEF Waiters
  <2> QED BY <1>1, <1>4, <2>1, FS_RemoveElement, FS_CardinalityType
<1> QED BY <1>2, <1>3, <1>4

\* A call at rest holds no place.
LEMMA NoCallFacts ==
  /\ NoCall \in CallStates /\ NoCall.at = "idle" /\ NoCall.waits = FALSE /\ NoCall.idle = {}
  /\ [NoCall EXCEPT !.at = "returning", !.waits = TRUE] \in CallStates
  /\ [NoCall EXCEPT !.at = "returning", !.waits = TRUE].at = "returning"
  /\ [NoCall EXCEPT !.at = "returning", !.waits = TRUE].waits = TRUE
  BY DEF NoCall, CallStates, NoCredential

\* Steps outside the queue.
LEMMA QueueingSame ==
  ASSUME Queueing, UNCHANGED <<queue, waiting, call>>
  PROVE  Queueing'
  BY DEF Queueing, Line, In, CallsAgree, QueueIsLive, Queued

\* Executions leave the ledger, and their places with them.
LEMMA QueueingLeave ==
  ASSUME Queueing, NEW gone, queue' = Without(queue, gone), UNCHANGED <<waiting, call>>
  PROVE  Queueing'
<1>1. Line(queue') /\ In(queue') = In(queue) \ gone
  BY WithoutLine DEF Queueing
<1>2. CallsAgree'
  BY DEF Queueing, CallsAgree
<1>3. QueueIsLive'
  BY <1>1 DEF Queueing, QueueIsLive, Queued
<1>4. Line(queue)'
  BY <1>1 DEF Line, In
<1> QED BY <1>2, <1>3, <1>4 DEF Queueing

\* A call whose state becomes e agrees with the others.
LEMMA CallChange ==
  ASSUME CallsAgree, NEW r \in Request, NEW e \in CallStates,
         call' = [call EXCEPT ![r] = e],
         e.at = "idle" => e = NoCall,
         e.at \in {"picking", "admitting", "returning"} => e.waits,
         e.at = "selecting" => SelectionMuFree
  PROVE  /\ CallsAgree' /\ call'[r] = e /\ \A x \in Request \ {r} : call'[x] = call[x]
         /\ call[r].waits \in BOOLEAN /\ e.waits \in BOOLEAN
<1>1. call \in [Request -> CallStates]
  BY DEF CallsAgree
<1>2. call' \in [Request -> CallStates] /\ call'[r] = e
      /\ \A x \in Request \ {r} : call'[x] = call[x]
  BY <1>1
<1>3. call[r].waits \in BOOLEAN /\ e.waits \in BOOLEAN
  BY <1>1 DEF CallStates
<1>4. \A x \in Request : /\ call'[x].at = "idle" => call'[x] = NoCall
                         /\ call'[x].at \in {"picking", "admitting", "returning"}
                              => call'[x].waits
  BY <1>2 DEF CallsAgree
<1>5. \A x, o \in Request : call'[x].at = "selecting" /\ call'[o].at = "selecting" => x = o
  BY <1>2 DEF CallsAgree, SelectionMuFree
<1> QED BY <1>2, <1>3, <1>4, <1>5 DEF CallsAgree

\* A call that comes to its answer keeps its place until endWait.
LEMMA QueueingReturn ==
  ASSUME Queueing, NEW r \in Request, Return(r), NEW gone,
         queue' = Without(queue, gone) \/ queue' = queue, waiting' = waiting
  PROVE  /\ Queueing' /\ call'[r].at # "selecting"
         /\ \A x \in Request \ {r} : call'[x] = call[x]
<1> DEFINE e == IF call[r].waits THEN [NoCall EXCEPT !.at = "returning", !.waits = TRUE]
                                 ELSE NoCall
<1>1. call' = [call EXCEPT ![r] = e]
  BY DEF Return
<1>2. e \in CallStates /\ e.at \in {"idle", "returning"} /\ (e.at = "idle" => e = NoCall)
      /\ (e.at = "returning" => e.waits)
  BY NoCallFacts
<1>3. ASSUME call[r].waits \in BOOLEAN PROVE e.waits = call[r].waits
  <2>1. CASE call[r].waits = TRUE
    BY <2>1, NoCallFacts
  <2>2. CASE call[r].waits = FALSE
    BY <2>2, NoCallFacts
  <2> QED BY <1>3, <2>1, <2>2
<1> HIDE DEF e
<1>4. /\ CallsAgree' /\ call'[r] = e /\ \A x \in Request \ {r} : call'[x] = call[x]
      /\ call[r].waits \in BOOLEAN /\ e.waits \in BOOLEAN
  BY <1>1, <1>2, CallChange DEF Queueing
<1>5. Line(queue)' /\ In(queue') \subseteq In(queue)
  <2>1. Line(queue') /\ In(queue') \subseteq In(queue)
    BY WithoutLine DEF Queueing
  <2> QED BY <2>1 DEF Line, In
<1>6. \A x \in Request : call'[x].waits = call[x].waits
  BY <1>3, <1>4
<1>7. Cardinality(Waiters') = Cardinality(Waiters)
  BY <1>4, <1>6, WaitersChange
<1>8. QueueIsLive'
  BY <1>5, <1>6, <1>7 DEF Queueing, QueueIsLive, Queued, Waiters
<1> QED BY <1>2, <1>4, <1>5, <1>8 DEF Queueing

\* A call that has to wait takes a place, or keeps the one it has.
LEMMA QueueingEnqueue ==
  ASSUME Queueing, NEW r \in Request, NEW rs, NEW q, NEW keys, NEW gone,
         q = queue \/ q = Without(queue, gone), Enqueue(rs, q, r, keys),
         NEW e \in CallStates, e.at \in {"picking", "admitting", "returning"}, e.waits,
         call' = [call EXCEPT ![r] = e]
  PROVE  /\ Queueing' /\ call'[r] = e /\ \A x \in Request \ {r} : call'[x] = call[x]
<1>1. /\ CallsAgree' /\ call'[r] = e /\ \A x \in Request \ {r} : call'[x] = call[x]
      /\ call[r].waits \in BOOLEAN /\ e.waits \in BOOLEAN
  BY CallChange DEF Queueing
<1>2. Line(q) /\ In(q) \subseteq In(queue)
  BY WithoutLine DEF Queueing
<1>3. queue' = IF r \in Queued THEN q ELSE Joined(q, r)
  BY DEF Enqueue
<1>4. Line(queue') /\ In(queue') \subseteq In(queue) \cup {r}
  BY <1>2, <1>3, JoinedLine DEF Queued
<1>5. Line(queue)'
  BY <1>4 DEF Line, In
<1>6. /\ call[r].waits => Cardinality(Waiters') = Cardinality(Waiters)
      /\ ~call[r].waits => Cardinality(Waiters') = Cardinality(Waiters) + 1
  BY <1>1, WaitersChange
<1>7. waiting' = IF call[r].waits THEN waiting ELSE waiting + 1
  BY DEF Enqueue
<1>8. QueueIsLive'
  <2>1. \A x \in Request : x \in In(queue') => call'[x].waits
    BY <1>1, <1>4 DEF Queueing, QueueIsLive, Queued
  <2>2. waiting' = Cardinality(Waiters')
    BY <1>6, <1>7 DEF Queueing, QueueIsLive, Waiters
  <2> QED BY <2>1, <2>2 DEF QueueIsLive, Queued, Waiters
<1> QED BY <1>1, <1>5, <1>8 DEF Queueing

\* A call goes on to the ranking with the place it may have.
LEMMA QueueingSelecting ==
  ASSUME Queueing, NEW r \in Request, NEW idle \in SUBSET Credential, SelectionMuFree,
         call' = [call EXCEPT ![r] = [NoCall EXCEPT !.at = "selecting", !.idle = idle,
                                                    !.waits = call[r].waits]],
         UNCHANGED <<queue, waiting>>
  PROVE  /\ Queueing' /\ \A x \in Request \ {r} : call'[x] = call[x]
         /\ call'[r].idle = idle /\ call'[r].at = "selecting"
<1> DEFINE waits == call[r].waits
           e == [NoCall EXCEPT !.at = "selecting", !.idle = idle, !.waits = waits]
<1>1. waits \in BOOLEAN
  BY DEF Queueing, CallsAgree, CallStates
<1> HIDE DEF waits
<1>2. e \in CallStates /\ e.at = "selecting" /\ e.waits = waits /\ e.idle = idle
  BY <1>1 DEF NoCall, CallStates, NoCredential
<1>3. call' = [call EXCEPT ![r] = e]
  BY DEF waits
<1> HIDE DEF e
<1>4. /\ CallsAgree' /\ call'[r] = e /\ \A x \in Request \ {r} : call'[x] = call[x]
  BY <1>2, <1>3, CallChange DEF Queueing
<1>5. Line(queue)'
  BY DEF Queueing, Line, In
<1>6. \A x \in Request : call'[x].waits = call[x].waits
  BY <1>2, <1>4 DEF waits
<1>7. Waiters' = Waiters
  BY <1>6 DEF Waiters
<1>8. QueueIsLive'
  BY <1>6, <1>7 DEF Queueing, QueueIsLive, Queued, In, Waiters
<1> QED BY <1>2, <1>4, <1>5, <1>8 DEF Queueing

\* endWait gives the place back.
LEMMA QueueingEndWait ==
  ASSUME Queueing, NEW r \in Request, EndWait(r)
  PROVE  Queueing' /\ call'[r] = NoCall /\ \A x \in Request \ {r} : call'[x] = call[x]
<1>1. call' = [call EXCEPT ![r] = NoCall] /\ queue' = Without(queue, {r})
      /\ waiting' = waiting - 1 /\ call[r].at = "returning"
  BY DEF EndWait
<1>2. call[r].waits
  BY <1>1 DEF Queueing, CallsAgree
<1>3. /\ CallsAgree' /\ call'[r] = NoCall /\ \A x \in Request \ {r} : call'[x] = call[x]
      /\ call[r].waits \in BOOLEAN
  BY <1>1, NoCallFacts, CallChange DEF Queueing
<1>4. Line(queue') /\ In(queue') = In(queue) \ {r}
  BY <1>1, WithoutLine DEF Queueing
<1>5. Line(queue)'
  BY <1>4 DEF Line, In
<1>6. Cardinality(Waiters') = Cardinality(Waiters) - 1
  <2>1. call'[r].waits = FALSE /\ \A x \in Request \ {r} : call'[x].waits = call[x].waits
    BY <1>3, NoCallFacts
  <2> QED BY <1>2, <1>3, <2>1, WaitersChange
<1>7. QueueIsLive'
  BY <1>1, <1>3, <1>4, <1>6, NoCallFacts DEF Queueing, QueueIsLive, Queued, Waiters
<1> QED BY <1>3, <1>5, <1>7 DEF Queueing
-----------------------------------------------------------------------------
(* The invariant.                                                           *)

\* Whoever is between the two critical sections of schedulerPick has no slot
\* and has not been rejected.
SelectingIsClean ==
    \A r \in Request : call[r].at = "selecting" => ~requests[r].rejected /\ requests[r].key = 0

Inv == /\ Ledger /\ Queueing /\ SelectingIsClean
       /\ cfg \in Configs /\ detached \in BOOLEAN

\* A step leaves the attempt of x as it is: no slot, no dispatch, the same verdict.
Untouched(x) == /\ requests'[x].rejected = requests[x].rejected
                /\ requests'[x].dispatched = requests[x].dispatched
                /\ ~Admitted(x)

\* Everything starts empty.
LEMMA InvInit == Init => Inv
<1> SUFFICES ASSUME Init PROVE Inv
  OBVIOUS
<1>1. Ledger
  <2>1. aliases \in [Alias -> Nat] /\ requests \in [Slot -> Entries]
        /\ \A s \in Slot : requests[s] = Fresh
    BY FreshFacts DEF Init
  <2>2. Current(aliases, requests)
    BY <2>1, FreshFacts DEF Init, Current, Settled, InUse
  <2> QED BY <2>1, <2>2 DEF Init, Ledger, Entered
<1>2. CallsAgree
  BY NoCallFacts DEF Init, CallsAgree
<1>3. Line(queue)
  BY PairsLine DEF Init
<1>4. QueueIsLive
  <2>1. Waiters = {} /\ Queued = {}
    BY NoCallFacts DEF Init, Waiters, Queued, In
  <2> QED BY <2>1, FS_EmptySet DEF Init, QueueIsLive, Waiters
<1> QED BY <1>1, <1>2, <1>3, <1>4, NoCallFacts DEF Init, Inv, Queueing, SelectingIsClean

\* Calls and settings that stay leave whoever is selecting clean if his entry is.
LEMMA CleanKept ==
  ASSUME SelectingIsClean,
         \A x \in Request : call'[x].at = "selecting" =>
             /\ call[x].at = "selecting"
             /\ ~requests[x].rejected => ~requests'[x].rejected
             /\ requests[x].key = 0 => requests'[x].key = 0
  PROVE  SelectingIsClean'
  BY DEF SelectingIsClean

\* Nobody selects: nothing is claimed of anybody.
LEMMA CleanFree ==
  ASSUME \A x \in Request : call'[x].at # "selecting"
  PROVE  SelectingIsClean'
  BY DEF SelectingIsClean

\* A registration keeps the invariant, and whoever stays registered is left alone.
LEMMA InvBefore ==
  ASSUME Inv, NEW r \in Request, Before(r)
  PROVE  Inv' /\ \A x \in Request : x \in registered' => Untouched(x)
<1>1. PICK old \in SUBSET Expirable(r) :
         /\ registered' = (registered \ old) \cup (IF HasRoom(old) THEN {r} ELSE {})
         /\ requests' = Dropped(requests, old)
         /\ queue' = Without(queue, old)
  BY DEF Before
<1>2. /\ SelectionMuFree /\ r \notin registered /\ UNCHANGED <<call, waiting, cfg, detached>>
  BY DEF Before, settingVars
<1>3. Ledger'
  BY LedgerBefore DEF Inv
<1>4. Queueing'
  BY <1>1, <1>2, QueueingLeave DEF Inv
<1>5. SelectingIsClean'
  BY <1>2, CleanFree DEF SelectionMuFree
<1>6. \A x \in Request : x \in registered' => requests'[x] = requests[x]
  BY <1>1, <1>2, SlotFacts DEF Dropped, Expirable
<1> QED BY <1>2, <1>3, <1>4, <1>5, <1>6 DEF Inv, Untouched, Admitted

\* A pick left to the host keeps the invariant.
LEMMA InvPickMixed ==
  ASSUME Inv, NEW r \in Request, PickMixed(r)
  PROVE  Inv' /\ \A x \in Slot : Untouched(x)
<1>1. UNCHANGED <<queue, waiting, call, cfg, detached>>
  BY DEF PickMixed, settingVars
<1>2. Ledger' /\ \A x \in Slot : requests'[x].key = requests[x].key
                                 /\ requests'[x].rejected = requests[x].rejected
                                 /\ requests'[x].dispatched = requests[x].dispatched
  BY LedgerPickMixed DEF Inv
<1>3. Queueing'
  BY <1>1, QueueingSame DEF Inv
<1>4. SelectingIsClean'
  BY <1>1, <1>2, CleanKept, SlotFacts DEF Inv
<1> QED BY <1>1, <1>2, <1>3, <1>4 DEF Inv, Untouched, Admitted

\* So does an answer to a call whose execution is gone or rejected.
LEMMA InvGiveUp ==
  ASSUME Inv, NEW r \in Request, GiveUp(r)
  PROVE  Inv' /\ \A x \in Slot : Untouched(x)
<1>1. SelectionMuFree /\ Return(r)
      /\ UNCHANGED <<registered, requests, completed, aliases, queue, waiting, cfg, detached>>
  BY DEF GiveUp, gateVars, settingVars
<1>2. /\ Queueing' /\ call'[r].at # "selecting" /\ \A x \in Request \ {r} : call'[x] = call[x]
  BY <1>1, QueueingReturn DEF Inv
<1>3. SelectingIsClean'
  BY <1>1, <1>2, CleanFree DEF SelectionMuFree
<1>4. Ledger'
  BY <1>1 DEF Inv, Ledger, Current, Settled, InUse, Entered
<1> QED BY <1>1, <1>2, <1>3, <1>4 DEF Inv, Untouched, Admitted

\* The end of a wait rejects an execution that was not rejected.
LEMMA InvExpire ==
  ASSUME Inv, NEW r \in Request, Expire(r)
  PROVE  Inv' /\ \A x \in Slot : Untouched(x) \/ ~requests[x].rejected
<1>1. SelectionMuFree /\ Return(r) /\ ~requests[r].rejected
      /\ UNCHANGED <<registered, completed, aliases, queue, waiting, cfg, detached>>
  BY DEF Expire, settingVars
<1>2. /\ Queueing' /\ call'[r].at # "selecting" /\ \A x \in Request \ {r} : call'[x] = call[x]
  BY <1>1, QueueingReturn DEF Inv
<1>3. SelectingIsClean'
  BY <1>1, <1>2, CleanFree DEF SelectionMuFree
<1>4. Ledger' /\ \A x \in Slot \ {r} : requests'[x] = requests[x]
  BY LedgerExpire DEF Inv
<1> QED BY <1>1, <1>2, <1>3, <1>4 DEF Inv, Untouched, Admitted

\* A turn of schedulerPick touches only an execution that is not rejected.
LEMMA InvPick ==
  ASSUME Inv, NEW r \in Request, NEW f \in Credential, NEW s \in Credential,
         NEW p \in Credential \cup {NoCredential}, NEW skipped, Pick(r, f, s, p, skipped)
  PROVE  Inv' /\ \A x \in Slot : Untouched(x) \/ ~requests[x].rejected
<1> DEFINE a == Learn(Learn(aliases, f), s)
           rs == PickedRequests(r, f, s)
           candidates == {f, s}
           eligible == candidates \ skipped
           preferred == {p} \cap eligible
           busy == {c \in candidates :
                    cfg.enforced /\ Blocked(rs, queue, KeyFor(a, c), r, cfg.limit)}
           mustWait == \/ preferred # {} /\ preferred \subseteq busy
                       \/ eligible # {} /\ eligible \subseteq busy
                       \/ candidates \subseteq busy
           keys == {KeyFor(a, c) : c \in IF preferred = {} THEN eligible ELSE preferred}
           at == IF requests'[r].rejected THEN "returning" ELSE "picking"
           e == [at |-> at, first |-> f, second |-> s, preferred |-> p, idle |-> {}, waits |-> TRUE]
           idle == candidates \ busy
<1>1. SelectionMuFree /\ UNCHANGED <<cfg, detached>>
  BY DEF Pick, settingVars
<1>2. /\ mustWait => /\ Enqueue(rs, queue, r, keys)
                     /\ call' = [call EXCEPT ![r] = e]
      /\ ~mustWait => /\ call' = [call EXCEPT ![r] =
                            [NoCall EXCEPT !.at = "selecting", !.idle = idle,
                                           !.waits = call[r].waits]]
                      /\ UNCHANGED <<queue, waiting>>
  BY DEF Pick, PickedRequests, SlotGivenUp
<1>3. /\ Ledger' /\ ~requests[r].rejected
      /\ requests'[r].key = 0
      /\ \A x \in Slot \ {r} : Untouched(x)
      /\ call'[r].at = "selecting" => ~requests'[r].rejected
  BY LedgerPick DEF Inv, Queueing, CallsAgree, Untouched
<1>4. e \in CallStates /\ e.at = at /\ at \in {"returning", "picking"} /\ e.waits
  <2>1. f \subseteq Alias /\ s \subseteq Alias /\ p \subseteq Alias
    BY CredentialNames DEF NoCredential
  <2> QED BY <2>1 DEF CallStates
<1>5. idle \in SUBSET Credential
  OBVIOUS
<1> HIDE DEF mustWait, e, idle, keys, rs
<1>6. Queueing' /\ (\A x \in Request \ {r} : call'[x] = call[x])
  <2>1. CASE mustWait
    BY <1>2, <1>4, <2>1, QueueingEnqueue DEF Inv
  <2>2. CASE ~mustWait
    BY <1>1, <1>2, <1>5, <2>2, QueueingSelecting DEF Inv
  <2> QED BY <2>1, <2>2
<1>7. SelectingIsClean'
  BY <1>1, <1>3, <1>6 DEF SelectingIsClean, SelectionMuFree
<1> QED BY <1>1, <1>3, <1>6, <1>7 DEF Inv

\* The ranking's choice falls on an execution that is not rejected.
LEMMA InvSelected ==
  ASSUME Inv, NEW r \in Request, NEW c \in Credential \cup {NoCredential}, Selected(r, c)
  PROVE  Inv' /\ \A x \in Slot : Untouched(x) \/ ~requests[x].rejected
<1>1. /\ call[r].at = "selecting" /\ Return(r)
      /\ UNCHANGED <<registered, completed, queue, waiting, cfg, detached>>
  BY DEF Selected, settingVars
<1>2. /\ Queueing' /\ call'[r].at # "selecting" /\ \A x \in Request \ {r} : call'[x] = call[x]
  BY <1>1, QueueingReturn DEF Inv
<1>3. /\ Ledger' /\ \A x \in Slot \ {r} : Untouched(x)
  BY LedgerSelected DEF Inv, Untouched
<1>4. ~requests[r].rejected
  BY <1>1 DEF Inv, SelectingIsClean
<1>5. SelectingIsClean'
  <2>1. \A x \in Request : call'[x].at # "selecting"
    BY <1>1, <1>2 DEF Inv, Queueing, CallsAgree
  <2> QED BY <2>1, CleanFree
<1> QED BY <1>1, <1>2, <1>3, <1>4, <1>5 DEF Inv

\* concurrencyAfter touches only an execution that is not rejected.
LEMMA InvAfter ==
  ASSUME Inv, NEW r \in Request, NEW c \in Credential, NEW refused \in BOOLEAN,
         NEW old \in SUBSET Aged, After(r, c, refused, old)
  PROVE  Inv' /\ \A x \in Request : x \in registered' => Untouched(x) \/ ~requests[x].rejected
<1> DEFINE k == KeyFor(aliases, c)
           rs == AfterRequests(c, old)
           moved == MovedRequests(r, c, old)
           native == rs[r].native \/ rs[r].key = 0
           mustWait == /\ native /\ cfg.enforced /\ moved[r].key = 0
                       /\ Blocked(moved, Without(queue, old), k, r, cfg.limit)
           at == IF requests'[r].rejected THEN "returning" ELSE "admitting"
           e == [at |-> at, first |-> c, second |-> c, preferred |-> NoCredential,
                 idle |-> {}, waits |-> TRUE]
<1>1. SelectionMuFree /\ UNCHANGED <<cfg, detached>>
  BY DEF After, settingVars
<1>2. /\ mustWait => /\ Enqueue(moved, Without(queue, old), r, {k})
                     /\ call' = [call EXCEPT ![r] = e]
      /\ ~mustWait => /\ Return(r) /\ queue' = Without(queue, old) /\ waiting' = waiting
  BY DEF After, AfterRequests, MovedRequests
<1>3. /\ Ledger' /\ ~requests[r].rejected
      /\ \A x \in Slot \ {r} : x \in registered' => Untouched(x)
  BY LedgerAfter DEF Inv, Untouched
<1>4. e \in CallStates /\ e.at = at /\ at \in {"returning", "admitting"} /\ e.waits
  <2>1. c \subseteq Alias
    BY CredentialNames
  <2> QED BY <2>1 DEF CallStates, NoCredential
<1> HIDE DEF mustWait, e, moved
<1>5. Queueing' /\ call'[r].at # "selecting" /\ \A x \in Request \ {r} : call'[x] = call[x]
  <2>1. CASE mustWait
    <3>1. Queueing' /\ call'[r] = e /\ \A x \in Request \ {r} : call'[x] = call[x]
      BY <1>2, <1>4, <2>1, QueueingEnqueue DEF Inv
    <3> QED BY <1>4, <3>1
  <2>2. CASE ~mustWait
    BY <1>2, <2>2, QueueingReturn DEF Inv
  <2> QED BY <2>1, <2>2
<1>6. SelectingIsClean'
  BY <1>1, <1>5, CleanFree DEF SelectionMuFree
<1> QED BY <1>1, <1>3, <1>5, <1>6, SlotFacts DEF Inv

\* Giving the slot up keeps the invariant and every verdict.
LEMMA InvGiveUpSlot ==
  ASSUME Inv, NEW r \in Request, AfterOther(r) \/ ReleaseAttempt(r)
  PROVE  /\ Inv'
         /\ \A x \in Slot : /\ requests'[x].rejected = requests[x].rejected
                            /\ requests'[x].dispatched => requests[x].dispatched
                            /\ ~Admitted(x)
<1>1. UNCHANGED <<queue, waiting, call, cfg, detached>>
  BY DEF AfterOther, ReleaseAttempt, settingVars
<1>2. Ledger' /\ requests'[r].key = 0 /\ ~requests'[r].dispatched
      /\ requests'[r].rejected = requests[r].rejected
      /\ \A x \in Slot \ {r} : requests'[x] = requests[x]
  BY LedgerGiveUpSlot DEF Inv
<1>3. Queueing'
  BY <1>1, QueueingSame DEF Inv
<1>4. SelectingIsClean'
  BY <1>1, <1>2, CleanKept, SlotFacts DEF Inv
<1> QED BY <1>1, <1>2, <1>3, <1>4 DEF Inv, Admitted

\* endWait leaves every attempt as it is.
LEMMA InvEndWait ==
  ASSUME Inv, NEW r \in Request, EndWait(r)
  PROVE  Inv' /\ \A x \in Slot : Untouched(x)
<1>1. UNCHANGED <<cfg, detached>>
  BY DEF EndWait, settingVars
<1>2. Ledger' /\ \A x \in Slot : requests'[x].key = requests[x].key
                                 /\ requests'[x].rejected = requests[x].rejected
                                 /\ requests'[x].dispatched = requests[x].dispatched
  BY LedgerEndWait DEF Inv
<1>3. Queueing' /\ call'[r] = NoCall /\ \A x \in Request \ {r} : call'[x] = call[x]
  BY QueueingEndWait DEF Inv
<1>4. SelectingIsClean'
  BY <1>2, <1>3, CleanKept, NoCallFacts, SlotFacts DEF Inv
<1> QED BY <1>1, <1>2, <1>3, <1>4 DEF Inv, Untouched, Admitted

\* The terminal callback leaves the attempts of the others as they are.
LEMMA InvComplete ==
  ASSUME Inv, NEW r \in Request, Complete(r)
  PROVE  Inv' /\ \A x \in Request : x \in registered' => Untouched(x)
<1>1. UNCHANGED <<waiting, call, cfg, detached>> /\ queue' = Without(queue, {r})
      /\ registered' = registered \ {r}
  BY DEF Complete, settingVars
<1>2. Ledger' /\ requests'[r] = Fresh /\ \A x \in Slot \ {r} : requests'[x] = requests[x]
  BY LedgerComplete DEF Inv
<1>3. Queueing'
  BY <1>1, QueueingLeave DEF Inv
<1>4. SelectingIsClean'
  BY <1>1, <1>2, CleanKept, FreshFacts, SlotFacts DEF Inv
<1> QED BY <1>1, <1>2, <1>3, <1>4, SlotFacts DEF Inv, Untouched, Admitted

\* An activation's slot is no execution's.
LEMMA InvBeginWarmup ==
  ASSUME Inv, NEW w \in Warmup, NEW c \in Credential, BeginWarmup(w, c)
  PROVE  Inv' /\ \A x \in Request : Untouched(x)
<1>1. UNCHANGED <<queue, waiting, call, cfg, detached>> /\ SelectionMuFree
  BY DEF BeginWarmup, settingVars
<1>2. Ledger' /\ \A x \in Slot \ {w} : Untouched(x)
  BY LedgerBeginWarmup DEF Inv, Untouched
<1>3. Queueing'
  BY <1>1, QueueingSame DEF Inv
<1>4. SelectingIsClean'
  BY <1>1, CleanFree DEF SelectionMuFree
<1> QED BY <1>1, <1>2, <1>3, <1>4, SlotFacts DEF Inv

\* Neither is the one it gives back.
LEMMA InvEndWarmup ==
  ASSUME Inv, NEW w \in Warmup, EndWarmup(w)
  PROVE  Inv' /\ \A x \in Request : Untouched(x)
<1>1. UNCHANGED <<queue, waiting, call, cfg, detached>>
  BY DEF EndWarmup, settingVars
<1>2. Ledger' /\ \A x \in Slot \ {w} : requests'[x] = requests[x]
  BY LedgerEndWarmup DEF Inv
<1>3. Queueing'
  BY <1>1, QueueingSame DEF Inv
<1>4. \A x \in Request : requests'[x] = requests[x]
  BY <1>2, SlotFacts
<1>5. SelectingIsClean'
  BY <1>1, <1>4, CleanKept DEF Inv
<1> QED BY <1>1, <1>2, <1>3, <1>4, <1>5 DEF Inv, Untouched, Admitted

\* Names learnt by a poll rename slots and admit nobody.
LEMMA InvStatus ==
  ASSUME Inv, NEW c \in Credential, Status(c)
  PROVE  Inv' /\ \A x \in Slot : Untouched(x)
<1>1. UNCHANGED <<queue, waiting, call, cfg, detached>>
  BY DEF Status, settingVars
<1>2. Ledger' /\ \A x \in Slot : /\ Untouched(x)
                                 /\ requests'[x].key = 0 <=> requests[x].key = 0
                                 /\ requests'[x].rejected = requests[x].rejected
  BY LedgerStatus DEF Inv, Untouched
<1>3. Queueing'
  BY <1>1, QueueingSame DEF Inv
<1>4. SelectingIsClean'
  BY <1>1, <1>2, CleanKept, SlotFacts DEF Inv
<1> QED BY <1>1, <1>2, <1>3, <1>4 DEF Inv

\* Time alone neither admits nor rejects.
LEMMA InvDeadline ==
  ASSUME Inv, NEW r \in Request, DeadlinePasses(r)
  PROVE  Inv' /\ \A x \in Slot : Untouched(x)
<1>1. UNCHANGED <<queue, waiting, call, cfg, detached>>
  BY DEF DeadlinePasses, settingVars
<1>2. Ledger' /\ \A x \in Slot : requests'[x].key = requests[x].key
                                 /\ requests'[x].rejected = requests[x].rejected
                                 /\ requests'[x].dispatched = requests[x].dispatched
  BY LedgerDeadline DEF Inv
<1>3. Queueing'
  BY <1>1, QueueingSame DEF Inv
<1>4. SelectingIsClean'
  BY <1>1, <1>2, CleanKept, SlotFacts DEF Inv
<1> QED BY <1>1, <1>2, <1>3, <1>4 DEF Inv, Untouched, Admitted

\* Steps that leave the gate alone.
LEMMA InvOutside ==
  ASSUME Inv, UNCHANGED <<gateVars, call>>, cfg' \in Configs, detached' \in BOOLEAN
  PROVE  Inv' /\ \A x \in Slot : Untouched(x)
<1>1. Queueing'
  BY QueueingSame DEF Inv, gateVars
<1> QED BY <1>1 DEF Inv, Ledger, Current, Settled, InUse, Entered, SelectingIsClean, Untouched,
                    Admitted, gateVars

\* No step does more to a rejected execution than take its slot away.
LEMMA InvStep ==
  ASSUME Inv, [Next]_vars
  PROVE  Inv' /\ RejectionHolds
<1> DEFINE Done == Inv' /\ RejectionHolds
<1>0. /\ Inv' /\ (\A x \in Slot : Untouched(x)) => Done
      /\ Inv' /\ (\A x \in Slot : Untouched(x) \/ ~requests[x].rejected) => Done
      /\ Inv' /\ (\A x \in Request : Untouched(x)) => Done
      /\ Inv' /\ (\A x \in Request : x \in registered' => Untouched(x)) => Done
      /\ Inv' /\ (\A x \in Request : x \in registered' => Untouched(x) \/ ~requests[x].rejected)
           => Done
  BY SlotFacts DEF Untouched, RejectionHolds
<1>1. ASSUME NEW r \in Request, Before(r) PROVE Done
  BY <1>0, <1>1, InvBefore
<1>2. ASSUME NEW r \in Request, PickMixed(r) PROVE Done
  BY <1>0, <1>2, InvPickMixed
<1>3. ASSUME NEW r \in Request, PickTurn(r) PROVE Done
  <2>1. PICK f \in Credential, s \in Credential, p \in Credential \cup {NoCredential} :
          \E skipped \in SUBSET (Unstable \cap {f, s}) : Pick(r, f, s, p, skipped)
    BY <1>3 DEF PickTurn
  <2>2. PICK skipped \in SUBSET (Unstable \cap {f, s}) : Pick(r, f, s, p, skipped)
    BY <2>1
  <2> QED BY <1>0, <2>2, InvPick
<1>4. ASSUME NEW r \in Request, AfterTurn(r) PROVE Done
  BY <1>0, <1>4, InvAfter DEF AfterTurn
<1>5. ASSUME NEW r \in Request, AfterOther(r) \/ ReleaseAttempt(r) PROVE Done
  BY <1>5, InvGiveUpSlot, SlotFacts DEF RejectionHolds
<1>6. ASSUME NEW r \in Request, GiveUp(r) PROVE Done
  BY <1>0, <1>6, InvGiveUp
<1>7. ASSUME NEW r \in Request, Expire(r) PROVE Done
  BY <1>0, <1>7, InvExpire
<1>8. ASSUME NEW r \in Request, EndWait(r) PROVE Done
  BY <1>0, <1>8, InvEndWait
<1>9. ASSUME NEW r \in Request, NEW c \in Credential \cup {NoCredential}, Selected(r, c)
      PROVE  Done
  BY <1>0, <1>9, InvSelected
<1>10. ASSUME NEW r \in Request, Complete(r) PROVE Done
  BY <1>0, <1>10, InvComplete
<1>11. ASSUME NEW r \in Request, DeadlinePasses(r) PROVE Done
  BY <1>0, <1>11, InvDeadline
<1>12. ASSUME NEW w \in Warmup, EndWarmup(w) PROVE Done
  BY <1>0, <1>12, InvEndWarmup
<1>13. ASSUME NEW w \in Warmup, NEW c \in Credential, BeginWarmup(w, c) PROVE Done
  BY <1>0, <1>13, InvBeginWarmup
<1>14. ASSUME NEW c \in Credential, Status(c) PROVE Done
  BY <1>0, <1>14, InvStatus
<1>15. ASSUME NEW settings \in Configs, Configure(settings) PROVE Done
  BY <1>0, <1>15, InvOutside DEF Configure
<1>16. ASSUME Stop PROVE Done
  BY <1>0, <1>16, InvOutside DEF Stop, Inv
<1>17. ASSUME UNCHANGED vars PROVE Done
  BY <1>0, <1>17, InvOutside DEF vars, gateVars, Inv
<1> HIDE DEF Done
<1>18. ASSUME NEW r \in Request, Call(r) PROVE Done
  BY <1>18, <1>1, <1>2, <1>3, <1>4, <1>5, <1>6, <1>7, <1>8, <1>9 DEF Call
<1>19. ASSUME Environment PROVE Done
  BY <1>19, <1>5, <1>10, <1>11, <1>12, <1>13, <1>14, <1>15, <1>16 DEF Environment
<1> QED BY <1>17, <1>18, <1>19 DEF Next, Done

\* The gate keeps its invariant, for any executions, names and settings.
THEOREM InvHolds == Spec => []Inv
<1>1. Inv /\ [Next]_vars => Inv'
  BY InvStep
<1> QED BY <1>1, InvInit, PTL DEF Spec

\* Every part of the state has the shape the code gives it.
THEOREM TypeCorrect == Spec => []TypeOK
<1>1. Inv => TypeOK
  <2> SUFFICES ASSUME Inv PROVE TypeOK
    OBVIOUS
  <2>1. waiting \in Int
    <3>1. IsFiniteSet(Waiters)
      BY SlotAssumption, SlotFacts, FS_Subset DEF Waiters
    <3> QED BY <3>1, FS_CardinalityType DEF Inv, Queueing, QueueIsLive, Waiters
  <2> QED BY <2>1 DEF Inv, TypeOK, Ledger, Current, Queueing, Line, CallsAgree, Queued
<1> QED BY <1>1, InvHolds, PTL

\* A place in the queue is somebody's who still waits, and the count is theirs.
THEOREM QueueLive == Spec => []QueueIsLive
<1>1. Inv => QueueIsLive
  BY DEF Inv, Queueing
<1> QED BY <1>1, InvHolds, PTL

\* No slot is held for an execution that has ended or was never registered.
THEOREM SlotsRegistered == Spec => []SlotsBelongToRegistered
<1>1. Inv => SlotsBelongToRegistered
  BY FreshFacts DEF Inv, Ledger, Entered, SlotsBelongToRegistered
<1> QED BY <1>1, InvHolds, PTL

\* No slot or queue entry stays behind under a name that has become another.
THEOREM SlotsNamed == Spec => []SlotsUnderCurrentKey
<1>1. Inv => SlotsUnderCurrentKey
  BY DEF Inv, Ledger, Current, InUse, SlotsUnderCurrentKey
<1> QED BY <1>1, InvHolds, PTL

\* A rejection stands: no later attempt of the lifecycle is admitted or dispatched.
THEOREM RejectionsStand == Spec => RejectionsHold
<1>1. Inv /\ [Next]_vars => RejectionHolds
  BY InvStep
<1> QED BY <1>1, InvHolds, PTL DEF Spec, RejectionsHold
-----------------------------------------------------------------------------
(* The cap and the order, for callers that always name a credential alike.  *)

\* The names of a credential are all unknown, or all stand for the least.
Alike(a) == \A c \in Credential : (\A x \in c : a[x] = 0) \/ (\A x \in c : a[x] = Least(c))

\* What a pick has checked still holds when its ranking comes back.
Room ==
    \A r \in Request : call[r].at = "selecting" /\ r \in registered /\ cfg.enforced =>
        \A c \in call[r].idle : /\ Cardinality(Active(requests, Least(c))) < cfg.limit
                                /\ Ahead(requests, queue, Least(c), r) = {}

\* Then a key is the least name, and learning one touches nothing in the ledger.
LEMMA AlikeFacts ==
  ASSUME NamedAlike, NEW a \in [Alias -> Nat], Alike(a), NEW c \in Credential
  PROVE  /\ KeyFor(a, c) = Least(c) /\ Alike(Learn(a, c))
         /\ \A rs \in [Slot -> Entries] : Rekey(rs, a, c) = rs
<1>1. c # {} /\ c \subseteq Alias /\ c \subseteq Nat /\ 0 \notin c
  BY CredentialNames
<1>2. Least(c) \in c
  BY <1>1, LeastExists
<1>3. Known(a, c) \subseteq {Least(c)}
  BY DEF Known, Alike
<1>4. KeyFor(a, c) = Least(c)
  <2>1. CASE Known(a, c) = {}
    BY <2>1 DEF KeyFor
  <2>2. CASE Known(a, c) # {}
    <3>1. Known(a, c) = {Least(c)}
      BY <1>3, <2>2
    <3>2. Least({Least(c)}) = Least(c)
      <4>1. {Least(c)} \subseteq Nat /\ {Least(c)} # {}
        BY <1>1, <1>2
      <4>2. Least({Least(c)}) \in {Least(c)}
        BY <4>1, LeastExists
      <4> QED BY <4>2
    <3> QED BY <2>2, <3>1, <3>2 DEF KeyFor
  <2> QED BY <2>1, <2>2
<1>5. \A k : Rename(a, c, k) = k
  BY <1>3, <1>4 DEF Rename
<1>6. ASSUME NEW rs \in [Slot -> Entries] PROVE Rekey(rs, a, c) = rs
  <2>1. ASSUME NEW s \in Slot PROVE Rekey(rs, a, c)[s] = rs[s]
    <3>1. {Rename(a, c, k) : k \in rs[s].waitKeys} = rs[s].waitKeys
      BY <1>5
    <3>2. Rekey(rs, a, c)[s] = [rs[s] EXCEPT !.key = Rename(a, c, rs[s].key),
                                !.waitKeys = {Rename(a, c, k) : k \in rs[s].waitKeys}]
      BY DEF Rekey
    <3>3. Rekey(rs, a, c)[s] = [rs[s] EXCEPT !.key = rs[s].key, !.waitKeys = rs[s].waitKeys]
      BY <1>5, <3>1, <3>2
    <3> QED BY <3>3 DEF Entries
  <2>2. Rekey(rs, a, c) = [s \in Slot |-> Rekey(rs, a, c)[s]]
    BY DEF Rekey
  <2> QED BY <2>1, <2>2
<1>7. Alike(Learn(a, c))
  <2> SUFFICES ASSUME NEW d \in Credential
               PROVE  \/ \A x \in d : Learn(a, c)[x] = 0
                      \/ \A x \in d : Learn(a, c)[x] = Least(d)
    BY DEF Alike
  <2>1. CASE d = c
    BY <1>1, <1>4, <2>1 DEF Learn
  <2>2. CASE d # c
    <3>1. d \cap c = {} /\ d # {} /\ d \subseteq Alias /\ d \subseteq Nat /\ 0 \notin d
      BY <2>2, CredentialNames DEF NamedAlike
    <3>2. Least(d) \in d
      BY <3>1, LeastExists
    <3>3. \A x \in d : a[x] \notin Known(a, c)
      <4> SUFFICES ASSUME NEW x \in d, a[x] \in Known(a, c) PROVE FALSE
        OBVIOUS
      <4>1. a[x] = Least(c) /\ a[x] # 0
        BY <1>3 DEF Known
      <4>2. a[x] = Least(d)
        BY <4>1 DEF Alike
      <4> QED BY <1>2, <3>1, <3>2, <4>1, <4>2
    <3>4. \A x \in d : Learn(a, c)[x] = a[x]
      BY <3>1, <3>3 DEF Learn
    <3> QED BY <3>4 DEF Alike
  <2> QED BY <2>1, <2>2
<1> QED BY <1>4, <1>6, <1>7

\* The number of slots on a key.
LEMMA ActiveCount ==
  ASSUME NEW rs, NEW k
  PROVE  IsFiniteSet(Active(rs, k)) /\ Cardinality(Active(rs, k)) \in Nat
<1>1. IsFiniteSet(Active(rs, k))
  BY SlotAssumption, FS_Subset DEF Active
<1> QED BY <1>1, FS_CardinalityType

\* Slots that are given up leave no more, and one that is taken at most one more.
LEMMA ActiveChange ==
  ASSUME NEW rs, NEW rt, NEW k, NEW x \in Slot,
         \A s \in Slot \ {x} : rt[s].key \in {rs[s].key, 0}
  PROVE  /\ Cardinality(Active(rt, k)) =< Cardinality(Active(rs, k)) + 1
         /\ rt[x].key \in {rs[x].key, 0} =>
                Cardinality(Active(rt, k)) =< Cardinality(Active(rs, k))
<1>1. Active(rt, k) \subseteq Active(rs, k) \cup {x}
  BY DEF Active
<1>2. IsFiniteSet(Active(rs, k) \cup {x})
      /\ Cardinality(Active(rs, k) \cup {x}) =< Cardinality(Active(rs, k)) + 1
  <2> DEFINE S == Active(rs, k)
  <2>1. IsFiniteSet(S) /\ Cardinality(S) \in Nat
    BY ActiveCount
  <2> HIDE DEF S
  <2>2. /\ IsFiniteSet(S \cup {x})
        /\ Cardinality(S \cup {x}) = IF x \in S THEN Cardinality(S) ELSE Cardinality(S) + 1
    BY <2>1, FS_AddElement
  <2> QED BY <2>1, <2>2 DEF S
<1>3. Cardinality(Active(rt, k)) =< Cardinality(Active(rs, k) \cup {x})
  BY <1>1, <1>2, FS_Subset
<1>4. ASSUME rt[x].key \in {rs[x].key, 0}
      PROVE  Cardinality(Active(rt, k)) =< Cardinality(Active(rs, k))
  <2>1. Active(rt, k) \subseteq Active(rs, k)
    BY <1>4 DEF Active
  <2> QED BY <2>1, ActiveCount, FS_Subset
<1>5. Cardinality(Active(rt, k)) \in Int /\ Cardinality(Active(rs, k)) \in Int
      /\ Cardinality(Active(rs, k) \cup {x}) \in Int
  BY <1>2, ActiveCount, FS_CardinalityType
<1> QED BY <1>2, <1>3, <1>4, <1>5

\* Room on the keys of x's pick survives steps that take no slot and let nobody in.
LEMMA RoomKept ==
  ASSUME Room, Queueing, UNCHANGED cfg, cfg.limit \in Nat,
         \A s \in Slot : requests'[s].key \in {requests[s].key, 0},
         \A x \in Request : call'[x].at = "selecting" =>
             /\ call'[x] = call[x]
             /\ x \in registered' => x \in registered
             /\ \A o \in In(queue') : Precedes(queue, x, o) /\ x \in registered'
                                          => Precedes(queue', x, o),
         In(queue') \subseteq In(queue),
         \A o \in In(queue') :
             /\ requests'[o].waitKeys \subseteq requests[o].waitKeys
             /\ requests[o].rejected => requests'[o].rejected
             /\ requests[o].deadline = "passed" => requests'[o].deadline = "passed"
  PROVE  Room'
<1> SUFFICES ASSUME NEW x \in Request, call'[x].at = "selecting", x \in registered', cfg.enforced,
                    NEW c \in call'[x].idle
             PROVE  /\ Cardinality(Active(requests', Least(c))) < cfg.limit
                    /\ Ahead(requests', queue', Least(c), x) = {}
  BY DEF Room
<1>1. /\ Cardinality(Active(requests, Least(c))) < cfg.limit
      /\ Ahead(requests, queue, Least(c), x) = {}
  BY DEF Room
<1>2. Cardinality(Active(requests', Least(c))) =< Cardinality(Active(requests, Least(c)))
  BY ActiveChange, SlotFacts
<1>3. /\ Cardinality(Active(requests', Least(c))) \in Nat
      /\ Cardinality(Active(requests, Least(c))) \in Nat
  BY ActiveCount
<1>4. Ahead(requests', queue', Least(c), x) \subseteq Ahead(requests, queue, Least(c), x)
  BY DEF Ahead
<1> QED BY <1>1, <1>2, <1>3, <1>4

\* The limit is a number.
LEMMA LimitFacts ==
  ASSUME cfg \in Configs
  PROVE  cfg.limit \in Nat \ {0} /\ cfg.enforced \in BOOLEAN
  BY ConfigAssumption

\* A step that only gives slots up admits nobody.
LEMMA FallingAdmitsNobody ==
  ASSUME \A s \in Slot : requests'[s].key \in {requests[s].key, 0}
  PROVE  AdmissionFits /\ NotOvertaking
  BY DEF AdmissionFits, NotOvertaking, Admitted

CapInv == Inv /\ Alike(aliases) /\ Room

\* Nothing is admitted and nothing learnt at first.
LEMMA CapInit == Init => CapInv
<1> SUFFICES ASSUME Init PROVE CapInv
  OBVIOUS
<1>1. Alike(aliases)
  BY CredentialNames DEF Init, Alike
<1>2. Room
  BY NoCallFacts DEF Init, Room
<1> QED BY <1>1, <1>2, InvInit DEF CapInv

\* Whoever takes a free slot is within the cap, if he stood behind nobody.
LEMMA SlotTaken ==
  ASSUME NEW rs, NEW r \in Slot, NEW k, cfg.limit \in Nat,
         cfg.enforced => /\ Cardinality(Active(rs, k)) < cfg.limit
                         /\ Ahead(requests, queue, k, r) \cap registered' = {},
         \A s \in Slot \ {r} : requests'[s].key = rs[s].key /\ ~Admitted(s),
         Admitted(r) => requests'[r].key = k, r \notin Warmup
  PROVE  AdmissionFits /\ NotOvertaking
<1>1. Cardinality(Active(requests', k)) =< Cardinality(Active(rs, k)) + 1
  BY ActiveChange
<1>2. /\ Cardinality(Active(requests', k)) \in Nat
      /\ Cardinality(Active(rs, k)) \in Nat
  BY ActiveCount
<1> QED BY <1>1, <1>2 DEF AdmissionFits, NotOvertaking

\* What every step owes: the room of a pick, the names, the cap and the order.
Held == Room' /\ Alike(aliases') /\ AdmissionFits /\ NotOvertaking

\* A step that admits nobody fits and overtakes nobody.
LEMMA NobodyAdmitted ==
  ASSUME \A s \in Slot : ~Admitted(s)
  PROVE  AdmissionFits /\ NotOvertaking
  BY DEF AdmissionFits, NotOvertaking

\* Nobody selects: no room has to be kept.
LEMMA RoomFree ==
  ASSUME \A x \in Request : call'[x].at # "selecting"
  PROVE  Room'
  BY DEF Room

\* A registration admits nobody.
LEMMA HeldBefore ==
  ASSUME CapInv, NEW r \in Request, Before(r)
  PROVE  Held
<1>1. PICK old \in SUBSET Expirable(r) : requests' = Dropped(requests, old)
  BY DEF Before
<1>2. SelectionMuFree /\ UNCHANGED <<call, aliases>>
  BY DEF Before
<1>3. \A x \in Slot : requests'[x].key \in {requests[x].key, 0}
  BY <1>1, FreshFacts DEF Dropped
<1>4. Room'
  BY <1>2, RoomFree DEF SelectionMuFree
<1> QED BY <1>2, <1>3, <1>4, FallingAdmitsNobody DEF Held, CapInv

\* An answer, a rejection, another provider: nobody is admitted.
LEMMA HeldAnswer ==
  ASSUME CapInv, NEW r \in Request, GiveUp(r) \/ Expire(r) \/ AfterOther(r)
  PROVE  Held
<1>1. CASE GiveUp(r)
  <2>1. SelectionMuFree /\ Return(r) /\ UNCHANGED <<requests, queue, waiting, aliases>>
    BY <1>1 DEF GiveUp, gateVars
  <2>2. /\ call'[r].at # "selecting" /\ \A x \in Request \ {r} : call'[x] = call[x]
    BY <2>1, QueueingReturn DEF CapInv, Inv
  <2>3. Room'
    BY <2>1, <2>2, RoomFree DEF SelectionMuFree
  <2> QED BY <2>1, <2>3, FallingAdmitsNobody DEF Held, CapInv
<1>2. CASE Expire(r)
  <2>1. SelectionMuFree /\ Return(r) /\ UNCHANGED <<queue, waiting, aliases>>
    BY <1>2 DEF Expire
  <2>2. /\ call'[r].at # "selecting" /\ \A x \in Request \ {r} : call'[x] = call[x]
    BY <2>1, QueueingReturn DEF CapInv, Inv
  <2>3. Room'
    BY <2>1, <2>2, RoomFree DEF SelectionMuFree
  <2>4. \A x \in Slot : requests'[x].key = requests[x].key
    BY <1>2, LedgerExpire DEF CapInv, Inv
  <2> QED BY <2>1, <2>3, <2>4, FallingAdmitsNobody DEF Held, CapInv
<1>3. CASE AfterOther(r)
  <2>1. SelectionMuFree /\ UNCHANGED <<call, aliases>>
    BY <1>3 DEF AfterOther
  <2>2. Room'
    BY <2>1, RoomFree DEF SelectionMuFree
  <2>3. \A x \in Slot : requests'[x].key \in {requests[x].key, 0}
    BY <1>3, LedgerGiveUpSlot DEF CapInv, Inv
  <2> QED BY <2>1, <2>2, <2>3, FallingAdmitsNobody DEF Held, CapInv
<1> QED BY <1>1, <1>2, <1>3

\* Steps that may come between the two halves of another execution's pick.
LEMMA HeldBetween ==
  ASSUME CapInv, NEW r \in Request, PickMixed(r) \/ ReleaseAttempt(r) \/ DeadlinePasses(r)
  PROVE  Held
<1>1. UNCHANGED <<registered, queue, call, aliases, cfg>>
  BY DEF PickMixed, ReleaseAttempt, DeadlinePasses, settingVars
<1>2. \A x \in Slot : /\ requests'[x].key \in {requests[x].key, 0}
                      /\ requests'[x].rejected = requests[x].rejected
                      /\ requests'[x].waitKeys = requests[x].waitKeys
                      /\ requests[x].deadline = "passed" => requests'[x].deadline = "passed"
  <2>1. CASE PickMixed(r)
    BY <2>1, LedgerPickMixed DEF CapInv, Inv
  <2>2. CASE ReleaseAttempt(r)
    BY <2>2, LedgerGiveUpSlot, SlotFacts DEF CapInv, Inv
  <2>3. CASE DeadlinePasses(r)
    BY <2>3, LedgerDeadline DEF CapInv, Inv
  <2> QED BY <2>1, <2>2, <2>3
<1>3. In(queue) \subseteq Slot /\ cfg.limit \in Nat
  BY SlotFacts, LimitFacts DEF CapInv, Inv, Queueing, Line
<1>4. Room'
  BY <1>1, <1>2, <1>3, RoomKept, SlotFacts DEF CapInv, Inv
<1> QED BY <1>1, <1>2, <1>4, FallingAdmitsNobody DEF Held, CapInv

\* A call that returns, an execution that ends: the line only gets shorter.
LEMMA HeldLeave ==
  ASSUME CapInv, NEW r \in Request, EndWait(r) \/ Complete(r)
  PROVE  Held
<1>1. queue' = Without(queue, {r}) /\ UNCHANGED <<aliases, cfg>>
  BY DEF EndWait, Complete, settingVars
<1>2. /\ In(queue') = In(queue) \ {r}
      /\ \A a, b : <<a, b>> \in queue' <=> <<a, b>> \in queue /\ a \notin {r} /\ b \notin {r}
  BY <1>1, WithoutLine DEF CapInv, Inv, Queueing
<1>3. \A x \in Slot : /\ requests'[x].key \in {requests[x].key, 0}
                      /\ x # r => /\ requests'[x].rejected = requests[x].rejected
                                  /\ requests'[x].waitKeys \subseteq requests[x].waitKeys
                                  /\ requests'[x].deadline = requests[x].deadline
  <2>1. CASE EndWait(r)
    BY <2>1, LedgerEndWait DEF CapInv, Inv
  <2>2. CASE Complete(r)
    BY <2>2, LedgerComplete, FreshFacts DEF CapInv, Inv
  <2> QED BY <2>1, <2>2
<1>4. \A x \in Request : call'[x].at = "selecting" =>
         call'[x] = call[x] /\ (x \in registered' => x \in registered /\ x # r)
  <2>1. CASE EndWait(r)
    <3>1. call'[r] = NoCall /\ (\A x \in Request \ {r} : call'[x] = call[x])
          /\ registered' = registered
      BY <2>1, QueueingEndWait DEF CapInv, Inv, EndWait
    <3> QED BY <3>1, NoCallFacts
  <2>2. CASE Complete(r)
    BY <2>2 DEF Complete
  <2> QED BY <2>1, <2>2
<1>5. In(queue) \subseteq Slot /\ cfg.limit \in Nat
  BY SlotFacts, LimitFacts DEF CapInv, Inv, Queueing, Line
<1>6. ASSUME NEW x \in Request, x # r, NEW o \in In(queue'), Precedes(queue, x, o)
      PROVE  Precedes(queue', x, o)
  BY <1>2, <1>6 DEF Precedes
<1>7. Room'
  <2>1. Room /\ Queueing
    BY DEF CapInv, Inv
  <2> QED BY <2>1, <1>1, <1>2, <1>3, <1>4, <1>5, <1>6, RoomKept, SlotFacts
<1> QED BY <1>1, <1>3, <1>7, FallingAdmitsNobody DEF Held, CapInv

\* An activation that ends gives its slot up.
LEMMA HeldEndWarmup ==
  ASSUME CapInv, NEW w \in Warmup, EndWarmup(w)
  PROVE  Held
<1>1. registered' = registered \ {w} /\ UNCHANGED <<queue, call, aliases, cfg>>
  BY DEF EndWarmup, settingVars
<1>2. requests'[w] = Fresh /\ \A x \in Slot \ {w} : requests'[x] = requests[x]
  BY LedgerEndWarmup DEF CapInv, Inv
<1>3. \A x \in Slot : requests'[x].key \in {requests[x].key, 0}
  BY <1>2, FreshFacts
<1>4. In(queue) \subseteq Slot \ {w} /\ cfg.limit \in Nat
  BY SlotFacts, LimitFacts DEF CapInv, Inv, Queueing, Line
<1>5. Room'
  BY <1>1, <1>2, <1>3, <1>4, RoomKept, SlotFacts DEF CapInv, Inv
<1> QED BY <1>1, <1>3, <1>5, FallingAdmitsNobody DEF Held, CapInv

\* A status poll learns names, which changes nothing in the ledger.
LEMMA HeldStatus ==
  ASSUME NamedAlike, CapInv, NEW c \in Credential, Status(c)
  PROVE  Held
<1>1. /\ aliases' = Learn(aliases, c) /\ requests' = Rekey(requests, aliases, c)
      /\ UNCHANGED <<registered, queue, call, cfg>>
  BY DEF Status, settingVars
<1>2. aliases \in [Alias -> Nat] /\ requests \in [Slot -> Entries] /\ Alike(aliases)
  BY DEF CapInv, Inv, Ledger, Current
<1>3. requests' = requests /\ Alike(aliases')
  BY <1>1, <1>2, AlikeFacts
<1>4. cfg.limit \in Nat
  BY LimitFacts DEF CapInv, Inv
<1>5. Room'
  BY <1>1, <1>3, <1>4, RoomKept DEF CapInv, Inv
<1> QED BY <1>3, <1>5, FallingAdmitsNobody DEF Held

\* An activation never joins anything, and waits for everybody in line.
LEMMA HeldBeginWarmup ==
  ASSUME NamedAlike, CapInv, NEW w \in Warmup, NEW c \in Credential, BeginWarmup(w, c)
  PROVE  Held
<1> DEFINE k == KeyFor(aliases, c)
<1>1. /\ aliases \in [Alias -> Nat] /\ requests \in [Slot -> Entries] /\ Alike(aliases)
      /\ Line(queue) /\ w \in Slot
  BY SlotFacts DEF CapInv, Inv, Ledger, Current, Queueing
<1>2. Rekey(requests, aliases, c) = requests /\ Alike(Learn(aliases, c))
  BY <1>1, AlikeFacts
<1>3. /\ SelectionMuFree /\ aliases' = Learn(aliases, c) /\ call' = call
      /\ ~Blocked(requests, queue, k, Nobody, 1)
      /\ requests' = [requests EXCEPT ![w].key = k]
  BY <1>2 DEF BeginWarmup
<1> HIDE DEF k
<1>4. requests'[w].key = k /\ \A x \in Slot \ {w} : requests'[x] = requests[x]
  BY <1>1, <1>3 DEF Entries
<1>5. Cardinality(Active(requests', k)) =< 1
  <2>1. ~(Cardinality(Active(requests, k)) >= 1)
    BY <1>3 DEF Blocked
  <2>2. Cardinality(Active(requests', k)) =< Cardinality(Active(requests, k)) + 1
    BY <1>1, <1>4, ActiveChange
  <2>3. /\ Cardinality(Active(requests', k)) \in Nat
        /\ Cardinality(Active(requests, k)) \in Nat
    BY ActiveCount
  <2> QED BY <2>1, <2>2, <2>3
<1>6. Ahead(requests, queue, k, w) = {}
  <2>1. Ahead(requests, queue, k, Nobody) = {}
    BY <1>3 DEF Blocked
  <2>2. \A o \in In(queue) : o # Nobody /\ <<Nobody, o>> \notin queue
    BY <1>1, LinePairs, SlotFacts DEF Line
  <2> QED BY <2>1, <2>2 DEF Ahead, Precedes
<1>7. Room'
  BY <1>3, RoomFree DEF SelectionMuFree
<1>8. \A x \in Slot \ {w} : ~Admitted(x)
  BY <1>4 DEF Admitted
<1>9. AdmissionFits /\ NotOvertaking
  BY <1>4, <1>5, <1>6, <1>8 DEF AdmissionFits, NotOvertaking
<1> QED BY <1>2, <1>3, <1>7, <1>9 DEF Held

\* The ranking's choice finds the room that was there before it.
LEMMA HeldSelected ==
  ASSUME NamedAlike, CapInv, NEW r \in Request, NEW c \in Credential \cup {NoCredential},
         Selected(r, c)
  PROVE  Held
<1>1. /\ call[r].at = "selecting" /\ Return(r) /\ r \in Slot /\ r \notin Warmup
      /\ UNCHANGED <<registered, queue, waiting>> /\ c \in call[r].idle \cup {NoCredential}
  BY SlotFacts DEF Selected
<1>2. /\ aliases \in [Alias -> Nat] /\ requests \in [Slot -> Entries] /\ Alike(aliases)
      /\ cfg.limit \in Nat
  BY LimitFacts DEF CapInv, Inv, Ledger, Current
<1>3. Room'
  <2>1. /\ call'[r].at # "selecting" /\ \A x \in Request \ {r} : call'[x] = call[x]
    BY <1>1, QueueingReturn DEF CapInv, Inv
  <2>2. \A x \in Request : call'[x].at # "selecting"
    BY <1>1, <2>1 DEF CapInv, Inv, Queueing, CallsAgree
  <2> QED BY <2>2, RoomFree
<1>4. CASE c # NoCredential /\ r \in registered
  <2> DEFINE k == KeyFor(aliases, c)
             served == r \in Aged
  <2>1. c \in Credential /\ c \in call[r].idle
    BY <1>1, <1>4
  <2>2. k = Least(c) /\ Rekey(requests, aliases, c) = requests /\ Alike(Learn(aliases, c))
    BY <1>2, <2>1, AlikeFacts
  <2>3. aliases' = Learn(aliases, c)
        /\ requests' = [requests EXCEPT ![r].key = k, ![r].served = served]
    BY <1>4, <2>2 DEF Selected
  <2> HIDE DEF k, served
  <2>4. requests'[r].key = k /\ \A x \in Slot \ {r} : requests'[x] = requests[x]
    BY <1>1, <1>2, <2>3 DEF Entries
  <2>5. cfg.enforced => /\ Cardinality(Active(requests, k)) < cfg.limit
                        /\ Ahead(requests, queue, k, r) \cap registered' = {}
    BY <1>1, <1>4, <2>1, <2>2 DEF CapInv, Room
  <2>6. \A x \in Slot \ {r} : requests'[x].key = requests[x].key /\ ~Admitted(x)
    BY <2>4 DEF Admitted
  <2>7. AdmissionFits /\ NotOvertaking
    BY <1>1, <1>2, <2>4, <2>5, <2>6, SlotTaken
  <2> QED BY <1>3, <2>2, <2>3, <2>7 DEF Held
<1>5. CASE ~(c # NoCredential /\ r \in registered)
  <2>1. UNCHANGED <<aliases, requests>>
    BY <1>5 DEF Selected
  <2> QED BY <1>2, <1>3, <2>1, FallingAdmitsNobody DEF Held
<1> QED BY <1>4, <1>5

\* A pick takes no slot yet; those it hands to the ranking have room.
LEMMA HeldPick ==
  ASSUME NamedAlike, CapInv, NEW r \in Request, NEW f \in Credential, NEW s \in Credential,
         NEW p \in Credential \cup {NoCredential}, NEW skipped, Pick(r, f, s, p, skipped)
  PROVE  Held
<1> DEFINE a == Learn(Learn(aliases, f), s)
           rs == PickedRequests(r, f, s)
           candidates == {f, s}
           eligible == candidates \ skipped
           preferred == {p} \cap eligible
           busy == {c \in candidates :
                    cfg.enforced /\ Blocked(rs, queue, KeyFor(a, c), r, cfg.limit)}
           mustWait == \/ preferred # {} /\ preferred \subseteq busy
                       \/ eligible # {} /\ eligible \subseteq busy
                       \/ candidates \subseteq busy
           at == IF requests'[r].rejected THEN "returning" ELSE "picking"
           e == [at |-> at, first |-> f, second |-> s, preferred |-> p, idle |-> {}, waits |-> TRUE]
           idle == candidates \ busy
<1>1. SelectionMuFree /\ aliases' = a /\ cfg' = cfg /\ registered' = registered /\ r \in Slot
  BY SlotFacts DEF Pick, settingVars
<1>2. /\ mustWait => call' = [call EXCEPT ![r] = e]
      /\ ~mustWait => /\ requests' = rs
                      /\ call' = [call EXCEPT ![r] =
                            [NoCall EXCEPT !.at = "selecting", !.idle = idle,
                                           !.waits = call[r].waits]]
                      /\ UNCHANGED <<queue, waiting>>
  BY DEF Pick, PickedRequests, SlotGivenUp
<1>3. /\ aliases \in [Alias -> Nat] /\ Settled(aliases) /\ Alike(aliases) /\ cfg.limit \in Nat
      /\ Queueing /\ call \in [Request -> CallStates]
  BY LimitFacts DEF CapInv, Inv, Ledger, Current, Queueing, CallsAgree
<1>4. /\ a \in [Alias -> Nat] /\ Alike(a) /\ \A c \in candidates : KeyFor(a, c) = Least(c)
  <2>1. Learn(aliases, f) \in [Alias -> Nat] /\ Settled(Learn(aliases, f))
    BY <1>3, LearnFacts
  <2>2. Alike(Learn(aliases, f))
    BY <1>3, AlikeFacts
  <2>3. a \in [Alias -> Nat] /\ Alike(a)
    BY <2>1, <2>2, LearnFacts, AlikeFacts
  <2> HIDE DEF a
  <2> QED BY <2>3, AlikeFacts
<1>5. \A x \in Slot : ~Admitted(x)
  <2>1. requests'[r].key = 0 /\ \A x \in Slot \ {r} : ~Admitted(x)
    BY LedgerPick DEF CapInv, Inv
  <2> QED BY <2>1 DEF Admitted
<1>6. Room'
  <2>1. CASE mustWait
    <3>1. call' = [call EXCEPT ![r] = e]
      BY <1>2, <2>1
    <3>2. e.at = at /\ at \in {"picking", "returning"}
      OBVIOUS
    <3> HIDE DEF e, at, mustWait
    <3>3. \A x \in Request : call'[x].at # "selecting"
      BY <1>1, <1>3, <3>1, <3>2 DEF SelectionMuFree
    <3> QED BY <3>3, RoomFree
  <2>2. CASE ~mustWait
    <3>1. idle \in SUBSET Credential
      OBVIOUS
    <3>2. ASSUME NEW c \in idle, cfg.enforced
          PROVE  ~Blocked(rs, queue, Least(c), r, cfg.limit)
      BY <1>4, <3>2
    <3> HIDE DEF idle, mustWait, rs
    <3>3. requests' = rs /\ queue' = queue /\ call'[r].idle = idle
          /\ \A x \in Request \ {r} : call'[x] = call[x]
      BY <1>1, <1>2, <1>3, <2>2, <3>1, QueueingSelecting
    <3>4. ASSUME NEW c \in idle, cfg.enforced
          PROVE  /\ Cardinality(Active(requests', Least(c))) < cfg.limit
                 /\ Ahead(requests', queue', Least(c), r) = {}
      <4>1. Cardinality(Active(requests', Least(c))) \in Nat
        BY ActiveCount
      <4> QED BY <1>3, <3>2, <3>3, <3>4, <4>1 DEF Blocked
    <3> QED BY <1>1, <3>3, <3>4 DEF Room, SelectionMuFree
  <2> QED BY <2>1, <2>2
<1> QED BY <1>1, <1>4, <1>5, <1>6, NobodyAdmitted DEF Held

\* concurrencyAfter admits only where there is room and nobody stands before.
LEMMA HeldAfter ==
  ASSUME NamedAlike, CapInv, NEW r \in Request, NEW c \in Credential, NEW refused \in BOOLEAN,
         NEW old \in SUBSET Aged, After(r, c, refused, old)
  PROVE  Held
<1> DEFINE k == KeyFor(aliases, c)
           rs == AfterRequests(c, old)
           moved == MovedRequests(r, c, old)
           q == Without(queue, old)
           native == rs[r].native \/ rs[r].key = 0
           mustWait == /\ native /\ cfg.enforced /\ moved[r].key = 0
                       /\ Blocked(moved, q, k, r, cfg.limit)
           served == r \in Aged
           dispatched(x) == x \/ ~refused
           at == IF requests'[r].rejected THEN "returning" ELSE "admitting"
           e == [at |-> at, first |-> c, second |-> c, preferred |-> NoCredential,
                 idle |-> {}, waits |-> TRUE]
<1>1. /\ SelectionMuFree /\ aliases' = Learn(aliases, c) /\ r \in Slot /\ r \notin Warmup
      /\ registered' = (registered \ old) \cup {r} /\ r \notin old /\ old \subseteq registered
  <2>1. r \notin old /\ old \subseteq registered
    BY LedgerAfter DEF CapInv, Inv
  <2> QED BY <2>1, SlotFacts DEF After
<1>2. /\ mustWait => /\ Enqueue(moved, q, r, {k})
                     /\ call' = [call EXCEPT ![r] = e]
      /\ ~mustWait => /\ Return(r) /\ queue' = q /\ waiting' = waiting
                      /\ requests' =
                           IF native
                           THEN [moved EXCEPT ![r].key = k, ![r].served = served,
                                              ![r].dispatched = dispatched(@)]
                           ELSE IF cfg.enforced /\ rs[r].key # k
                                THEN [rs EXCEPT ![r].rejected = TRUE]
                                ELSE [rs EXCEPT ![r].dispatched = dispatched(@)]
  BY DEF After, AfterRequests, MovedRequests
<1>3. /\ aliases \in [Alias -> Nat] /\ Settled(aliases) /\ Alike(aliases) /\ cfg.limit \in Nat
      /\ Queueing /\ call \in [Request -> CallStates] /\ Line(queue) /\ Ledger
  BY LimitFacts DEF CapInv, Inv, Ledger, Current, Queueing, CallsAgree
<1>4. k \in Nat \ {0} /\ Alike(aliases')
  BY <1>1, <1>3, KeyForFacts, AlikeFacts
<1>5. \A x \in Slot : rs[x] = IF x \in old THEN Fresh ELSE requests[x]
  <2>1. Current(aliases, Dropped(requests, old))
    BY <1>3, DroppedCurrent DEF Ledger
  <2>2. rs = Dropped(requests, old)
    BY <1>3, <2>1, AlikeFacts DEF AfterRequests, Current
  <2> HIDE DEF rs
  <2> QED BY <2>2 DEF Dropped
<1>6. /\ Current(aliases', rs) /\ Current(aliases', moved) /\ InUse(aliases', k)
      /\ \A x \in Slot \ {r} : moved[x] = rs[x]
      /\ moved[r].key = IF rs[r].key = k THEN k ELSE 0
  <2>1. Current(aliases', rs) /\ k \in Nat \ {0} /\ InUse(aliases', k)
    BY <1>1, <1>3, AfterEntries
  <2> QED BY <2>1, MovedEntries
<1> HIDE DEF k, rs, moved, q, native, mustWait, served, dispatched
<1>7. rs \in [Slot -> Entries] /\ moved \in [Slot -> Entries]
  BY <1>6 DEF Current
<1>8. \A x \in Slot \ {r} : moved[x].key \in {requests[x].key, 0}
  BY <1>5, <1>6, FreshFacts
<1>9. Room'
  <2>1. ASSUME mustWait PROVE \A x \in Request : call'[x].at # "selecting"
    <3>1. call' = [call EXCEPT ![r] = e]
      BY <1>2, <2>1
    <3>2. e.at = at /\ at \in {"admitting", "returning"}
      OBVIOUS
    <3> HIDE DEF e, at
    <3> QED BY <1>1, <1>3, <3>1, <3>2 DEF SelectionMuFree
  <2>2. ASSUME ~mustWait PROVE \A x \in Request : call'[x].at # "selecting"
    <3>1. call'[r].at # "selecting" /\ \A x \in Request \ {r} : call'[x] = call[x]
      BY <1>2, <1>3, <2>2, QueueingReturn DEF q
    <3> QED BY <1>1, <3>1 DEF SelectionMuFree
  <2> QED BY <2>1, <2>2, RoomFree
<1>10. CASE mustWait
  <2>1. \A n \in {k} : n \in Nat /\ InUse(aliases', n)
    BY <1>4, <1>6
  <2>2. Enqueue(moved, q, r, {k}) /\ moved[r].key = 0
    BY <1>2, <1>10 DEF mustWait
  <2>3. requests'[r].key = 0 /\ \A x \in Slot \ {r} : requests'[x] = moved[x]
    BY <1>6, <2>1, <2>2, EnqueueEntry
  <2>4. \A x \in Slot : requests'[x].key \in {requests[x].key, 0}
    BY <1>8, <2>3
  <2> QED BY <1>4, <1>9, <2>4, FallingAdmitsNobody DEF Held
<1>11. CASE ~mustWait /\ native
  <2> DEFINE f == [moved[r] EXCEPT !.key = k, !.served = served, !.dispatched = dispatched(@)]
  <2>1. requests' = [moved EXCEPT ![r] = f]
    BY <1>1, <1>2, <1>7, <1>11
  <2>2. f.key = k
    BY <1>1, <1>7 DEF Entries
  <2> HIDE DEF f
  <2>3. requests'[r].key = k /\ \A x \in Slot \ {r} : requests'[x] = moved[x]
    BY <1>1, <1>7, <2>1, <2>2
  <2>4. CASE rs[r].key = k
    <3>1. requests'[r].key = requests[r].key
      BY <1>1, <1>5, <2>3, <2>4
    <3>2. \A x \in Slot : requests'[x].key \in {requests[x].key, 0}
      BY <1>8, <2>3, <3>1
    <3> QED BY <1>4, <1>9, <3>2, FallingAdmitsNobody DEF Held
  <2>5. CASE rs[r].key # k
    <3>1. ASSUME cfg.enforced PROVE ~Blocked(moved, q, k, r, cfg.limit)
      BY <1>4, <1>6, <1>11, <2>5, <3>1 DEF mustWait
    <3>2. ASSUME cfg.enforced
          PROVE  /\ Cardinality(Active(moved, k)) < cfg.limit
                 /\ Ahead(moved, q, k, r) = {}
      <4>1. Cardinality(Active(moved, k)) \in Nat
        BY ActiveCount
      <4> QED BY <1>3, <3>1, <3>2, <4>1 DEF Blocked
    <3>3. Ahead(requests, queue, k, r) \cap registered' \subseteq Ahead(moved, q, k, r)
      <4> SUFFICES ASSUME NEW o \in Ahead(requests, queue, k, r), o \in registered'
                   PROVE  o \in Ahead(moved, q, k, r)
        OBVIOUS
      <4>1. o \in In(queue) /\ o # r /\ o \in Slot /\ o \notin old
        BY <1>1, <1>3, SlotFacts DEF Ahead, Line
      <4>2. moved[o] = requests[o]
        BY <1>5, <1>6, <4>1
      <4>3. o \in In(q) /\ (Precedes(q, r, o) => Precedes(queue, r, o))
        BY <1>3, <4>1, WithoutLine DEF q, Precedes
      <4> QED BY <4>1, <4>2, <4>3 DEF Ahead
    <3>4. \A x \in Slot \ {r} : requests'[x].key = moved[x].key /\ ~Admitted(x)
      BY <1>8, <2>3 DEF Admitted
    <3>5. AdmissionFits /\ NotOvertaking
      BY <1>1, <1>3, <2>3, <3>2, <3>3, <3>4, SlotTaken
    <3> QED BY <1>4, <1>9, <3>5 DEF Held
  <2> QED BY <2>4, <2>5
<1>12. CASE ~mustWait /\ ~native
  <2> DEFINE f == IF cfg.enforced /\ rs[r].key # k
                  THEN [rs[r] EXCEPT !.rejected = TRUE]
                  ELSE [rs[r] EXCEPT !.dispatched = dispatched(@)]
  <2>1. requests' = [rs EXCEPT ![r] = f]
    BY <1>1, <1>2, <1>7, <1>12
  <2>2. f.key = rs[r].key
    BY <1>1, <1>7 DEF Entries
  <2> HIDE DEF f
  <2>3. requests'[r].key = rs[r].key /\ \A x \in Slot \ {r} : requests'[x] = rs[x]
    BY <1>1, <1>7, <2>1, <2>2
  <2>4. \A x \in Slot : requests'[x].key \in {requests[x].key, 0}
    BY <1>1, <1>5, <2>3, FreshFacts
  <2> QED BY <1>4, <1>9, <2>4, FallingAdmitsNobody DEF Held
<1> QED BY <1>10, <1>11, <1>12

\* A step that leaves ledger, calls and names alone keeps the room.
LEMMA HeldOutside ==
  ASSUME CapInv, UNCHANGED gateVars, UNCHANGED call, SelectionMuFree \/ cfg' = cfg
  PROVE  Held
<1>1. UNCHANGED <<requests, queue, aliases, registered>>
  BY DEF gateVars
<1>2. Room'
  <2>1. CASE SelectionMuFree
    BY <2>1, RoomFree DEF SelectionMuFree
  <2>2. CASE cfg' = cfg
    <3>1. cfg.limit \in Nat
      BY LimitFacts DEF CapInv, Inv
    <3> QED BY <1>1, <2>2, <3>1, RoomKept DEF CapInv, Inv
  <2> QED BY <2>1, <2>2
<1> QED BY <1>1, <1>2, FallingAdmitsNobody DEF Held, CapInv

\* Every step keeps the cap and the order.
LEMMA CapStep ==
  ASSUME NamedAlike, CapInv, [Next]_vars
  PROVE  CapInv' /\ AdmissionFits /\ NotOvertaking
<1>1. ASSUME NEW r \in Request, Call(r) PROVE Held
  <2>1. CASE Before(r)
    BY <2>1, HeldBefore
  <2>2. CASE PickMixed(r)
    BY <2>2, HeldBetween
  <2>3. CASE PickTurn(r)
    <3>1. PICK f \in Credential, s \in Credential, p \in Credential \cup {NoCredential} :
            \E skipped \in SUBSET (Unstable \cap {f, s}) : Pick(r, f, s, p, skipped)
      BY <2>3 DEF PickTurn
    <3>2. PICK skipped \in SUBSET (Unstable \cap {f, s}) : Pick(r, f, s, p, skipped)
      BY <3>1
    <3> QED BY <3>2, HeldPick
  <2>4. CASE AfterTurn(r)
    BY <2>4, HeldAfter DEF AfterTurn
  <2>5. CASE AfterOther(r) \/ GiveUp(r) \/ Expire(r)
    BY <2>5, HeldAnswer
  <2>6. CASE EndWait(r)
    BY <2>6, HeldLeave
  <2>7. CASE \E c \in Credential \cup {NoCredential} : Selected(r, c)
    BY <2>7, HeldSelected
  <2> QED BY <1>1, <2>1, <2>2, <2>3, <2>4, <2>5, <2>6, <2>7 DEF Call
<1>2. ASSUME Environment PROVE Held
  <2>1. ASSUME NEW r \in Request, Complete(r) PROVE Held
    BY <2>1, HeldLeave
  <2>2. ASSUME NEW r \in Request, ReleaseAttempt(r) \/ DeadlinePasses(r) PROVE Held
    BY <2>2, HeldBetween
  <2>3. ASSUME NEW w \in Warmup, EndWarmup(w) PROVE Held
    BY <2>3, HeldEndWarmup
  <2>4. ASSUME NEW w \in Warmup, NEW c \in Credential, BeginWarmup(w, c) PROVE Held
    BY <2>4, HeldBeginWarmup
  <2>5. ASSUME NEW c \in Credential, Status(c) PROVE Held
    BY <2>5, HeldStatus
  <2>6. ASSUME NEW settings \in Configs, Configure(settings) PROVE Held
    BY <2>6, HeldOutside DEF Configure
  <2>7. ASSUME Stop PROVE Held
    BY <2>7, HeldOutside DEF Stop
  <2> QED BY <1>2, <2>1, <2>2, <2>3, <2>4, <2>5, <2>6, <2>7 DEF Environment
<1>3. ASSUME UNCHANGED vars PROVE Held
  BY <1>3, HeldOutside DEF vars, gateVars
<1>4. Held
  BY <1>1, <1>2, <1>3 DEF Next
<1>5. Inv'
  BY InvStep DEF CapInv
<1> QED BY <1>4, <1>5 DEF CapInv, Held, Alike

\* No admission under enforcement makes a credential run more than its cap,
\* although g.mu is given up between the check and the slot.
THEOREM CapKept ==
  ASSUME NamedAlike
  PROVE  Spec => AdmissionsFit
<1>1. CapInv /\ [Next]_vars => CapInv' /\ AdmissionFits
  BY CapStep
<1> QED BY <1>1, CapInit, PTL DEF Spec, AdmissionsFit

\* No admission under enforcement overtakes an execution that queued earlier for
\* the same credential and may still be admitted.
THEOREM OrderKept ==
  ASSUME NamedAlike
  PROVE  Spec => NobodyOvertakes
<1>1. CapInv /\ [Next]_vars => CapInv' /\ NotOvertaking
  BY CapStep
<1> QED BY <1>1, CapInit, PTL DEF Spec, NobodyOvertakes

\* No credential has more than n slots in use; no setting allows more.
WithinCap(n) == \A k : Cardinality(Active(requests, k)) =< n
CapOf(n) == \A s \in Configs : s.enforced /\ s.limit =< n

\* A slot that nobody was admitted to keeps its key or is given up.
LEMMA KeysStay ==
  ASSUME NamedAlike, CapInv, CapInv', NEW s \in Slot, ~Admitted(s)
  PROVE  requests'[s].key \in {requests[s].key, 0}
<1> SUFFICES ASSUME requests'[s].key # 0, requests'[s].key # requests[s].key PROVE FALSE
  OBVIOUS
<1> DEFINE k == requests[s].key
<1>1. k # 0 /\ aliases'[k] = requests'[s].key
  BY DEF Admitted
<1>2. k \in Alias /\ aliases[k] = k
  BY <1>1 DEF CapInv, Inv, Ledger, Current, InUse
<1>3. PICK c \in Credential : k \in c
  BY <1>2 DEF Alias
<1>4. k = Least(c) /\ aliases'[k] \in {0, Least(c)}
  BY <1>1, <1>2, <1>3 DEF CapInv, Alike
<1> QED BY <1>1, <1>4

\* A slot more than before was admitted within the cap.
LEMMA CapHeld ==
  ASSUME NamedAlike, NEW n \in Nat, CapOf(n), CapInv, WithinCap(n), [Next]_vars
  PROVE  WithinCap(n)'
<1>1. CapInv' /\ AdmissionFits
  BY CapStep
<1>2. cfg.enforced /\ cfg.limit =< n /\ cfg.limit \in Nat \ {0}
  BY LimitFacts DEF CapInv, Inv, CapOf
<1> SUFFICES ASSUME NEW k PROVE Cardinality(Active(requests', k)) =< n
  BY DEF WithinCap
<1>3. /\ Cardinality(Active(requests', k)) \in Nat /\ Cardinality(Active(requests, k)) \in Nat
      /\ IsFiniteSet(Active(requests, k))
  BY ActiveCount
<1>4. CASE \E s \in Active(requests', k) : Admitted(s)
  <2>1. PICK s \in Active(requests', k) : Admitted(s)
    BY <1>4
  <2>2. s \in Slot /\ requests'[s].key = k
    BY <2>1 DEF Active
  <2>3. Cardinality(Active(requests', k)) =< IF s \in Warmup THEN 1 ELSE cfg.limit
    BY <1>1, <1>2, <2>1, <2>2 DEF AdmissionFits
  <2> QED BY <1>2, <1>3, <2>3
<1>5. CASE \A s \in Active(requests', k) : ~Admitted(s)
  <2>1. Active(requests', k) \subseteq Active(requests, k)
    BY <1>1, <1>5, KeysStay DEF Active
  <2>2. Cardinality(Active(requests', k)) =< Cardinality(Active(requests, k))
    BY <1>3, <2>1, FS_Subset
  <2>3. Cardinality(Active(requests, k)) =< n
    BY DEF WithinCap
  <2> QED BY <1>3, <2>2, <2>3
<1> QED BY <1>4, <1>5

\* Under settings that always enforce a cap no larger than n, no credential ever has
\* more than n slots in use, whoever took them and whatever names were learnt since.
THEOREM CapAlways ==
  ASSUME NamedAlike, NEW n \in Nat, CapOf(n)
  PROVE  Spec => []WithinCap(n)
<1>1. Init => WithinCap(n)
  <2> SUFFICES ASSUME Init, NEW k PROVE Cardinality(Active(requests, k)) =< n
    BY DEF WithinCap
  <2>1. Active(requests, k) = {}
    BY FreshFacts DEF Init, Active
  <2> QED BY <2>1, FS_EmptySet
<1>2. CapInv /\ WithinCap(n) /\ [Next]_vars => CapInv' /\ WithinCap(n)'
  BY CapHeld, CapStep
<1> QED BY <1>1, <1>2, CapInit, PTL DEF Spec
=============================================================================
