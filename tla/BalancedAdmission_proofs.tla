---------------------- MODULE BalancedAdmission_proofs ----------------------
(***************************************************************************)
(* Proofs about BalancedAdmission for any requests, conversations and      *)
(* credentials, and any limits and times: types, that a debit is counted   *)
(* once, that no running request goes uncounted, and that a conversation   *)
(* keeps its credential.                                                   *)
(*                                                                         *)
(* Nearly everything that happens to the entries and reservations only     *)
(* takes from them: they lapse, are pruned, paid or evicted.  Thinned says *)
(* what all of these leave alone, so that each part of the invariant needs *)
(* to look at four kinds of steps: one that thins, one that appends the    *)
(* entry of a pick, one that rolls a request back, one that matches a      *)
(* record.  Counted compares what is held for a credential with what is    *)
(* due to be held there: the requests that the record of no call has       *)
(* matched, among them those which are not running yet.                    *)
(***************************************************************************)
EXTENDS BalancedAdmission, TLAPS, FiniteSetTheorems, WellFoundedInduction

Marks(t) == {Never} \cup 0..t
Item(t) == [at : Marks(t), lease : {"none", "active", "expired", "settling"},
            until : Marks(t + LeaseTTL + SettleTTL), debt : [Layer -> Debt],
            base : [Layer -> Levels \cup {0}], seen : Marks(t), dropped : BOOLEAN]
Works(t) == [Request -> [Credential -> Item(t)]]
Binding(t) == {NoBinding} \cup [c : Credential, last : 0..t]
Circuit(t) == {NoCircuit} \cup [until : 0..t + Longest + AuthRetry, failures : Nat \ {0}]
Call == [life : {"new", "picking", "picked", "sent", "ended", "gone"}, c : Credential \cup {Nobody},
         s : Session \cup {Nobody}, start : Int, own : BOOLEAN, outcome : Outcomes \cup {"none"},
         matched : BOOLEAN]
Choice == [at : {"none", "rank", "reserve", "full", "check"}, r : Request \cup {Nobody},
           s : Session \cup {Nobody}, now : Nat, c : Credential \cup {Nobody}, out : SUBSET Credential,
           full : SUBSET Credential, limit : [Layer -> Int]]

\* An entry counts by itself, or by its reservation, but not when it was dropped.
Sound(i) ==
    /\ i.at # Never => i.lease \in {"none", "active", "expired"} /\ ~i.dropped
    /\ i.lease = "active" => i.at # Never \/ i.dropped
IsHeld(i) == i.at # Never \/ i.dropped
Good(w, t) == w \in Works(t) /\ \A r \in Request, c \in Credential : Sound(w[r][c])

Types ==
    /\ clock \in 0..MaxClock /\ latest \in 0..clock
    /\ quotas \in [Credential -> Reading]
    /\ Good(work, clock)
    /\ bindings \in [Session -> Binding(clock)]
    /\ circuits \in [Credential -> Circuit(clock)]
    /\ pick \in Choice
    /\ requests \in [Request -> Call]
    /\ spent \in 0..MaxEvents

Limits ==
    /\ \A c \in Credential : Cardinality(Entries(work, c)) <= MaxPending
    /\ Cardinality({s \in Session : bindings[s] # NoBinding}) <= SessionLimit

\* What is remembered is not of the future.
Times ==
    /\ \A c \in Credential : quotas[c].at <= clock /\ circuits[c].failures <= spent
    /\ \A s \in Session : bindings[s].last <= latest
    /\ pick.now <= clock
    /\ pick.at \in {"reserve", "full"} => pick.now <= latest
    /\ pick.at = "rank" => pick.full = {}

\* A request has nothing on the credentials that its pick may still choose.
Clear(r, C) == \A c \in C : ~IsHeld(work[r][c])
Lives ==
    /\ \A r \in Request :
         LET q == requests[r] IN
         /\ q.life \in {"new", "picking"} => ~q.own /\ ~q.matched /\ q.outcome = "none"
         /\ q.life \notin {"new", "picking"} => q.c \in Credential
         /\ q.life # "new" => q.s \in Session
         /\ q.outcome = "none" => ~q.matched
         /\ q.outcome # "none" => q.life \in {"sent", "ended"}
         /\ q.life = "new" => Clear(r, Credential)
    /\ pick.at # "none" => /\ pick.r \in Request /\ pick.s \in Session
                           /\ requests[pick.r].life = "picking" /\ requests[pick.r].s = pick.s
    /\ pick.at \in {"rank", "reserve", "full"} => Clear(pick.r, Candidates)
    /\ pick.at = "check" => Clear(pick.r, Candidates \ {pick.c})
    /\ pick.at \in {"reserve", "check"} => pick.c \in Candidates

Held(c) == {r \in Request : IsHeld(work[r][c])}
Due(c) == {r \in Request :
    \/ requests[r].own /\ requests[r].c = c /\ requests[r].life # "gone" /\ ~requests[r].matched
    \/ pick.at = "check" /\ pick.c = c /\ pick.r = r
    \/ work[r][c].at # Never /\ requests[r].life \in {"picking", "picked"}}
Counted == \A c \in Credential : Cardinality(Held(c)) + Cardinality(Strays(c)) >= Cardinality(Due(c))

(* The numbers and the empty records.                                       *)

\* The limits and times.
LEMMA Numbers ==
  /\ Cost \in Nat /\ Cost >= 1 /\ LeaseTTL \in Nat /\ LeaseTTL >= 1 /\ SettleTTL \in Nat /\ SettleTTL >= 1
  /\ Tolerance \in Nat /\ PendingTTL \in Nat /\ Base \in Nat /\ Longest \in Nat /\ Longest >= 1
  /\ MaxPending \in Nat /\ MaxPending >= 1 /\ SessionLimit \in Nat /\ SessionLimit >= 1
  /\ Sticky \in Nat /\ AuthRetry \in Nat /\ MaxClock \in Nat /\ MaxEvents \in Nat
  /\ Levels \subseteq Nat /\ Levels # {} /\ IsFiniteSet(Levels)
  /\ IsFiniteSet(Request) /\ IsFiniteSet(Session) /\ IsFiniteSet(Credential)
  /\ Nobody \notin Request /\ Nobody \notin Session /\ Nobody \notin Credential
  /\ Outcomes \subseteq {"used", "unused", "overload", "auth", "failed"}
<1>1. /\ {Cost, LeaseTTL, SettleTTL, Tolerance, PendingTTL, Base, Longest, MaxPending, SessionLimit}
            \subseteq Nat \ {0}
      /\ {Sticky, AuthRetry, MaxClock, MaxEvents} \subseteq Nat
  BY BalancedAdmissionAssumption
<1>2. /\ Cost \in Nat \ {0} /\ LeaseTTL \in Nat \ {0} /\ SettleTTL \in Nat \ {0} /\ Tolerance \in Nat \ {0}
      /\ PendingTTL \in Nat \ {0} /\ Base \in Nat \ {0} /\ Longest \in Nat \ {0}
      /\ MaxPending \in Nat \ {0} /\ SessionLimit \in Nat \ {0}
      /\ Sticky \in Nat /\ AuthRetry \in Nat /\ MaxClock \in Nat /\ MaxEvents \in Nat
  <2> HIDE BalancedAdmissionAssumption
  <2> QED BY <1>1
<1>3. /\ Levels \subseteq Nat /\ Levels # {} /\ IsFiniteSet(Levels)
      /\ IsFiniteSet(Request) /\ IsFiniteSet(Session) /\ IsFiniteSet(Credential)
      /\ Nobody \notin Request /\ Nobody \notin Session /\ Nobody \notin Credential
      /\ Outcomes \subseteq {"used", "unused", "overload", "auth", "failed"}
  BY BalancedAdmissionAssumption DEF AllOutcomes
<1> QED BY <1>2, <1>3

\* The fields of the records that stand for nothing.
LEMMA Empties ==
  /\ Never = -1
  /\ Unknown.at = Never /\ Unknown.left = [l \in Layer |-> 0]
  /\ Nothing.at = Never /\ Nothing.lease = "none" /\ Nothing.until = Never /\ Nothing.seen = Never
  /\ ~Nothing.dropped /\ Nothing.debt = [l \in Layer |-> 0] /\ Nothing.base = [l \in Layer |-> 0]
  /\ NoBinding.c = Nobody /\ NoBinding.last = Never
  /\ NoCircuit.until = Never /\ NoCircuit.failures = 0
  /\ NoPick.at = "none" /\ NoPick.now = 0 /\ NoPick.out = {} /\ NoPick.full = {} /\ NoPick.c = Nobody
  /\ NoPick \in Choice
  /\ Waiting \in Call /\ Waiting.life = "new" /\ ~Waiting.own /\ ~Waiting.matched /\ Waiting.outcome = "none"
  /\ Waiting.c = Nobody /\ Waiting.s = Nobody
<1>1. /\ Never = -1
      /\ Unknown.at = Never /\ Unknown.left = [l \in Layer |-> 0]
      /\ NoBinding.c = Nobody /\ NoBinding.last = Never
      /\ NoCircuit.until = Never /\ NoCircuit.failures = 0
  BY DEF Never, Unknown, NoBinding, NoCircuit
<1>2. /\ Nothing.at = Never /\ Nothing.lease = "none" /\ Nothing.until = Never /\ Nothing.seen = Never
      /\ ~Nothing.dropped /\ Nothing.debt = [l \in Layer |-> 0] /\ Nothing.base = Unknown.left
  BY DEF Nothing
<1>3. /\ NoPick.at = "none" /\ NoPick.now = 0 /\ NoPick.out = {} /\ NoPick.full = {} /\ NoPick.c = Nobody
      /\ NoPick.r = Nobody /\ NoPick.s = Nobody /\ NoPick.limit = [l \in Layer |-> 0]
  BY DEF NoPick
<1>4. NoPick \in Choice
  BY DEF NoPick, Choice
<1>5. /\ Waiting \in Call /\ Waiting.life = "new" /\ ~Waiting.own /\ ~Waiting.matched
      /\ Waiting.outcome = "none" /\ Waiting.c = Nobody /\ Waiting.s = Nobody
  BY DEF Waiting, Call, Never
<1> QED BY <1>1, <1>2, <1>3, <1>4, <1>5

(* Finite sets of numbers.                                                  *)

SmallerThan == {p \in Nat \X Nat : p[1] < p[2]}

\* Numbers have no infinite descent.
LEMMA SmallerIsWellFounded == IsWellFoundedOn(SmallerThan, Nat)
<1>1. OpToRel(<, Nat) = SmallerThan
  BY Zenon DEF OpToRel, SmallerThan
<1> QED BY <1>1, NatLessThanWellFounded

\* A set of natural numbers with a member has a least one.
LEMMA LeastExists ==
  ASSUME NEW S, S \subseteq Nat, S # {}
  PROVE  \E m \in S : \A n \in S : m <= n
<1>1. PICK m \in S : \A n \in S : <<n, m>> \notin SmallerThan
  BY SmallerIsWellFounded, WFMin
<1>2. ASSUME NEW n \in S PROVE m <= n
  <2> DEFINE p == <<n, m>>
  <2>1. p \in Nat \X Nat /\ p[1] = n /\ p[2] = m
    BY Zenon
  <2> HIDE DEF p
  <2>2. ~(p[1] < p[2])
    BY <1>1, <2>1 DEF p, SmallerThan
  <2>3. n \in Nat /\ m \in Nat
    OBVIOUS
  <2> QED BY <2>1, <2>2, <2>3
<1> QED BY <1>2

\* A bounded one has a greatest.
LEMMA GreatestExists ==
  ASSUME NEW u \in Nat, NEW S, S \subseteq 0..u, S # {}
  PROVE  \E m \in S : \A n \in S : n <= m
<1> DEFINE D == {u - x : x \in S}
<1>1. D \subseteq Nat /\ D # {}
  <2>1. \A x \in S : u - x \in Nat
    OBVIOUS
  <2> QED BY <2>1
<1>2. PICK m \in D : \A n \in D : m <= n
  <2> HIDE DEF D
  <2> QED BY <1>1, LeastExists
<1>3. PICK y \in S : m = u - y
  OBVIOUS
<1>4. ASSUME NEW x \in S PROVE x <= y
  <2>1. u - x \in D
    OBVIOUS
  <2>2. u - y <= u - x
    BY <1>2, <1>3, <2>1
  <2> QED BY <2>2
<1> QED BY <1>4

\* The greatest level is a level.
LEMMA HighestLevel == Max(Levels) \in Levels
<1> DEFINE Above(l) == {x \in Levels : l <= x}
           B == {Above(l) : l \in Levels}
<1>1. B \subseteq FiniteSubsetsOf(Levels) /\ B # {}
  <2>1. \A l \in Levels : Above(l) \in FiniteSubsetsOf(Levels)
    <3>1. \A l \in Levels : Above(l) \subseteq Levels /\ IsFiniteSet(Above(l))
      BY Numbers, FS_Subset
    <3> QED BY <3>1 DEF FiniteSubsetsOf
  <2> HIDE DEF Above
  <2> QED BY <2>1, Numbers
<1>2. PICK b \in B : \A a \in B : <<a, b>> \notin StrictSubsetOrdering(Levels)
  <2> HIDE DEF B
  <2> QED BY <1>1, FS_StrictSubsetOrderingWellFounded, WFMin
<1>3. PICK m \in Levels : b = Above(m)
  OBVIOUS
<1>4. ASSUME NEW n \in Levels PROVE m >= n
  <2>1. SUFFICES ASSUME ~(m >= n) PROVE FALSE
    OBVIOUS
  <2>2. m \in Nat /\ n \in Nat /\ m < n
    BY <2>1, Numbers
  <2>3. Above(n) \subseteq Above(m) /\ Above(n) # Above(m)
    <3>1. \A x \in Levels : n <= x => m <= x
      BY <2>2, Numbers
    <3>2. m \in Above(m) /\ m \notin Above(n)
      BY <2>2
    <3> QED BY <3>1, <3>2
  <2>4. Above(n) \in B /\ Above(n) \in SUBSET Levels /\ Above(m) \in SUBSET Levels
    OBVIOUS
  <2>5. <<Above(n), b>> \in StrictSubsetOrdering(Levels)
    <3> HIDE DEF Above
    <3> QED BY <1>3, <2>3, <2>4 DEF StrictSubsetOrdering
  <2> QED BY <1>2, <2>4, <2>5
<1> QED BY <1>4 DEF Max

(* What thins the entries and reservations.                                 *)

ThinsTo(i, j, t) ==
    j \in Item(t) /\ Sound(j) /\ j.at \in {i.at, Never} /\ (IsHeld(j) <=> IsHeld(i))
Thinned(w, v, t) ==
    Good(v, t) /\ \A r \in Request, c \in Credential : ThinsTo(w[r][c], v[r][c], t)

\* The fields of an entry.
LEMMA ItemFields ==
  ASSUME NEW t, NEW i \in Item(t)
  PROVE  /\ i = [at |-> i.at, lease |-> i.lease, until |-> i.until, debt |-> i.debt,
                 base |-> i.base, seen |-> i.seen, dropped |-> i.dropped]
         /\ i.at \in Marks(t) /\ i.lease \in {"none", "active", "expired", "settling"}
         /\ i.until \in Marks(t + LeaseTTL + SettleTTL) /\ i.debt \in [Layer -> Debt]
         /\ i.base \in [Layer -> Levels \cup {0}] /\ i.seen \in Marks(t) /\ i.dropped \in BOOLEAN
BY DEF Item

\* Nothing is an entry, also when one was dropped.
LEMMA NothingIsItem ==
  ASSUME NEW t \in Nat, NEW d \in BOOLEAN
  PROVE  [Nothing EXCEPT !.dropped = d] \in Item(t) /\ Nothing \in Item(t) /\ Sound(Nothing)
<1>1. [l \in Layer |-> 0] \in [Layer -> Debt]
  BY Numbers DEF Debt
<1>2. [l \in Layer |-> 0] \in [Layer -> Levels \cup {0}]
  OBVIOUS
<1>3. Never \in Marks(t) /\ Never \in Marks(t + LeaseTTL + SettleTTL)
  BY DEF Marks
<1>4. Nothing \in Item(t)
  BY <1>1, <1>2, <1>3, Empties DEF Item, Nothing
<1>5. [Nothing EXCEPT !.dropped = d] \in Item(t)
  BY <1>4 DEF Item
<1> QED BY <1>4, <1>5, Empties DEF Sound

\* An entry that is not in the way thins to itself.
LEMMA ItselfThins ==
  ASSUME NEW t, NEW i \in Item(t), Sound(i)
  PROVE  ThinsTo(i, i, t)
BY DEF ThinsTo

\* A settled or unneeded reservation goes, when there is no entry.
LEMMA NothingThins ==
  ASSUME NEW t \in Nat, NEW i \in Item(t), i.at = Never
  PROVE  ThinsTo(i, [Nothing EXCEPT !.dropped = i.dropped], t)
<1> DEFINE j == [Nothing EXCEPT !.dropped = i.dropped]
<1>1. j \in Item(t)
  BY ItemFields, NothingIsItem
<1>2. j.at = Never /\ j.lease = "none" /\ j.dropped = i.dropped
  BY Empties DEF Nothing
<1> HIDE DEF j
<1>3. Sound(j) /\ (IsHeld(j) <=> IsHeld(i))
  BY <1>2 DEF Sound, IsHeld
<1> QED BY <1>1, <1>2, <1>3 DEF ThinsTo, j

\* A reservation lapses (expireLocked).
LEMMA LapsedThins ==
  ASSUME NEW t \in Nat, NEW u, NEW i \in Item(t), Sound(i)
  PROVE  ThinsTo(i, Lapsed(i, u), t)
<1> DEFINE j == [i EXCEPT !.lease = IF i.at = Never THEN "none" ELSE "expired", !.until = Never]
<1>1. ASSUME i.lease = "active" PROVE ThinsTo(i, j, t)
  <2>1. Never \in Marks(t + LeaseTTL + SettleTTL)
    BY DEF Marks
  <2>2. j \in Item(t)
    BY <2>1, ItemFields DEF Item
  <2>3. j.at = i.at /\ j.dropped = i.dropped /\ j.lease = IF i.at = Never THEN "none" ELSE "expired"
    BY DEF Item
  <2> HIDE DEF j
  <2>4. Sound(j) /\ (IsHeld(j) <=> IsHeld(i))
    BY <1>1, <2>3 DEF Sound, IsHeld
  <2> QED BY <2>2, <2>3, <2>4 DEF ThinsTo
<1>2. i.lease = "settling" => i.at = Never
  BY DEF Sound
<1>3. i.lease = "settling" => ThinsTo(i, [Nothing EXCEPT !.dropped = i.dropped], t)
  BY <1>2, NothingThins
<1> QED BY <1>1, <1>3, ItselfThins DEF Lapsed

\* An entry is dropped.
LEMMA WithoutThins ==
  ASSUME NEW t \in Nat, NEW i \in Item(t), Sound(i), i.at # Never
  PROVE  ThinsTo(i, Without(i), t)
<1> DEFINE j == Without(i)
<1>1. j = [i EXCEPT !.at = Never, !.dropped = TRUE,
                    !.lease = IF i.lease = "expired" THEN "none" ELSE i.lease]
  BY DEF Without, Item
<1>2. Never \in Marks(t)
  BY DEF Marks
<1>3. j \in Item(t)
  <2>1. (IF i.lease = "expired" THEN "none" ELSE i.lease) \in {"none", "active", "expired", "settling"}
    BY ItemFields
  <2> QED BY <1>1, <1>2, <2>1 DEF Item
<1>4. j.at = Never /\ j.dropped
  BY <1>1 DEF Item
<1>5. Sound(j) /\ (IsHeld(j) <=> IsHeld(i))
  <2> HIDE DEF j
  <2> QED BY <1>4 DEF Sound, IsHeld
<1> QED BY <1>3, <1>4, <1>5 DEF ThinsTo

\* A reading pays what settles.
LEMMA PaidThins ==
  ASSUME NEW t \in Nat, NEW i \in Item(t), Sound(i), NEW reading
  PROVE  ThinsTo(i, Paid(i, reading), t)
<1> DEFINE debt == [l \in Layer |-> IF Pays(i, l, reading) THEN 0 ELSE i.debt[l]]
           j == [i EXCEPT !.debt = debt]
<1>1. debt \in [Layer -> Debt]
  BY ItemFields, Numbers DEF Debt
<1>2. ASSUME i.lease = "settling" PROVE ThinsTo(i, j, t)
  <2>1. j \in Item(t) /\ j.at = i.at /\ j.dropped = i.dropped /\ j.lease = i.lease
    <3> HIDE DEF debt
    <3> QED BY <1>1 DEF Item
  <2> HIDE DEF j
  <2>2. Sound(j) /\ (IsHeld(j) <=> IsHeld(i))
    BY <2>1 DEF Sound, IsHeld
  <2> QED BY <2>1, <2>2 DEF ThinsTo
<1>3. i.lease = "settling" => ThinsTo(i, [Nothing EXCEPT !.dropped = i.dropped], t)
  <2>1. i.lease = "settling" => i.at = Never
    BY DEF Sound
  <2> QED BY <2>1, NothingThins
<1>4. Paid(i, reading) = IF i.lease # "settling" THEN i
                         ELSE IF \A l \in Layer : debt[l] = 0 THEN [Nothing EXCEPT !.dropped = i.dropped]
                         ELSE j
  BY DEF Paid
<1> HIDE DEF debt, j
<1> QED BY <1>2, <1>3, <1>4, ItselfThins

\* All reservations lapse that are due.
LEMMA ExpiredThins ==
  ASSUME NEW t \in Nat, NEW u, NEW w, Good(w, t)
  PROVE  Thinned(w, Expired(w, u), t)
<1> DEFINE v == Expired(w, u)
<1>1. ASSUME NEW r \in Request, NEW c \in Credential
      PROVE  v[r][c] = Lapsed(w[r][c], u) /\ ThinsTo(w[r][c], Lapsed(w[r][c], u), t)
  BY LapsedThins DEF Expired, Good, Works
<1>2. v \in Works(t)
  <2>1. \A r \in Request, c \in Credential : Lapsed(w[r][c], u) \in Item(t)
    BY <1>1 DEF ThinsTo
  <2> QED BY <2>1 DEF Expired, Works
<1> HIDE DEF v
<1> QED BY <1>1, <1>2 DEF Thinned, Good, ThinsTo, v

\* Old entries go.
LEMMA FreshThins ==
  ASSUME NEW t \in Nat, NEW u, NEW C, NEW w, Good(w, t)
  PROVE  Thinned(w, Fresh(w, C, u), t)
<1> DEFINE v == Fresh(w, C, u)
           Old(r, c) == c \in C /\ w[r][c].at # Never /\ u - w[r][c].at >= PendingTTL
<1>1. ASSUME NEW r \in Request, NEW c \in Credential
      PROVE  /\ v[r][c] = IF Old(r, c) THEN Without(w[r][c]) ELSE w[r][c]
             /\ ThinsTo(w[r][c], v[r][c], t)
  <2>1. v[r][c] = IF Old(r, c) THEN Without(w[r][c]) ELSE w[r][c]
    BY DEF Fresh
  <2>2. w[r][c] \in Item(t) /\ Sound(w[r][c])
    BY DEF Good, Works
  <2>3. Old(r, c) => w[r][c].at # Never
    OBVIOUS
  <2> HIDE DEF Old, v
  <2>4. Old(r, c) => ThinsTo(w[r][c], Without(w[r][c]), t)
    BY <2>2, <2>3, WithoutThins
  <2>5. ThinsTo(w[r][c], w[r][c], t)
    BY <2>2, ItselfThins
  <2> QED BY <2>1, <2>4, <2>5
<1>2. v \in Works(t)
  <2>1. \A r \in Request, c \in Credential : v[r][c] \in Item(t)
    BY <1>1 DEF ThinsTo
  <2>2. v = [r \in Request |-> [c \in Credential |-> v[r][c]]]
    BY DEF Fresh
  <2> HIDE DEF v
  <2> QED BY <2>1, <2>2 DEF Works
<1> HIDE DEF v
<1> QED BY <1>1, <1>2 DEF Thinned, Good, ThinsTo, v

\* One after the other.
LEMMA ThinnedTwice ==
  ASSUME NEW t, NEW w, NEW v, NEW x, Thinned(w, v, t), Thinned(v, x, t)
  PROVE  Thinned(w, x, t)
<1>1. ASSUME NEW r \in Request, NEW c \in Credential
      PROVE  ThinsTo(w[r][c], x[r][c], t)
  <2>1. ThinsTo(w[r][c], v[r][c], t) /\ ThinsTo(v[r][c], x[r][c], t)
    BY DEF Thinned
  <2> QED BY <2>1 DEF ThinsTo
<1> QED BY <1>1 DEF Thinned

\* Entries and reservations that are left alone.
LEMMA ThinnedNone ==
  ASSUME NEW t, NEW w, Good(w, t)
  PROVE  Thinned(w, w, t)
BY ItselfThins DEF Thinned, Good, Works

\* What the ranking finds.
LEMMA PrunedThins ==
  ASSUME Types
  PROVE  Thinned(work, Pruned, clock)
<1>1. Good(work, clock) /\ clock \in Nat
  BY Numbers DEF Types
<1>2. Thinned(work, Expired(work, T), clock)
  BY <1>1, ExpiredThins
<1>3. Thinned(Expired(work, T), Fresh(Expired(work, T), Candidates, T), clock)
  BY <1>1, <1>2, FreshThins DEF Thinned
<1>4. Thinned(work, Fresh(Expired(work, T), Candidates, T), clock)
  BY <1>2, <1>3, ThinnedTwice
<1> QED BY <1>2, <1>4 DEF Pruned

\* A credential has no more entries than before.
LEMMA ThinnedEntries ==
  ASSUME NEW t, NEW w, NEW v, Thinned(w, v, t), NEW c \in Credential
  PROVE  /\ Entries(v, c) \subseteq Entries(w, c)
         /\ IsFiniteSet(Entries(w, c)) /\ Cardinality(Entries(v, c)) <= Cardinality(Entries(w, c))
         /\ Cardinality(Entries(w, c)) \in Nat /\ Cardinality(Entries(v, c)) \in Nat
<1>1. \A r \in Request : v[r][c].at \in {w[r][c].at, Never}
  BY DEF Thinned, ThinsTo
<1>2. Entries(v, c) \subseteq Entries(w, c) /\ Entries(w, c) \subseteq Request
  BY <1>1 DEF Entries
<1>3. IsFiniteSet(Entries(w, c))
  BY <1>2, Numbers, FS_Subset
<1>4. IsFiniteSet(Entries(v, c)) /\ Cardinality(Entries(v, c)) <= Cardinality(Entries(w, c))
  BY <1>2, <1>3, FS_Subset
<1> QED BY <1>2, <1>3, <1>4, FS_CardinalityType

(* What a pick appends.                                                     *)

Appends(w, v, r, c, t) ==
    /\ Good(v, t) /\ v[r][c].at # Never
    /\ \A q \in Request, d \in Credential : (q = r /\ d = c) \/ ThinsTo(w[q][d], v[q][d], t)

\* The oldest of a credential's entries.
Oldest(w, c) == CHOOSE q \in Entries(w, c) : \A p \in Entries(w, c) : w[q][c].at <= w[p][c].at
Evicted(w, c) == IF Cardinality(Entries(w, c)) < MaxPending THEN {} ELSE {Oldest(w, c)}

\* The entry that gives way is one of the credential's.
LEMMA EvictedIsEntry ==
  ASSUME NEW t \in Nat, NEW w, Good(w, t), NEW c \in Credential
  PROVE  Evicted(w, c) \subseteq Entries(w, c)
<1> DEFINE E == Entries(w, c)
           A == {w[q][c].at : q \in E}
<1>1. E \subseteq Request /\ IsFiniteSet(E)
  BY Numbers, FS_Subset DEF Entries
<1>2. \A q \in E : w[q][c].at \in Nat
  <2>1. \A q \in E : w[q][c].at \in Marks(t) /\ w[q][c].at # Never
    BY ItemFields DEF Entries, Good, Works
  <2> QED BY <2>1 DEF Marks
<1>3. ASSUME ~(Cardinality(E) < MaxPending) PROVE Oldest(w, c) \in E
  <2>1. E # {}
    BY <1>3, FS_EmptySet, Numbers
  <2>2. A \subseteq Nat /\ A # {}
    BY <1>2, <2>1
  <2>3. PICK a \in A : \A b \in A : a <= b
    <3> HIDE DEF A
    <3> QED BY <2>2, LeastExists
  <2>4. \E q \in E : \A p \in E : w[q][c].at <= w[p][c].at
    BY <2>3
  <2> QED BY <2>4 DEF Oldest
<1> QED BY <1>3 DEF Evicted

\* The entry of a pick is appended, and the oldest of too many gives way.
LEMMA AppendedAppends ==
  ASSUME NEW t \in Nat, NEW w, Good(w, t), NEW r \in Request, NEW c \in Credential,
         NEW item \in Item(t), Sound(item), item.at # Never
  PROVE  Appends(w, Appended(w, r, c, item), r, c, t)
<1> DEFINE v == Appended(w, r, c, item)
<1>1. v = [q \in Request |-> [d \in Credential |->
             IF q = r /\ d = c THEN item
             ELSE IF d = c /\ q \in Evicted(w, c) THEN Without(w[q][d]) ELSE w[q][d]]]
  BY DEF Appended, Evicted, Oldest
<1> HIDE DEF v
<1>2. v[r][c] = item
  BY <1>1
<1>3. ASSUME NEW q \in Request, NEW d \in Credential, ~(q = r /\ d = c)
      PROVE  ThinsTo(w[q][d], v[q][d], t)
  <2>1. v[q][d] = IF d = c /\ q \in Evicted(w, c) THEN Without(w[q][d]) ELSE w[q][d]
    BY <1>1, <1>3
  <2>2. w[q][d] \in Item(t) /\ Sound(w[q][d])
    BY DEF Good, Works
  <2>3. d = c /\ q \in Evicted(w, c) => w[q][d].at # Never
    BY EvictedIsEntry DEF Entries
  <2> QED BY <2>1, <2>2, <2>3, WithoutThins, ItselfThins
<1>4. \A q \in Request, d \in Credential : v[q][d] \in Item(t) /\ Sound(v[q][d])
  BY <1>2, <1>3 DEF ThinsTo
<1>5. v \in Works(t)
  <2>1. v = [q \in Request |-> [d \in Credential |-> v[q][d]]]
    BY <1>1
  <2> QED BY <1>4, <2>1 DEF Works
<1> QED BY <1>2, <1>3, <1>4, <1>5 DEF Appends, Good, v

\* No credential gets more entries than MaxPending.
LEMMA AppendedEntries ==
  ASSUME NEW t \in Nat, NEW w, Good(w, t), NEW r \in Request, NEW c \in Credential, NEW item,
         \A d \in Credential : Cardinality(Entries(w, d)) <= MaxPending,
         NEW d \in Credential
  PROVE  Cardinality(Entries(Appended(w, r, c, item), d)) <= MaxPending
<1> DEFINE v == Appended(w, r, c, item)
           E == Entries(w, c)
<1>1. v = [q \in Request |-> [e \in Credential |->
             IF q = r /\ e = c THEN item
             ELSE IF e = c /\ q \in Evicted(w, c) THEN Without(w[q][e]) ELSE w[q][e]]]
  BY DEF Appended, Evicted, Oldest
<1> HIDE DEF v
<1>2. CASE d # c
  <2>1. Entries(v, d) = Entries(w, d)
    BY <1>1, <1>2 DEF Entries
  <2> QED BY <2>1 DEF v
<1>3. CASE d = c
  <2>1. \A q \in Evicted(w, c) : Without(w[q][c]).at = Never
    <3>1. ASSUME NEW q \in Evicted(w, c) PROVE Without(w[q][c]).at = Never
      <4>1. q \in Request
        BY EvictedIsEntry DEF Entries
      <4>2. w[q][c] \in Item(t)
        BY <4>1 DEF Good, Works
      <4> QED BY <4>2 DEF Item, Without
    <3> QED BY <3>1
  <2>2. Entries(v, c) \subseteq (E \ Evicted(w, c)) \cup {r}
    BY <1>1, <2>1 DEF Entries
  <2>3. E \subseteq Request /\ IsFiniteSet(E)
    BY Numbers, FS_Subset DEF Entries
  <2>4. Cardinality(E) \in Nat /\ Cardinality(E) <= MaxPending
    BY <2>3, FS_CardinalityType
  <2> HIDE DEF E
  <2> DEFINE R == E \ Evicted(w, c)
  <2>5. IsFiniteSet(R) /\ Cardinality(R) \in Nat /\ Cardinality(R) <= MaxPending - 1
    <3>1. CASE Cardinality(E) < MaxPending
      <4>1. Evicted(w, c) = {}
        BY <3>1 DEF Evicted, E
      <4>2. R = E
        BY <4>1
      <4> QED BY <4>2, <3>1, <2>3, <2>4, Numbers
    <3>2. CASE ~(Cardinality(E) < MaxPending)
      <4>1. PICK o : Evicted(w, c) = {o}
        BY <3>2 DEF Evicted, E
      <4>2. o \in E /\ R = E \ {o}
        BY <4>1, EvictedIsEntry DEF E
      <4>3. IsFiniteSet(R) /\ Cardinality(R) = Cardinality(E) - 1
        <5> HIDE DEF R
        <5> QED BY <4>2, <2>3, FS_RemoveElement
      <4>4. Cardinality(R) \in Nat
        BY <4>3, FS_CardinalityType
      <4> QED BY <4>3, <4>4, <2>4, Numbers
    <3> QED BY <3>1, <3>2
  <2> HIDE DEF R
  <2>6. IsFiniteSet(R \cup {r}) /\ Cardinality(R \cup {r}) <= MaxPending
    <3>1. /\ IsFiniteSet(R \cup {r})
          /\ Cardinality(R \cup {r}) = IF r \in R THEN Cardinality(R) ELSE Cardinality(R) + 1
      BY <2>5, FS_AddElement
    <3> QED BY <3>1, <2>5, Numbers
  <2>7. Entries(v, c) \subseteq R \cup {r}
    BY <2>2 DEF R
  <2>8. Cardinality(Entries(v, c)) <= Cardinality(R \cup {r}) /\ IsFiniteSet(Entries(v, c))
    BY <2>6, <2>7, FS_Subset
  <2>9. Cardinality(Entries(v, c)) \in Nat /\ Cardinality(R \cup {r}) \in Nat
    BY <2>6, <2>8, FS_CardinalityType
  <2>10. Cardinality(Entries(v, c)) <= MaxPending
    BY <2>6, <2>8, <2>9, Numbers
  <2> QED BY <2>10, <1>3 DEF v
<1> QED BY <1>2, <1>3

(* What a record and a completion take.                                     *)

\* The levels a reading left, and its time.
LEMMA ReadingFacts ==
  ASSUME Types, Times, NEW c \in Credential
  PROVE  /\ quotas[c].at \in Marks(clock) /\ quotas[c].left \in [Layer -> Levels \cup {0}]
         /\ quotas[c].left \in [Layer -> Nat]
         /\ quotas[c] # Unknown => quotas[c].at \in 0..clock
<1>1. quotas[c] \in Reading /\ quotas[c].at <= clock /\ clock \in Nat
  BY Numbers DEF Types, Times
<1>2. ASSUME quotas[c] = Unknown
      PROVE  quotas[c].at = Never /\ quotas[c].left = [l \in Layer |-> 0]
  BY <1>2, Empties
<1>3. ASSUME quotas[c] # Unknown
      PROVE  quotas[c].at \in 0..MaxClock /\ quotas[c].left \in [Layer -> Levels]
  <2>1. quotas[c] \in [at : 0..MaxClock, left : [Layer -> Levels]]
    BY <1>1, <1>3 DEF Reading
  <2> QED BY <2>1
<1>4. ASSUME quotas[c] # Unknown PROVE quotas[c].at \in 0..clock
  BY <1>1, <1>3, <1>4, Numbers
<1>5. [l \in Layer |-> 0] \in [Layer -> Levels \cup {0}]
  OBVIOUS
<1>6. [Layer -> Levels] \subseteq [Layer -> Levels \cup {0}]
  OBVIOUS
<1>7. [Layer -> Levels \cup {0}] \subseteq [Layer -> Nat]
  <2>1. Levels \cup {0} \subseteq Nat
    BY Numbers
  <2> QED BY <2>1
<1>8. quotas[c].left \in [Layer -> Levels \cup {0}]
  <2>1. CASE quotas[c] = Unknown
    <3>1. quotas[c].left = [l \in Layer |-> 0]
      BY <2>1, <1>2
    <3> QED BY <3>1, <1>5
  <2>2. CASE quotas[c] # Unknown
    BY <2>2, <1>3, <1>6
  <2> QED BY <2>1, <2>2
<1>9. quotas[c].at \in Marks(clock)
  <2>1. CASE quotas[c] = Unknown
    BY <2>1, <1>2 DEF Marks
  <2>2. CASE quotas[c] # Unknown
    BY <2>2, <1>4 DEF Marks
  <2> QED BY <2>1, <2>2
<1> QED BY <1>4, <1>7, <1>8, <1>9

\* The entry that meets a record goes, and its reservation settles.
LEMMA MatchedFacts ==
  ASSUME Types, Times, NEW c \in Credential, NEW u \in 0..clock, NEW outcome,
         NEW i \in Item(clock), ~i.dropped
  PROVE  LET j == Matched(i, c, u, outcome)
         IN  j \in Item(clock) /\ Sound(j) /\ j.at = Never /\ ~j.dropped
<1> DEFINE debt == [l \in Layer |-> IF l \in LayersOf[c] THEN Cost ELSE 0]
           seen == IF quotas[c] = Unknown THEN Never ELSE Larger(u, quotas[c].at)
           half == [i EXCEPT !.lease = "settling", !.until = u + SettleTTL, !.debt = debt]
           settled == [half EXCEPT !.base = quotas[c].left, !.seen = seen]
           j == [settled EXCEPT !.at = Never]
<1>1. clock \in Nat
  BY Numbers DEF Types
<1>2. debt \in [Layer -> Debt]
  BY Numbers DEF Debt
<1>3. seen \in Marks(clock)
  <2>1. CASE quotas[c] = Unknown
    BY <2>1 DEF Marks
  <2>2. CASE quotas[c] # Unknown
    <3>1. quotas[c].at \in 0..clock
      BY <2>2, ReadingFacts
    <3>2. Larger(u, quotas[c].at) \in 0..clock
      BY <3>1, <1>1 DEF Larger
    <3> QED BY <2>2, <3>2 DEF Marks
  <2> QED BY <2>1, <2>2
<1>4. u + SettleTTL \in Marks(clock + LeaseTTL + SettleTTL)
  BY <1>1, Numbers DEF Marks
<1>5. quotas[c].left \in [Layer -> Levels \cup {0}]
  BY ReadingFacts
<1>6. Never \in Marks(clock)
  BY DEF Marks
<1>7. Matched(i, c, u, outcome) = IF outcome = "used" /\ i.lease \in {"active", "expired"} THEN j ELSE Nothing
  BY DEF Matched, Settled
<1> HIDE DEF debt, seen
<1>8. half \in Item(clock) /\ half.lease = "settling" /\ half.dropped = i.dropped
  BY <1>2, <1>4 DEF Item
<1> HIDE DEF half
<1>9. settled \in Item(clock) /\ settled.lease = "settling" /\ settled.dropped = i.dropped
  BY <1>3, <1>5, <1>8 DEF Item
<1> HIDE DEF settled
<1>10. j \in Item(clock) /\ j.at = Never /\ ~j.dropped /\ j.lease = "settling"
  BY <1>6, <1>9 DEF Item
<1> HIDE DEF j
<1>11. Sound(j)
  BY <1>10 DEF Sound
<1> QED BY <1>1, <1>7, <1>10, <1>11, NothingIsItem, Empties

(* The conversations that are bound.                                        *)

BoundIn(b) == {s \in Session : b[s] # NoBinding}
WellBound(b, m, t) ==
    /\ b \in [Session -> Binding(t)] /\ Cardinality(BoundIn(b)) <= SessionLimit
    /\ \A s \in Session : b[s].last <= m

\* A binding has a credential and a time, unless there is none.
LEMMA BindingFacts ==
  ASSUME NEW t \in Nat, NEW x \in Binding(t)
  PROVE  /\ x.last \in Marks(t) /\ x.c \in Credential \cup {Nobody}
         /\ x = NoBinding => x.c = Nobody /\ x.last = Never
         /\ x # NoBinding => x \in [c : Credential, last : 0..t] /\ x.c \in Credential /\ x.last \in 0..t
<1>1. x # NoBinding => x \in [c : Credential, last : 0..t] /\ x.c \in Credential /\ x.last \in 0..t
  BY DEF Binding
<1>2. x = NoBinding => x.c = Nobody /\ x.last = Never
  BY Empties
<1> QED BY <1>1, <1>2 DEF Marks

\* Those that are bound are finitely many.
LEMMA BoundIsFinite ==
  ASSUME NEW b
  PROVE  IsFiniteSet(BoundIn(b)) /\ Cardinality(BoundIn(b)) \in Nat
<1>1. IsFiniteSet(BoundIn(b))
  BY Numbers, FS_Subset DEF BoundIn
<1> QED BY <1>1, FS_CardinalityType

\* Fewer conversations, each with its binding.
LEMMA FewerBound ==
  ASSUME NEW t \in Nat, NEW m, NEW b, WellBound(b, m, t), NEW d \in [Session -> Binding(t)],
         \A s \in Session : b[s] = NoBinding => d[s] = NoBinding,
         NEW n, \A s \in Session : d[s].last <= n
  PROVE  WellBound(d, n, t)
<1>1. BoundIn(d) \subseteq BoundIn(b)
  BY DEF BoundIn
<1>2. Cardinality(BoundIn(d)) <= Cardinality(BoundIn(b))
  BY <1>1, BoundIsFinite, FS_Subset
<1>3. Cardinality(BoundIn(b)) <= SessionLimit
  BY DEF WellBound
<1>4. Cardinality(BoundIn(d)) <= SessionLimit
  BY <1>2, <1>3, BoundIsFinite, Numbers
<1> QED BY <1>4 DEF WellBound

\* Bindings that are no longer valid may go.
LEMMA KeptBound ==
  ASSUME NEW t \in Nat, NEW m \in 0..t, WellBound(bindings, m, t), NEW u, NEW b \in MayKeep(u)
  PROVE  WellBound(b, m, t)
<1>1. CASE b = bindings
  BY <1>1
<1>2. CASE b = Kept(u)
  <2>1. NoBinding \in Binding(t) /\ NoBinding.last <= m
    BY Empties DEF Binding
  <2>2. bindings \in [Session -> Binding(t)] /\ \A s \in Session : bindings[s].last <= m
    BY DEF WellBound
  <2>3. \A s \in Session : b[s] = IF Valid(s, u) THEN bindings[s] ELSE NoBinding
    BY <1>2 DEF Kept
  <2>4. b \in [Session -> Binding(t)]
    BY <1>2, <2>1, <2>2 DEF Kept
  <2>5. \A s \in Session : (bindings[s] = NoBinding => b[s] = NoBinding) /\ b[s].last <= m
    BY <2>1, <2>2, <2>3
  <2> QED BY <2>4, <2>5, FewerBound
<1> QED BY <1>1, <1>2 DEF MayKeep

\* A conversation renews its binding.
LEMMA RenewedBound ==
  ASSUME NEW t \in Nat, NEW m \in 0..t, WellBound(bindings, m, t), NEW s \in Session,
         NEW c \in Credential, NEW u \in 0..t, m <= u
  PROVE  WellBound(Renewed(s, c, u), u, t)
<1>1. bindings \in [Session -> Binding(t)] /\ \A x \in Session : bindings[x].last <= m
  BY DEF WellBound
<1>2. \A x \in Session : bindings[x].last \in Marks(t) /\ bindings[x].last <= u
  <2>1. \A x \in Session : bindings[x].last \in Marks(t) /\ bindings[x].last <= m
    BY <1>1, BindingFacts
  <2> QED BY <2>1, Empties DEF Marks
<1>3. CASE bindings[s].c = c /\ u > bindings[s].last
  <2> DEFINE n == [bindings[s] EXCEPT !.last = u]
             d == [bindings EXCEPT ![s] = n]
  <2>1. bindings[s] # NoBinding /\ bindings[s] \in [c : Credential, last : 0..t]
    BY <1>1, <1>3, BindingFacts, Numbers
  <2>2. n \in [c : Credential, last : 0..t] /\ n.last = u
    BY <2>1
  <2>3. Renewed(s, c, u) = d
    BY <1>3 DEF Renewed
  <2> HIDE DEF n
  <2>4. d \in [Session -> Binding(t)]
    BY <1>1, <2>2 DEF Binding
  <2>5. \A x \in Session : (bindings[x] = NoBinding => d[x] = NoBinding) /\ d[x].last <= u
    BY <1>1, <1>2, <2>1, <2>2
  <2> HIDE DEF d
  <2> QED BY <2>3, <2>4, <2>5, FewerBound
<1>4. CASE ~(bindings[s].c = c /\ u > bindings[s].last)
  <2>1. Renewed(s, c, u) = bindings
    BY <1>4 DEF Renewed
  <2> QED BY <2>1, <1>1, <1>2 DEF WellBound
<1> QED BY <1>3, <1>4

\* A conversation is bound, and the one used least recently gives way.
LEMMA BoundBound ==
  ASSUME NEW t \in Nat, NEW m \in 0..t, NEW b, WellBound(b, m, t), NEW s \in Session,
         NEW c \in Credential
  PROVE  WellBound(Bound(b, s, c, m), m, t)
<1> DEFINE B == BoundIn(b)
           least == CHOOSE x \in B : \A y \in B : b[x].last <= b[y].last
           evicted == IF s \in B \/ Cardinality(B) < SessionLimit THEN {} ELSE {least}
           d == Bound(b, s, c, m)
           new == [c |-> c, last |-> m]
<1>1. d = [x \in Session |-> IF x = s THEN new ELSE IF x \in evicted THEN NoBinding ELSE b[x]]
  BY DEF Bound, BoundIn
<1>2. b \in [Session -> Binding(t)] /\ Cardinality(B) <= SessionLimit /\ \A x \in Session : b[x].last <= m
  BY DEF WellBound
<1>3. new \in [c : Credential, last : 0..t] /\ new.last = m /\ NoBinding.last <= m
  BY Empties
<1>4. new \in Binding(t) /\ NoBinding \in Binding(t)
  BY <1>3 DEF Binding
<1> HIDE DEF d, evicted, new
<1>5. d \in [Session -> Binding(t)] /\ \A x \in Session : d[x].last <= m
  BY <1>1, <1>2, <1>3, <1>4
<1>6. BoundIn(d) \subseteq (B \ evicted) \cup {s}
  BY <1>1 DEF BoundIn
<1>7. IsFiniteSet(B) /\ Cardinality(B) \in Nat
  BY BoundIsFinite
<1>8. Cardinality((B \ evicted) \cup {s}) <= SessionLimit /\ IsFiniteSet((B \ evicted) \cup {s})
  <2>1. CASE s \in B
    <3>1. (B \ evicted) \cup {s} = B
      BY <2>1 DEF evicted
    <3> QED BY <3>1, <1>2, <1>7
  <2>2. CASE s \notin B /\ Cardinality(B) < SessionLimit
    <3>1. (B \ evicted) \cup {s} = B \cup {s}
      BY <2>2 DEF evicted
    <3> HIDE DEF B
    <3>2. Cardinality(B \cup {s}) = Cardinality(B) + 1 /\ IsFiniteSet(B \cup {s})
      BY <1>7, <2>2, FS_AddElement
    <3>3. Cardinality(B) + 1 <= SessionLimit
      BY <2>2, <1>7, Numbers
    <3> QED BY <3>1, <3>2, <3>3
  <2>3. CASE s \notin B /\ ~(Cardinality(B) < SessionLimit)
    <3>1. evicted = {least}
      BY <2>3 DEF evicted
    <3>2. least \in B
      <4> DEFINE A == {b[x].last : x \in B}
      <4>1. B # {}
        BY <2>3, FS_EmptySet, Numbers
      <4>2. \A x \in B : b[x].last \in Nat
        <5>1. \A x \in B : b[x] \in Binding(t) /\ b[x] # NoBinding
          BY <1>2 DEF BoundIn
        <5>2. \A x \in B : b[x].last \in 0..t
          BY <5>1, BindingFacts
        <5> QED BY <5>2
      <4>3. A \subseteq Nat /\ A # {}
        BY <4>1, <4>2
      <4>4. PICK a \in A : \A v \in A : a <= v
        <5> HIDE DEF A
        <5> QED BY <4>3, LeastExists
      <4>5. \E x \in B : \A y \in B : b[x].last <= b[y].last
        BY <4>4
      <4> HIDE DEF B
      <4> QED BY <4>5
    <3> HIDE DEF B, least
    <3> DEFINE R == B \ {least}
    <3>3. Cardinality(R) = Cardinality(B) - 1 /\ IsFiniteSet(R)
      BY <1>7, <3>2, FS_RemoveElement
    <3>4. s \notin R
      BY <2>3
    <3> HIDE DEF R
    <3>5. Cardinality(R \cup {s}) = Cardinality(R) + 1 /\ IsFiniteSet(R \cup {s})
      BY <3>3, <3>4, FS_AddElement
    <3>6. Cardinality(R \cup {s}) <= SessionLimit
      BY <3>3, <3>5, <1>2, <1>7, Numbers
    <3> QED BY <3>1, <3>5, <3>6 DEF R
  <2> QED BY <2>1, <2>2, <2>3
<1>9. Cardinality(BoundIn(d)) <= SessionLimit
  <2> DEFINE F == (B \ evicted) \cup {s}
  <2>1. IsFiniteSet(F) /\ Cardinality(F) <= SessionLimit /\ BoundIn(d) \subseteq F
    BY <1>6, <1>8
  <2> HIDE DEF F
  <2>2. Cardinality(BoundIn(d)) <= Cardinality(F) /\ Cardinality(F) \in Nat
    BY <2>1, FS_Subset, FS_CardinalityType
  <2> QED BY <2>1, <2>2, BoundIsFinite, Numbers
<1> QED BY <1>5, <1>9 DEF WellBound, d

(* The circuits.                                                            *)

WellBroken(x, n, t) == x \in [Credential -> Circuit(t)] /\ \A c \in Credential : x[c].failures <= n

\* Circuits that have ended are dropped.
LEMMA MendedBroken ==
  ASSUME NEW t \in Nat, NEW n \in Nat, WellBroken(circuits, n, t), NEW u
  PROVE  WellBroken(Mended(u), n, t)
<1>1. NoCircuit \in Circuit(t) /\ NoCircuit.failures <= n
  BY Empties DEF Circuit
<1> QED BY <1>1 DEF WellBroken, Mended

\* The outcome of a call opens a circuit, or closes it.
LEMMA OutcomeBroken ==
  ASSUME NEW t \in Nat, NEW n \in Nat, WellBroken(circuits, n, t), NEW c \in Credential,
         NEW outcome \in Outcomes, NEW u \in 0..t,
         NEW k \in Nat, n <= k, outcome \in {"overload", "auth"} => k = n + 1
  PROVE  WellBroken(Outcome(c, outcome, u), k, t)
<1> DEFINE more == circuits[c].failures + 1
<1>1. \A x \in Credential : circuits[x] \in Circuit(t) /\ circuits[x].failures <= n
                            /\ circuits[x].failures \in Nat
  <2>1. \A x \in Credential : circuits[x] \in Circuit(t) /\ circuits[x].failures <= n
    BY DEF WellBroken
  <2>2. \A y \in Circuit(t) : y.failures \in Nat
    BY Empties DEF Circuit
  <2> QED BY <2>1, <2>2
<1>2. circuits \in [Credential -> Circuit(t)] /\ \A x \in Credential : circuits[x].failures <= k
  BY <1>1 DEF WellBroken
<1>3. ASSUME NEW y \in Circuit(t), y.failures <= k
      PROVE  WellBroken([circuits EXCEPT ![c] = y], k, t)
  BY <1>2, <1>3 DEF WellBroken
<1>4. ASSUME NEW until \in 0..t + Longest + AuthRetry, NEW f \in Nat, f >= 1, f <= k
      PROVE  WellBroken([circuits EXCEPT ![c] = [until |-> until, failures |-> f]], k, t)
  <2> DEFINE y == [until |-> until, failures |-> f]
  <2>1. y \in Circuit(t) /\ y.failures <= k
    BY <1>4 DEF Circuit
  <2> HIDE DEF y
  <2> QED BY <2>1, <1>3 DEF y
<1>5. CASE outcome = "overload"
  <2>1. Outcome(c, outcome, u) = [circuits EXCEPT ![c] = [until |-> u + Backoff(more), failures |-> more]]
    BY <1>5 DEF Outcome
  <2>2. Backoff(more) \in 1..Longest
    <3> DEFINE b == Base * 2 ^ (more - 1)
    <3>1. Backoff(more) = IF b \in 1..Longest THEN b ELSE Longest
      BY DEF Backoff
    <3> HIDE DEF b
    <3> QED BY <3>1, Numbers
  <2>3. more \in Nat /\ more >= 1 /\ more <= k
    BY <1>1, <1>5
  <2> HIDE DEF more
  <2>4. u + Backoff(more) \in 0..t + Longest + AuthRetry
    BY <2>2, Numbers
  <2> QED BY <2>1, <2>3, <2>4, <1>4
<1>6. CASE outcome = "auth"
  <2>1. Outcome(c, outcome, u) = [circuits EXCEPT ![c] = [until |-> u + AuthRetry, failures |-> 1]]
    BY <1>6 DEF Outcome
  <2> DEFINE w == u + AuthRetry
             one == 1
  <2>2. w \in 0..t + Longest + AuthRetry /\ one \in Nat /\ one >= 1 /\ one <= k
    BY <1>6, Numbers
  <2> HIDE DEF w, one
  <2>3. WellBroken([circuits EXCEPT ![c] = [until |-> w, failures |-> one]], k, t)
    BY <2>2, <1>4
  <2> QED BY <2>1, <2>3 DEF w, one
<1>7. CASE outcome \notin {"overload", "auth"}
  <2>1. Outcome(c, outcome, u) \in {circuits, [circuits EXCEPT ![c] = NoCircuit]}
    BY <1>7 DEF Outcome
  <2>2. NoCircuit \in Circuit(t) /\ NoCircuit.failures <= k
    BY Empties DEF Circuit
  <2>3. WellBroken([circuits EXCEPT ![c] = NoCircuit], k, t)
    BY <2>2, <1>3
  <2> QED BY <2>1, <2>3, <1>2 DEF WellBroken
<1> QED BY <1>5, <1>6, <1>7

(* The first four parts of the invariant.                                   *)

Core == Types /\ Limits /\ Times /\ Lives
WithinLimit(w) == \A c \in Credential : Cardinality(Entries(w, c)) <= MaxPending
Readings == quotas \in [Credential -> Reading] /\ \A c \in Credential : quotas[c].at <= clock
Picking ==
    /\ pick \in Choice /\ pick.now <= clock
    /\ pick.at \in {"reserve", "full"} => pick.now <= latest
    /\ pick.at = "rank" => pick.full = {}
Parts ==
    /\ clock \in 0..MaxClock /\ latest \in 0..clock /\ spent \in 0..MaxEvents
    /\ Readings /\ Good(work, clock) /\ WithinLimit(work)
    /\ WellBound(bindings, latest, clock) /\ WellBroken(circuits, spent, clock)
    /\ Picking /\ requests \in [Request -> Call] /\ Lives

\* The same, by variable.
LEMMA CoreParts == Core <=> Parts
BY DEF Core, Parts, Types, Limits, Times, WithinLimit, Readings, WellBound, BoundIn, WellBroken, Picking

\* Times, and what is read in the proofs most.
LEMMA CoreFacts ==
  ASSUME Core
  PROVE  /\ clock \in Nat /\ latest \in 0..clock /\ spent \in Nat /\ spent <= MaxEvents /\ Types /\ Times
         /\ Lives /\ Parts /\ Good(work, clock) /\ pick \in Choice /\ requests \in [Request -> Call]
         /\ pick.now \in 0..clock /\ T \in latest..clock /\ T \in 0..clock
         /\ pick.at = "reserve" => T = latest
<1>1. /\ clock \in 0..MaxClock /\ latest \in 0..clock /\ spent \in 0..MaxEvents
      /\ Types /\ Times /\ Lives /\ Parts
      /\ Good(work, clock) /\ Picking /\ pick \in Choice /\ requests \in [Request -> Call]
  BY CoreParts DEF Core, Parts, Picking
<1>2. clock \in Nat /\ spent \in Nat /\ spent <= MaxEvents
  BY <1>1, Numbers
<1>3. pick.now \in 0..clock
  BY <1>1, <1>2 DEF Picking, Choice
<1>4. T = IF pick.now > latest THEN pick.now ELSE latest
  BY DEF T, Now, Larger
<1>5. T \in latest..clock /\ T \in 0..clock /\ (pick.at = "reserve" => T = latest)
  BY <1>1, <1>2, <1>3, <1>4 DEF Picking
<1> QED BY <1>1, <1>2, <1>3, <1>5

\* The pick in the scheduler.
LEMMA PickFacts ==
  ASSUME Core, pick.at # "none"
  PROVE  /\ pick.r \in Request /\ pick.s \in Session /\ pick.out \subseteq Credential
         /\ pick.full \subseteq Credential /\ pick.now \in Nat
         /\ requests[pick.r] \in Call /\ requests[pick.r].life = "picking" /\ requests[pick.r].s = pick.s
         /\ Candidates \subseteq Credential
BY CoreFacts DEF Lives, Choice, Candidates

\* A pick starts to rank.
LEMMA AttemptFacts ==
  ASSUME clock \in Nat, NEW r \in Request, NEW s \in Session, NEW out \in SUBSET Credential,
         Attempt(r, s, out)
  PROVE  /\ pick' \in Choice /\ pick'.at = "rank" /\ pick'.r = r /\ pick'.s = s /\ pick'.now = clock
         /\ pick'.full = {} /\ pick'.out \subseteq Credential /\ out \subseteq pick'.out
         /\ circuits' = Mended(clock) /\ UNCHANGED <<clock, latest, quotas, work, bindings, spent>>
<1> DEFINE half == [NoPick EXCEPT !.at = "rank", !.r = r, !.s = s]
           o == out \cup {c \in Credential : Broken(c, clock)}
<1>1. pick' = [half EXCEPT !.now = clock, !.out = o]
  BY DEF Attempt
<1>2. o \subseteq Credential /\ out \subseteq o
  OBVIOUS
<1>3. half \in Choice /\ half.at = "rank" /\ half.r = r /\ half.s = s /\ half.full = {}
  BY Empties DEF Choice
<1> HIDE DEF half, o
<1>4. /\ pick' \in Choice /\ pick'.at = "rank" /\ pick'.r = r /\ pick'.s = s /\ pick'.now = clock
      /\ pick'.full = {} /\ pick'.out = o
  BY <1>1, <1>2, <1>3 DEF Choice
<1> QED BY <1>2, <1>4 DEF Attempt

\* A pick has a credential.
LEMMA SelectedFacts ==
  ASSUME Core, pick.at # "none", NEW w, NEW b, NEW c \in Credential, NEW item, Selected(w, b, c, item)
  PROVE  /\ pick' \in Choice /\ pick'.at = "check" /\ pick'.r = pick.r /\ pick'.s = pick.s
         /\ pick'.now = pick.now /\ pick'.c = c /\ pick'.out = pick.out
         /\ work' = Appended(w, pick.r, c, item) /\ bindings' = Bound(b, pick.s, c, T)
<1> DEFINE half == [NoPick EXCEPT !.at = "check", !.r = pick.r, !.s = pick.s]
<1>1. pick' = [half EXCEPT !.now = pick.now, !.c = c, !.out = pick.out]
  BY DEF Selected
<1>2. half \in Choice /\ half.at = "check" /\ half.r = pick.r /\ half.s = pick.s
  BY PickFacts, Empties DEF Choice
<1>3. pick.now \in Nat /\ pick.out \in SUBSET Credential
  BY PickFacts
<1> HIDE DEF half
<1>4. /\ pick' \in Choice /\ pick'.at = "check" /\ pick'.r = pick.r /\ pick'.s = pick.s
      /\ pick'.now = pick.now /\ pick'.c = c /\ pick'.out = pick.out
  BY <1>1, <1>2, <1>3 DEF Choice
<1> QED BY <1>4 DEF Selected

\* No request has something new on a credential.
NoMoreHeld == \A r \in Request, c \in Credential : IsHeld(work'[r][c]) => IsHeld(work[r][c])

\* Then what was clear stays so.
LEMMA StillClear ==
  ASSUME NoMoreHeld, NEW r \in Request, NEW C \in SUBSET Credential, NEW D \in SUBSET C, Clear(r, C)
  PROVE  \A c \in D : ~IsHeld(work'[r][c])
BY DEF NoMoreHeld, Clear

\* A step that thins keeps limits and adds nothing.
LEMMA ThinnedWork ==
  ASSUME Core, Thinned(work, work', clock)
  PROVE  Good(work', clock) /\ WithinLimit(work') /\ NoMoreHeld
<1>1. \A c \in Credential : Cardinality(Entries(work', c)) <= MaxPending
  <2>1. ASSUME NEW c \in Credential PROVE Cardinality(Entries(work', c)) <= MaxPending
    <3>1. Cardinality(Entries(work, c)) <= MaxPending
      BY DEF Core, Limits
    <3>2. /\ Cardinality(Entries(work', c)) <= Cardinality(Entries(work, c))
          /\ Cardinality(Entries(work, c)) \in Nat /\ Cardinality(Entries(work', c)) \in Nat
      BY ThinnedEntries
    <3> QED BY <3>1, <3>2, Numbers
  <2> QED BY <2>1
<1> QED BY <1>1 DEF Thinned, ThinsTo, NoMoreHeld, WithinLimit

(* Each action keeps the first four parts.                                  *)

\* The parts make up the whole, also after a step.
LEMMA CorePrimed ==
  ASSUME Parts'
  PROVE  Core'
<1>1. Core' <=> Parts'
  BY CoreParts, PTL
<1> QED BY <1>1

\* Pick and requests stay, and no request has more.
LEMMA SameLives ==
  ASSUME Core, NoMoreHeld, UNCHANGED <<pick, requests>>
  PROVE  Lives'
<1>1. Lives /\ Candidates' = Candidates /\ Candidates \subseteq Credential
  BY CoreFacts DEF Candidates
<1>2. ASSUME NEW r \in Request, NEW C \in SUBSET Credential, Clear(r, C)
      PROVE  \A c \in C : ~IsHeld(work'[r][c])
  BY <1>2 DEF NoMoreHeld, Clear
<1>3. \A r \in Request : requests[r].life = "new" => \A c \in Credential : ~IsHeld(work'[r][c])
  BY <1>1, <1>2 DEF Lives
<1>4. pick.at \in {"rank", "reserve", "full"} => \A c \in Candidates : ~IsHeld(work'[pick.r][c])
  BY <1>1, <1>2 DEF Lives
<1>5. pick.at = "check" => \A c \in Candidates \ {pick.c} : ~IsHeld(work'[pick.r][c])
  <2>1. Candidates \ {pick.c} \in SUBSET Credential
    BY <1>1
  <2> QED BY <1>1, <1>2, <2>1 DEF Lives
<1> QED BY <1>1, <1>3, <1>4, <1>5 DEF Lives, Clear

\* Someone reads the book.
LEMMA LookCore ==
  ASSUME Core, Look
  PROVE  Core' /\ Thinned(work, work', clock)
<1>1. Thinned(work, work', clock)
  BY CoreFacts, ExpiredThins DEF Look
<1>2. Lives'
  BY <1>1, ThinnedWork, SameLives DEF Look
<1>3. Parts'
  <2>1. Parts
    BY CoreFacts
  <2>2. Good(work', clock) /\ WithinLimit(work')
    BY <1>1, ThinnedWork
  <2> QED BY <1>2, <2>1, <2>2 DEF Parts, Look, Readings, Picking
<1> QED BY <1>1, <1>3, CorePrimed

\* A reading is stored.
LEMMA ReadCore ==
  ASSUME Core, NEW c \in Credential, NEW left \in [Layer -> Levels], Read(c, left)
  PROVE  Core' /\ Thinned(work, work', clock)
<1> DEFINE w == Expired(work, clock)
           reading == [at |-> clock, left |-> left]
<1>1. /\ UNCHANGED <<clock, latest, bindings, circuits, pick, requests>>
      /\ quotas' = [quotas EXCEPT ![c] = reading]
      /\ spent' = spent + 1 /\ spent < MaxEvents
      /\ work' = [r \in Request |-> [w[r] EXCEPT ![c] = Paid(@, quotas'[c])]]
  BY DEF Read
<1>2. Thinned(work, w, clock) /\ Good(w, clock) /\ clock \in Nat
  BY CoreFacts, ExpiredThins DEF Thinned
<1>3. Thinned(w, work', clock)
  <2> HIDE DEF w
  <2>1. ASSUME NEW r \in Request, NEW d \in Credential
        PROVE  w[r][d] \in Item(clock) /\ Sound(w[r][d])
               /\ work'[r][d] = IF d = c THEN Paid(w[r][d], quotas'[c]) ELSE w[r][d]
    BY <1>1, <1>2 DEF Good, Works
  <2>2. ASSUME NEW r \in Request, NEW d \in Credential
        PROVE  ThinsTo(w[r][d], work'[r][d], clock)
    BY <1>2, <2>1, PaidThins, ItselfThins
  <2>3. work' \in Works(clock)
    <3>1. \A r \in Request, d \in Credential : work'[r][d] \in Item(clock)
      BY <2>2 DEF ThinsTo
    <3>2. work' = [r \in Request |-> [d \in Credential |-> work'[r][d]]]
      BY <1>1, <1>2 DEF Good, Works
    <3> QED BY <3>1, <3>2 DEF Works
  <2> QED BY <2>2, <2>3 DEF Thinned, Good, ThinsTo
<1>4. Thinned(work, work', clock)
  <2> HIDE DEF w
  <2> QED BY <1>2, <1>3, ThinnedTwice
<1>5. Lives'
  BY <1>1, <1>4, ThinnedWork, SameLives
<1>6. quotas' \in [Credential -> Reading] /\ \A d \in Credential : quotas'[d].at <= clock
  <2>1. reading \in Reading /\ reading.at <= clock
    BY CoreFacts DEF Reading, Types
  <2>2. quotas \in [Credential -> Reading] /\ \A d \in Credential : quotas[d].at <= clock
    BY CoreFacts DEF Types, Times
  <2> HIDE DEF reading
  <2> QED BY <1>1, <2>1, <2>2
<1>7. WellBroken(circuits', spent', clock)
  <2>1. WellBroken(circuits, spent, clock) /\ spent \in Nat
    BY CoreFacts DEF Parts
  <2>2. \A x \in Circuit(clock) : x.failures \in Nat
    BY Empties DEF Circuit
  <2> QED BY <1>1, <2>1, <2>2 DEF WellBroken
<1>8. Parts'
  <2>1. Parts
    BY CoreFacts
  <2>2. Good(work', clock) /\ WithinLimit(work')
    BY <1>4, ThinnedWork
  <2>3. spent' \in 0..MaxEvents
    BY <1>1, CoreFacts, Numbers
  <2> HIDE DEF w, reading
  <2> QED BY <1>1, <1>5, <1>6, <1>7, <2>1, <2>2, <2>3 DEF Parts, Readings, Picking
<1> QED BY <1>4, <1>8, CorePrimed

\* Time passes.
LEMMA TickCore ==
  ASSUME Core, Tick
  PROVE  Core'
<1> DEFINE t == clock
           u == clock + 1
<1>1. /\ t \in Nat /\ clock' = u /\ u \in 0..MaxClock /\ latest \in 0..t
      /\ UNCHANGED <<latest, quotas, work, bindings, circuits, pick, requests, spent>>
  BY CoreFacts, Numbers DEF Tick
<1>2. Parts
  BY CoreFacts
<1>3. \A k \in Nat : Marks(t) \subseteq Marks(u) /\ Marks(t + LeaseTTL + SettleTTL) \subseteq Marks(u + LeaseTTL + SettleTTL)
  BY <1>1, Numbers DEF Marks
<1>4. Item(t) \subseteq Item(u)
  <2>1. Marks(t) \subseteq Marks(u) /\ Marks(t + LeaseTTL + SettleTTL) \subseteq Marks(u + LeaseTTL + SettleTTL)
    BY <1>3
  <2> HIDE DEF u, t
  <2> QED BY <2>1 DEF Item
<1>5. Good(work, u)
  <2>1. Good(work, t)
    BY <1>2 DEF Parts
  <2> HIDE DEF t, u
  <2> QED BY <1>4, <2>1 DEF Good, Works
<1>6. Binding(t) \subseteq Binding(u) /\ Circuit(t) \subseteq Circuit(u)
  <2>1. 0..t \subseteq 0..u /\ 0..t + Longest + AuthRetry \subseteq 0..u + Longest + AuthRetry
    BY <1>1, Numbers
  <2> HIDE DEF u, t
  <2> QED BY <2>1 DEF Binding, Circuit
<1>7. WellBound(bindings, latest, u) /\ WellBroken(circuits, spent, u)
  <2>1. WellBound(bindings, latest, t) /\ WellBroken(circuits, spent, t)
    BY <1>2 DEF Parts
  <2> HIDE DEF t, u
  <2> QED BY <1>6, <2>1 DEF WellBound, WellBroken
<1>8. \A c \in Credential : quotas[c].at <= u
  <2>1. \A c \in Credential : quotas[c].at \in Marks(t) /\ quotas[c].at <= t
    BY CoreFacts, ReadingFacts DEF Times
  <2> QED BY <1>1, <2>1, Empties DEF Marks
<1>9. pick.now <= u /\ latest \in 0..u
  BY <1>1, CoreFacts
<1>10. Lives'
  <2>1. Candidates' = Candidates
    BY <1>1 DEF Candidates
  <2> QED BY <1>1, <1>2, <2>1 DEF Lives, Clear, Parts
<1> HIDE DEF u, t
<1>11. Parts'
  BY <1>1, <1>2, <1>5, <1>7, <1>8, <1>9, <1>10 DEF Parts, Readings, Picking, WithinLimit, Entries
<1> QED BY <1>11, CorePrimed

\* A request arrives.
LEMMA ArriveCore ==
  ASSUME Core, NEW r \in Request, NEW s \in Session, Arrive(r, s)
  PROVE  Core' /\ work' = work
<1> DEFINE call == [requests[r] EXCEPT !.life = "picking", !.s = s]
<1>1. /\ Attempt(r, s, {}) /\ pick.at = "none" /\ requests[r].life = "new"
      /\ requests' = [requests EXCEPT ![r] = call]
  BY CoreFacts DEF Arrive
<1>2. /\ pick' \in Choice /\ pick'.at = "rank" /\ pick'.r = r /\ pick'.s = s /\ pick'.now = clock
      /\ pick'.full = {} /\ pick'.out \subseteq Credential
      /\ circuits' = Mended(clock) /\ UNCHANGED <<clock, latest, quotas, work, bindings, spent>>
  BY <1>1, CoreFacts, AttemptFacts
<1>3. Parts /\ requests \in [Request -> Call] /\ Lives
  BY CoreFacts
<1>4. call \in Call /\ call.life = "picking" /\ call.s = s /\ call.own = requests[r].own
      /\ call.matched = requests[r].matched /\ call.outcome = requests[r].outcome
  BY <1>3 DEF Call
<1> HIDE DEF call
<1>5. requests' \in [Request -> Call]
  BY <1>1, <1>3, <1>4
<1>6. Lives'
  <2>1. ASSUME NEW x \in Request
        PROVE  LET q == requests'[x] IN
               /\ q.life \in {"new", "picking"} => ~q.own /\ ~q.matched /\ q.outcome = "none"
               /\ q.life \notin {"new", "picking"} => q.c \in Credential
               /\ q.life # "new" => q.s \in Session
               /\ q.outcome = "none" => ~q.matched
               /\ q.outcome # "none" => q.life \in {"sent", "ended"}
               /\ q.life = "new" => Clear(x, Credential)
    <3>1. requests'[x] = IF x = r THEN call ELSE requests[x]
      BY <1>1, <1>3
    <3> QED BY <3>1, <1>1, <1>3, <1>4 DEF Lives
  <2>2. Clear(r, Credential)
    BY <1>1, <1>3 DEF Lives
  <2>3. requests'[r] = call /\ Candidates' \subseteq Credential
    BY <1>1, <1>3 DEF Candidates
  <2> QED BY <1>2, <1>4, <2>1, <2>2, <2>3 DEF Lives, Clear
<1>7. WellBroken(circuits', spent', clock')
  <2>1. clock \in Nat /\ spent \in Nat /\ WellBroken(circuits, spent, clock)
    BY CoreFacts DEF Parts
  <2> QED BY <1>2, <2>1, MendedBroken
<1>8. Parts'
  <2>1. Picking'
    BY <1>2, CoreFacts DEF Picking
  <2> QED BY <1>2, <1>3, <1>5, <1>6, <1>7, <2>1 DEF Parts, Readings
<1> QED BY <1>2, <1>8, CorePrimed

\* The choice of a pick does not stand, and the ranking starts over without it.
LEMMA RetryCore ==
  ASSUME Core, Retry
  PROVE  Core' /\ work' = work /\ requests' = requests /\ pick'.at = "rank"
<1> DEFINE out == pick.out \cup {pick.c}
<1>1. Attempt(pick.r, pick.s, out) /\ pick.at = "check" /\ requests' = requests
  BY DEF Retry
<1>2. pick.r \in Request /\ pick.s \in Session /\ requests[pick.r].life = "picking"
      /\ requests[pick.r].s = pick.s /\ pick.out \subseteq Credential
  BY <1>1, PickFacts
<1>3. Parts /\ Lives
  BY CoreFacts
<1>4. pick.c \in Credential
  BY <1>1, <1>3 DEF Lives, Candidates
<1>5. /\ pick' \in Choice /\ pick'.at = "rank" /\ pick'.r = pick.r /\ pick'.s = pick.s
      /\ pick'.now = clock /\ pick'.full = {} /\ pick'.out \subseteq Credential /\ out \subseteq pick'.out
      /\ circuits' = Mended(clock) /\ UNCHANGED <<clock, latest, quotas, work, bindings, spent>>
  <2>1. out \in SUBSET Credential
    BY <1>2, <1>4
  <2> HIDE DEF out
  <2> QED BY <1>1, <1>2, <2>1, CoreFacts, AttemptFacts
<1>6. Candidates' \subseteq Candidates \ {pick.c}
  BY <1>5 DEF Candidates
<1>7. Lives'
  BY <1>1, <1>2, <1>3, <1>5, <1>6 DEF Lives, Clear
<1>8. WellBroken(circuits', spent', clock')
  <2>1. clock \in Nat /\ spent \in Nat /\ WellBroken(circuits, spent, clock)
    BY CoreFacts DEF Parts
  <2> QED BY <1>5, <2>1, MendedBroken
<1>9. Parts'
  <2>1. Picking'
    BY <1>5, CoreFacts DEF Picking
  <2> QED BY <1>1, <1>3, <1>5, <1>7, <1>8, <2>1 DEF Parts, Readings
<1> QED BY <1>1, <1>5, <1>9, CorePrimed

\* One request changes and the scheduler is free or busy with another.
LEMMA OtherLives ==
  ASSUME Core, NEW r \in Request, NEW call \in Call, requests' = [requests EXCEPT ![r] = call],
         NoMoreHeld, pick' = pick, pick.at # "none" => pick.r # r,
         call.life \notin {"new", "picking"}, call.c \in Credential, call.s \in Session,
         call.outcome = "none" => ~call.matched, call.outcome # "none" => call.life \in {"sent", "ended"}
  PROVE  Lives'
<1>1. Lives /\ requests \in [Request -> Call] /\ Candidates' = Candidates /\ Candidates \subseteq Credential
  BY CoreFacts DEF Candidates
<1>2. ASSUME NEW q \in Request, NEW C \in SUBSET Credential, Clear(q, C)
      PROVE  \A c \in C : ~IsHeld(work'[q][c])
  BY <1>2 DEF NoMoreHeld, Clear
<1>3. \A q \in Request : requests[q].life = "new" => \A c \in Credential : ~IsHeld(work'[q][c])
  BY <1>1, <1>2 DEF Lives
<1>4. \A q \in Request : requests'[q] = IF q = r THEN call ELSE requests[q]
  BY <1>1
<1>5. pick.at # "none" => pick.r \in Request /\ requests'[pick.r] = requests[pick.r]
  BY <1>1, <1>4 DEF Lives
<1>6. pick.at \in {"rank", "reserve", "full"} => \A c \in Candidates : ~IsHeld(work'[pick.r][c])
  BY <1>1, <1>2 DEF Lives
<1>7. pick.at = "check" => \A c \in Candidates \ {pick.c} : ~IsHeld(work'[pick.r][c])
  <2>1. Candidates \ {pick.c} \in SUBSET Credential
    BY <1>1
  <2> QED BY <1>1, <1>2, <2>1 DEF Lives
<1> QED BY <1>1, <1>3, <1>4, <1>5, <1>6, <1>7 DEF Lives, Clear

\* A request goes upstream.
LEMMA SendCore ==
  ASSUME Core, NEW r \in Request, Send(r)
  PROVE  Core' /\ work' = work
<1> DEFINE call == [requests[r] EXCEPT !.life = "sent", !.start = clock]
<1>1. /\ requests[r].life = "picked" /\ requests' = [requests EXCEPT ![r] = call]
      /\ UNCHANGED <<clock, latest, quotas, work, bindings, circuits, pick, spent>>
  BY CoreFacts DEF Send
<1>2. Parts /\ Lives /\ requests[r] \in Call /\ requests \in [Request -> Call] /\ clock \in Int
  BY CoreFacts
<1>3. /\ call \in Call /\ call.life = "sent" /\ call.c = requests[r].c /\ call.s = requests[r].s
      /\ call.outcome = requests[r].outcome /\ call.matched = requests[r].matched
  BY <1>2 DEF Call
<1> HIDE DEF call
<1>4. NoMoreHeld /\ (pick.at # "none" => pick.r # r)
  BY <1>1, PickFacts DEF NoMoreHeld
<1>5. /\ requests[r].c \in Credential /\ requests[r].s \in Session
      /\ requests[r].outcome = "none" => ~requests[r].matched
  BY <1>1, <1>2 DEF Lives
<1>6. Lives'
  BY <1>1, <1>3, <1>4, <1>5, OtherLives
<1>7. requests' \in [Request -> Call]
  BY <1>1, <1>2, <1>3
<1>8. Parts'
  BY <1>1, <1>2, <1>6, <1>7 DEF Parts, Readings, Picking
<1> QED BY <1>1, <1>8, CorePrimed

\* The pick is over for its request.
LEMMA PickedLives ==
  ASSUME Core, pick.at # "none", pick' = NoPick, clock' = clock, NoMoreHeld,
         NEW c \in Credential, NEW own \in BOOLEAN,
         requests' = [requests EXCEPT ![pick.r].life = "picked", ![pick.r].c = c, ![pick.r].own = own]
  PROVE  Lives' /\ requests' \in [Request -> Call] /\ Picking'
<1> DEFINE r == pick.r
           call == [requests[r] EXCEPT !.life = "picked", !.c = c, !.own = own]
<1>1. r \in Request /\ requests[r].life = "picking" /\ requests[r].s = pick.s /\ pick.s \in Session
  BY PickFacts
<1>2. Lives /\ requests \in [Request -> Call] /\ requests[r] \in Call
  BY <1>1, CoreFacts
<1>3. requests' = [requests EXCEPT ![r] = call]
  BY <1>1, <1>2
<1>4. /\ call \in Call /\ call.life = "picked" /\ call.c = c /\ call.s = requests[r].s
      /\ call.outcome = requests[r].outcome /\ call.matched = requests[r].matched
  BY <1>2 DEF Call
<1> HIDE DEF call
<1>5. requests' \in [Request -> Call] /\ \A q \in Request : requests'[q] = IF q = r THEN call ELSE requests[q]
  BY <1>2, <1>3, <1>4
<1>6. \A q \in Request : requests[q].life = "new" => \A d \in Credential : ~IsHeld(work'[q][d])
  BY <1>2 DEF NoMoreHeld, Lives, Clear
<1>7. ~requests[r].matched /\ requests[r].outcome = "none"
  BY <1>1, <1>2 DEF Lives
<1>8. pick'.at = "none"
  BY Empties
<1>9. Lives'
  BY <1>1, <1>2, <1>4, <1>5, <1>6, <1>7, <1>8 DEF Lives, Clear
<1>10. Picking'
  BY Empties, CoreFacts DEF Picking
<1> QED BY <1>5, <1>9, <1>10

\* The choice of a pick stands.
LEMMA AcceptCore ==
  ASSUME Core, Accept
  PROVE  Core' /\ work' = work /\ pick.c \in Credential
<1>1. pick.at = "check" /\ pick' = NoPick
      /\ UNCHANGED <<clock, latest, quotas, work, bindings, circuits, spent>>
      /\ requests' = [requests EXCEPT ![pick.r].life = "picked", ![pick.r].c = pick.c, ![pick.r].own = TRUE]
  BY DEF Accept
<1>2. pick.c \in Credential
  BY <1>1, CoreFacts DEF Lives, Candidates
<1>3. NoMoreHeld
  BY <1>1 DEF NoMoreHeld
<1>4. Lives' /\ requests' \in [Request -> Call] /\ Picking'
  BY <1>1, <1>2, <1>3, PickedLives
<1>5. Parts'
  BY <1>1, <1>4, CoreFacts DEF Parts, Readings
<1> QED BY <1>1, <1>2, <1>5, CorePrimed

\* What a ranking leaves of the bindings.
LEMMA BindingsBound ==
  ASSUME Core, NEW b \in Bindings
  PROVE  WellBound(b, latest, clock) /\ WellBound(b, T, clock)
<1>1. WellBound(bindings, latest, clock) /\ clock \in Nat /\ latest \in 0..clock /\ T \in latest..clock
  BY CoreFacts DEF Parts
<1>2. WellBound(b, latest, clock)
  BY <1>1, KeptBound DEF Bindings
<1>3. \A s \in Session : b[s] \in Binding(clock) /\ b[s].last <= latest
  BY <1>2 DEF WellBound
<1>4. \A s \in Session : b[s].last <= T
  <2>1. \A s \in Session : b[s].last \in Marks(clock)
    BY <1>1, <1>3, BindingFacts
  <2> QED BY <1>1, <1>3, <2>1, Empties DEF Marks
<1> QED BY <1>2, <1>4 DEF WellBound

\* CPA routes a request by itself.
LEMMA NativeCore ==
  ASSUME Core, NEW c \in Credential, Native(c)
  PROVE  Core' /\ Thinned(work, work', clock)
<1>1. /\ pick.at \in {"rank", "full"} /\ pick' = NoPick
      /\ requests' = [requests EXCEPT ![pick.r].life = "picked", ![pick.r].c = c]
      /\ UNCHANGED <<clock, quotas, circuits, spent>>
      /\ \/ UNCHANGED <<latest, work, bindings>>
         \/ latest' = T /\ work' = Pruned /\ bindings' \in Bindings
  BY DEF Native, Ranking
<1>2. Parts /\ requests \in [Request -> Call] /\ pick.r \in Request
  BY <1>1, CoreFacts, PickFacts
<1>3. Thinned(work, work', clock)
  BY <1>1, CoreFacts, PrunedThins, ThinnedNone
<1>4. Good(work', clock) /\ WithinLimit(work') /\ NoMoreHeld
  BY <1>3, ThinnedWork
<1>5. requests[pick.r].own \in BOOLEAN
  BY <1>2 DEF Call
<1>6. requests' = [requests EXCEPT ![pick.r].life = "picked", ![pick.r].c = c,
                                   ![pick.r].own = requests[pick.r].own]
  <2> DEFINE q == requests[pick.r]
             call == [q EXCEPT !.life = "picked", !.c = c]
  <2>1. q \in Call
    BY <1>2
  <2>2. [q EXCEPT !.life = "picked", !.c = c, !.own = q.own] = call
    BY <2>1 DEF Call
  <2>3. requests' = [requests EXCEPT ![pick.r] = call]
    BY <1>1, <1>2
  <2>4. [requests EXCEPT ![pick.r].life = "picked", ![pick.r].c = c, ![pick.r].own = requests[pick.r].own]
          = [requests EXCEPT ![pick.r] = [q EXCEPT !.life = "picked", !.c = c, !.own = q.own]]
    BY <1>2
  <2> QED BY <2>2, <2>3, <2>4
<1>7. Lives' /\ requests' \in [Request -> Call] /\ Picking'
  BY <1>1, <1>4, <1>5, <1>6, PickedLives
<1>8. WellBound(bindings', latest', clock') /\ latest' \in 0..clock'
  BY <1>1, <1>2, CoreFacts, BindingsBound DEF Parts
<1>9. Parts'
  BY <1>1, <1>2, <1>4, <1>7, <1>8 DEF Parts, Readings
<1> QED BY <1>3, <1>9, CorePrimed

\* The pick goes on with another record.
LEMMA PickingLives ==
  ASSUME Core, pick.at # "none", requests' = requests, NoMoreHeld, UNCHANGED clock,
         pick'.at \in {"reserve", "full"}, pick'.r = pick.r, pick'.s = pick.s, pick'.out = pick.out,
         Clear(pick.r, Candidates), pick'.at = "reserve" => pick'.c \in Candidates
  PROVE  Lives'
<1>1. Lives /\ Candidates' = Candidates /\ Candidates \subseteq Credential /\ pick.r \in Request
  BY CoreFacts, PickFacts DEF Candidates
<1>2. \A q \in Request : requests[q].life = "new" => \A c \in Credential : ~IsHeld(work'[q][c])
  BY <1>1 DEF NoMoreHeld, Lives, Clear
<1>3. \A c \in Candidates : ~IsHeld(work'[pick.r][c])
  BY <1>1 DEF NoMoreHeld, Clear
<1> QED BY <1>1, <1>2, <1>3 DEF Lives, Clear

\* A credential is chosen, and its reservation is still to come.
LEMMA RankCore ==
  ASSUME Core, NEW c \in Credential, Rank(c)
  PROVE  /\ Core' /\ Thinned(work, work', clock) /\ requests' = requests
         /\ pick'.at = "reserve" /\ pick'.c = c /\ pick.at \in {"rank", "full"}
<1> DEFINE limit == [l \in Layer |-> Larger(0, quotas[c].left[l] - Uncovered(Pruned, c))]
           half == [pick EXCEPT !.at = "reserve", !.c = c]
<1>1. /\ pick.at \in {"rank", "full"} /\ pick' = [half EXCEPT !.limit = limit]
      /\ requests' = requests /\ latest' = T /\ work' = Pruned /\ bindings' \in Bindings
      /\ UNCHANGED <<clock, quotas, circuits, spent>>
  BY DEF Rank, Ranking
<1>2. c \in Candidates
  BY DEF Rank, Able
<1>3. Parts /\ Lives /\ pick \in Choice
  BY CoreFacts
<1>4. Thinned(work, work', clock)
  BY <1>1, CoreFacts, PrunedThins
<1>5. Good(work', clock) /\ WithinLimit(work') /\ NoMoreHeld
  BY <1>4, ThinnedWork
<1>6. limit \in [Layer -> Int]
  <2>1. quotas[c].left \in [Layer -> Nat]
    BY CoreFacts, ReadingFacts
  <2>2. Uncovered(Pruned, c) \in Int
    <3> DEFINE E == {r \in Entries(Pruned, c) : Pruned[r][c].lease # "active"}
    <3>1. E \subseteq Request
      BY DEF Entries
    <3>2. Cardinality(E) \in Nat
      <4> HIDE DEF E
      <4> QED BY <3>1, Numbers, FS_Subset, FS_CardinalityType
    <3>3. Uncovered(Pruned, c) = Cost * Cardinality(E)
      BY DEF Uncovered
    <3> HIDE DEF E
    <3> QED BY <3>2, <3>3, Numbers
  <2>3. \A l \in Layer : Larger(0, quotas[c].left[l] - Uncovered(Pruned, c)) \in Int
    BY <2>1, <2>2 DEF Larger
  <2> QED BY <2>3
<1>7. half \in Choice /\ half.at = "reserve" /\ half.c = c /\ half.r = pick.r /\ half.s = pick.s
      /\ half.out = pick.out /\ half.now = pick.now
  BY <1>3 DEF Choice
<1> HIDE DEF half, limit
<1>8. pick' \in Choice /\ pick'.at = "reserve" /\ pick'.c = c /\ pick'.r = pick.r /\ pick'.s = pick.s
      /\ pick'.out = pick.out /\ pick'.now = pick.now
  BY <1>1, <1>6, <1>7 DEF Choice
<1>9. Lives'
  BY <1>1, <1>2, <1>3, <1>5, <1>8, PickingLives DEF Lives
<1>10. Picking'
  <2>1. pick.now <= T
    BY CoreFacts DEF T, Now, Larger
  <2> QED BY <1>1, <1>8, <2>1, CoreFacts DEF Picking
<1>11. WellBound(bindings', latest', clock') /\ latest' \in 0..clock'
  BY <1>1, CoreFacts, BindingsBound
<1>12. Parts'
  BY <1>1, <1>3, <1>5, <1>9, <1>10, <1>11 DEF Parts, Readings
<1> QED BY <1>1, <1>4, <1>8, <1>12, CorePrimed

\* The book refuses a reservation.
LEMMA RefusedCore ==
  ASSUME Core, Reserve, work' = Expired(work, T),
         pick' = [pick EXCEPT !.at = "full", !.c = Nobody, !.full = @ \cup {pick.c},
                              !.limit = NoPick.limit],
         UNCHANGED bindings
  PROVE  /\ Core' /\ Thinned(work, work', clock) /\ requests' = requests
         /\ pick'.at = "full"
<1> DEFINE half == [pick EXCEPT !.at = "full", !.c = Nobody, !.full = pick.full \cup {pick.c}]
<1>1. pick.at = "reserve" /\ UNCHANGED <<clock, latest, quotas, circuits, requests, spent>>
  BY DEF Reserve
<1>2. Parts /\ Lives /\ pick \in Choice
  BY CoreFacts
<1>3. pick' = [half EXCEPT !.limit = NoPick.limit]
  BY <1>2 DEF Choice
<1>4. Thinned(work, work', clock)
  BY CoreFacts, ExpiredThins
<1>5. Good(work', clock) /\ WithinLimit(work') /\ NoMoreHeld
  BY <1>4, ThinnedWork
<1>6. pick.c \in Credential /\ pick.full \subseteq Credential
  BY <1>1, <1>2, PickFacts DEF Lives, Candidates
<1>7. half \in Choice /\ half.at = "full" /\ half.r = pick.r /\ half.s = pick.s
      /\ half.out = pick.out /\ half.now = pick.now
  BY <1>2, <1>6 DEF Choice
<1>8. NoPick.limit \in [Layer -> Int]
  BY Empties DEF Choice
<1> HIDE DEF half
<1>9. pick' \in Choice /\ pick'.at = "full" /\ pick'.r = pick.r /\ pick'.s = pick.s
      /\ pick'.out = pick.out /\ pick'.now = pick.now
  BY <1>3, <1>7, <1>8 DEF Choice
<1>10. Lives'
  BY <1>1, <1>2, <1>5, <1>9, PickingLives DEF Lives
<1>11. Picking'
  BY <1>1, <1>2, <1>9 DEF Picking, Parts
<1>12. Parts'
  BY <1>1, <1>2, <1>5, <1>10, <1>11 DEF Parts, Readings
<1> QED BY <1>1, <1>4, <1>9, <1>12, CorePrimed

\* The entry of a pick after what was thinned.
LEMMA AppendsAfter ==
  ASSUME NEW t, NEW w, NEW v, NEW x, NEW r, NEW c, Thinned(w, v, t), Appends(v, x, r, c, t)
  PROVE  Appends(w, x, r, c, t)
<1>1. ASSUME NEW q \in Request, NEW d \in Credential, ~(q = r /\ d = c)
      PROVE  ThinsTo(w[q][d], x[q][d], t)
  <2>1. ThinsTo(w[q][d], v[q][d], t) /\ ThinsTo(v[q][d], x[q][d], t)
    BY <1>1 DEF Thinned, Appends
  <2> QED BY <2>1 DEF ThinsTo
<1> QED BY <1>1 DEF Appends

\* A pick appends its entry and binds its conversation.
LEMMA SelectedCore ==
  ASSUME Core, pick.at \in {"rank", "full", "reserve"}, NEW c \in Candidates,
         NEW w, Thinned(work, w, clock), NEW b, WellBound(b, T, clock),
         NEW item \in Item(clock), Sound(item), item.at # Never, Selected(w, b, c, item),
         latest' = T, UNCHANGED <<clock, quotas, circuits, requests, spent>>
  PROVE  /\ Core' /\ Appends(work, work', pick.r, c, clock)
         /\ pick'.at = "check" /\ pick'.c = c /\ pick'.r = pick.r
<1>1. /\ pick.r \in Request /\ pick.s \in Session /\ Candidates \subseteq Credential /\ c \in Credential
      /\ requests[pick.r].life = "picking" /\ requests[pick.r].s = pick.s
  BY PickFacts
<1>2. Parts /\ Lives /\ clock \in Nat /\ T \in 0..clock /\ pick \in Choice
  BY CoreFacts
<1>3. /\ pick' \in Choice /\ pick'.at = "check" /\ pick'.r = pick.r /\ pick'.s = pick.s
      /\ pick'.now = pick.now /\ pick'.c = c /\ pick'.out = pick.out
      /\ work' = Appended(w, pick.r, c, item) /\ bindings' = Bound(b, pick.s, c, T)
  BY <1>1, SelectedFacts
<1>4. Good(w, clock) /\ WithinLimit(w)
  <2>1. Good(w, clock)
    BY DEF Thinned
  <2>2. ASSUME NEW d \in Credential PROVE Cardinality(Entries(w, d)) <= MaxPending
    <3>1. Cardinality(Entries(work, d)) <= MaxPending
      BY <1>2 DEF Parts, WithinLimit
    <3>2. /\ Cardinality(Entries(w, d)) <= Cardinality(Entries(work, d))
          /\ Cardinality(Entries(work, d)) \in Nat /\ Cardinality(Entries(w, d)) \in Nat
      BY ThinnedEntries
    <3> QED BY <3>1, <3>2, Numbers
  <2> QED BY <2>1, <2>2 DEF WithinLimit
<1>5. Appends(w, work', pick.r, c, clock)
  BY <1>1, <1>2, <1>3, <1>4, AppendedAppends
<1>6. Appends(work, work', pick.r, c, clock)
  BY <1>5, AppendsAfter
<1>7. WithinLimit(work')
  BY <1>1, <1>2, <1>3, <1>4, AppendedEntries DEF WithinLimit
<1>8. WellBound(bindings', latest', clock')
  BY <1>1, <1>2, <1>3, BoundBound
<1>9. ASSUME NEW q \in Request, NEW d \in Credential, ~(q = pick.r /\ d = c), ~IsHeld(work[q][d])
      PROVE  ~IsHeld(work'[q][d])
  BY <1>6, <1>9 DEF Appends, ThinsTo
<1>10. Lives'
  <2>1. Candidates' = Candidates
    BY <1>3 DEF Candidates
  <2>2. ASSUME NEW q \in Request, requests[q].life = "new", NEW d \in Credential
        PROVE  ~IsHeld(work'[q][d])
    BY <1>1, <1>2, <1>9, <2>2 DEF Lives, Clear
  <2>3. ASSUME NEW d \in Candidates \ {c} PROVE ~IsHeld(work'[pick.r][d])
    BY <1>1, <1>2, <1>9 DEF Lives, Clear
  <2> QED BY <1>1, <1>2, <1>3, <2>1, <2>2, <2>3 DEF Lives, Clear
<1>11. Picking'
  BY <1>3, CoreFacts DEF Picking
<1>12. Good(work', clock)
  BY <1>6 DEF Appends
<1>13. Parts'
  BY <1>2, <1>7, <1>8, <1>10, <1>11, <1>12 DEF Parts, Readings
<1> QED BY <1>3, <1>6, <1>13, CorePrimed

\* The entry that a ranking without readings appends.
LEMMA RankBlindCore ==
  ASSUME Core, NEW c \in Credential, RankBlind(c)
  PROVE  /\ Core' /\ Appends(work, work', pick.r, c, clock) /\ requests' = requests
         /\ pick'.at = "check" /\ pick'.c = c /\ pick'.r = pick.r /\ c \in Candidates
         /\ pick.at \in {"rank", "full"}
<1> DEFINE item == [Nothing EXCEPT !.at = T]
<1>1. /\ pick.at \in {"rank", "full"} /\ c \in Candidates /\ latest' = T
      /\ UNCHANGED <<clock, quotas, circuits, requests, spent>>
  BY DEF RankBlind, Ranking
<1>2. PICK b \in Bindings : Selected(Pruned, b, c, item)
  BY DEF RankBlind
<1>3. clock \in Nat /\ T \in 0..clock /\ Types
  BY CoreFacts
<1>4. item \in Item(clock) /\ item.at = T /\ item.lease = "none" /\ ~item.dropped
  <2>1. T \in Marks(clock)
    BY <1>3 DEF Marks
  <2>2. Nothing \in Item(clock)
    BY <1>3, NothingIsItem
  <2> QED BY <2>1, <2>2, Empties DEF Item
<1> HIDE DEF item
<1>5. Sound(item) /\ item.at # Never
  BY <1>3, <1>4, Empties DEF Sound
<1>6. Thinned(work, Pruned, clock) /\ WellBound(b, T, clock)
  BY <1>3, PrunedThins, BindingsBound
<1> QED BY <1>1, <1>2, <1>4, <1>5, <1>6, SelectedCore

\* The book is asked: it reserves, or it refuses.
LEMMA ReserveCore ==
  ASSUME Core, Reserve
  PROVE  /\ Core' /\ requests' = requests /\ pick.at = "reserve" /\ pick.c \in Candidates
         /\ \/ Thinned(work, work', clock) /\ pick'.at = "full"
            \/ /\ Appends(work, work', pick.r, pick.c, clock)
               /\ pick'.at = "check" /\ pick'.c = pick.c /\ pick'.r = pick.r
<1> DEFINE w == Expired(work, T)
           half == [Nothing EXCEPT !.at = T, !.lease = "active"]
           lease == [half EXCEPT !.until = T + LeaseTTL]
<1>1. /\ pick.at = "reserve" /\ UNCHANGED <<clock, latest, quotas, circuits, requests, spent>>
      /\ \/ Selected(w, bindings, pick.c, lease)
         \/ /\ work' = w /\ UNCHANGED bindings
            /\ pick' = [pick EXCEPT !.at = "full", !.c = Nobody, !.full = @ \cup {pick.c},
                                    !.limit = NoPick.limit]
  BY DEF Reserve
<1>2. clock \in Nat /\ T \in 0..clock /\ Types /\ T = latest /\ Parts
  BY <1>1, CoreFacts
<1>3. pick.c \in Candidates
  BY <1>1, CoreFacts DEF Lives
<1>4. CASE Selected(w, bindings, pick.c, lease)
  <2>1. T \in Marks(clock) /\ T + LeaseTTL \in Marks(clock + LeaseTTL + SettleTTL)
    BY <1>2, Numbers DEF Marks
  <2>2. half \in Item(clock) /\ half.at = T /\ half.lease = "active"
    BY <1>2, <2>1, NothingIsItem DEF Item
  <2> HIDE DEF half
  <2>3. lease \in Item(clock) /\ lease.at = T /\ lease.lease = "active"
    BY <2>1, <2>2 DEF Item
  <2>4. lease.dropped = Nothing.dropped
    <3>1. half.dropped = Nothing.dropped
      BY <1>2, NothingIsItem DEF half, Item
    <3> QED BY <2>2, <3>1 DEF Item
  <2> HIDE DEF lease
  <2>5. Sound(lease) /\ lease.at # Never
    BY <1>2, <2>3, <2>4, Empties DEF Sound
  <2>6. Thinned(work, w, clock) /\ WellBound(bindings, T, clock)
    BY <1>2, CoreFacts, ExpiredThins DEF Parts
  <2> HIDE DEF w
  <2>7. /\ Core' /\ Appends(work, work', pick.r, pick.c, clock)
        /\ pick'.at = "check" /\ pick'.c = pick.c /\ pick'.r = pick.r
    BY <1>1, <1>2, <1>3, <1>4, <2>3, <2>5, <2>6, SelectedCore
  <2> QED BY <1>1, <1>3, <2>7
<1>5. CASE /\ work' = w /\ UNCHANGED bindings
           /\ pick' = [pick EXCEPT !.at = "full", !.c = Nobody, !.full = @ \cup {pick.c},
                                   !.limit = NoPick.limit]
  BY <1>1, <1>3, <1>5, RefusedCore
<1> QED BY <1>1, <1>4, <1>5

\* No credential gets an entry.
LEMMA NoMoreEntries ==
  ASSUME Core, \A q \in Request, d \in Credential : work'[q][d].at \in {work[q][d].at, Never}
  PROVE  WithinLimit(work')
<1>1. ASSUME NEW d \in Credential PROVE Cardinality(Entries(work', d)) <= MaxPending
  <2>1. Entries(work', d) \subseteq Entries(work, d) /\ Entries(work, d) \subseteq Request
    BY DEF Entries
  <2>2. IsFiniteSet(Entries(work, d))
    BY <2>1, Numbers, FS_Subset
  <2>3. IsFiniteSet(Entries(work', d)) /\ Cardinality(Entries(work', d)) <= Cardinality(Entries(work, d))
    BY <2>1, <2>2, FS_Subset
  <2>4. Cardinality(Entries(work, d)) \in Nat /\ Cardinality(Entries(work', d)) \in Nat
    BY <2>2, <2>3, FS_CardinalityType
  <2>5. Cardinality(Entries(work, d)) <= MaxPending
    BY DEF Core, Limits
  <2> QED BY <2>3, <2>4, <2>5, Numbers
<1> QED BY <1>1 DEF WithinLimit

\* An execution ends: what was sent renews its conversation, what was not is rolled back.
LEMMA EndCore ==
  ASSUME Core, NEW r \in Request, End(r)
  PROVE  /\ Core' /\ pick' = pick
         /\ \/ /\ requests[r].life = "sent" /\ work' = work
               /\ requests' = [requests EXCEPT ![r].life = "ended"]
            \/ /\ requests[r].life = "picked" /\ work' = RolledBack(r)
               /\ requests' = [requests EXCEPT ![r].life = "gone"]
<1>1. /\ requests[r].life \in {"picked", "sent"}
      /\ UNCHANGED <<clock, quotas, circuits, pick, spent>>
  BY DEF End
<1>2. /\ Parts /\ Lives /\ requests[r] \in Call /\ requests \in [Request -> Call] /\ clock \in Nat
      /\ latest \in 0..clock /\ Good(work, clock)
  BY CoreFacts
<1>3. /\ requests[r].c \in Credential /\ requests[r].s \in Session
      /\ (requests[r].outcome = "none" => ~requests[r].matched)
      /\ (requests[r].life = "picked" => requests[r].outcome = "none")
  BY <1>1, <1>2 DEF Lives
<1>4. pick.at # "none" => pick.r # r
  BY <1>1, PickFacts
<1>5. ASSUME NEW life \in {"ended", "gone"}, life = "gone" => requests[r].life = "picked",
             requests' = [requests EXCEPT ![r].life = life], NoMoreHeld
      PROVE  Lives' /\ requests' \in [Request -> Call]
  <2> DEFINE call == [requests[r] EXCEPT !.life = life]
  <2>1. requests' = [requests EXCEPT ![r] = call]
    BY <1>2, <1>5
  <2>2. /\ call \in Call /\ call.life = life /\ call.c = requests[r].c /\ call.s = requests[r].s
        /\ call.outcome = requests[r].outcome /\ call.matched = requests[r].matched
    BY <1>2 DEF Call
  <2> HIDE DEF call
  <2>3. requests' \in [Request -> Call]
    BY <1>2, <2>1, <2>2
  <2>4. call.outcome # "none" => call.life \in {"sent", "ended"}
    BY <1>3, <1>5, <2>2
  <2>5. Lives'
    BY <1>1, <1>3, <1>4, <1>5, <2>1, <2>2, <2>4, OtherLives
  <2> QED BY <2>3, <2>5
<1>6. CASE requests[r].life = "sent"
  <2>1. /\ requests' = [requests EXCEPT ![r].life = "ended"] /\ work' = work
        /\ latest' = Now(clock) /\ bindings' = Renewed(requests[r].s, requests[r].c, Now(clock))
    BY <1>6 DEF End
  <2>2. Now(clock) = clock
    BY <1>2 DEF Now, Larger
  <2>3. WellBound(bindings', latest', clock')
    BY <1>1, <1>2, <1>3, <2>1, <2>2, RenewedBound DEF Parts
  <2>4. Lives' /\ requests' \in [Request -> Call]
    BY <1>5, <2>1 DEF NoMoreHeld
  <2>5. Picking'
    BY <1>1, <1>2, <2>1, <2>2 DEF Parts, Picking
  <2>6. Parts'
    BY <1>1, <1>2, <2>1, <2>2, <2>3, <2>4, <2>5 DEF Parts, Readings
  <2> QED BY <1>1, <1>6, <2>1, <2>6, CorePrimed
<1>7. CASE requests[r].life = "picked"
  <2>1. /\ requests' = [requests EXCEPT ![r].life = "gone"] /\ work' = RolledBack(r)
        /\ UNCHANGED <<latest, bindings>>
    BY <1>7 DEF End
  <2>2. \A q \in Request, d \in Credential :
          work'[q][d] = IF q = r /\ work[q][d].at # Never THEN Nothing ELSE work[q][d]
    BY <1>2, <2>1 DEF RolledBack, Entry, Good, Works
  <2>3. NoMoreHeld
    BY <2>2, Empties DEF NoMoreHeld, IsHeld
  <2>4. Good(work', clock)
    <3>1. Nothing \in Item(clock) /\ Sound(Nothing)
      BY <1>2, NothingIsItem
    <3>2. \A q \in Request, d \in Credential : work'[q][d] \in Item(clock) /\ Sound(work'[q][d])
      BY <1>2, <2>2, <3>1 DEF Good, Works
    <3>3. work' = [q \in Request |-> [d \in Credential |-> work'[q][d]]]
      BY <1>2, <2>1 DEF RolledBack, Good, Works
    <3> QED BY <3>2, <3>3 DEF Good, Works
  <2>5. WithinLimit(work')
    BY <2>2, Empties, NoMoreEntries
  <2>6. Lives' /\ requests' \in [Request -> Call]
    BY <1>5, <1>7, <2>1, <2>3
  <2>7. Parts'
    BY <1>1, <1>2, <2>1, <2>4, <2>5, <2>6 DEF Parts, Readings, Picking
  <2> QED BY <1>1, <1>7, <2>1, <2>7, CorePrimed
<1> QED BY <1>1, <1>6, <1>7

\* A record has met the entry of a request on a credential.
Met(p, c) ==
    /\ work[p][c].at # Never /\ ~IsHeld(work'[p][c])
    /\ \A q \in Request, d \in Credential :
         \/ q = p /\ d = c
         \/ (IsHeld(work'[q][d]) <=> IsHeld(work[q][d])) /\ work'[q][d].at \in {work[q][d].at, Never}

\* The record of a call is observed.
LEMMA ObserveCore ==
  ASSUME Core, NEW r \in Request, NEW outcome \in Outcomes, NEW t \in 0..clock, Observe(r, outcome, t),
         requests[r].life \in {"sent", "ended"},
         spent' \in Nat, spent <= spent', spent' <= MaxEvents,
         outcome \in {"overload", "auth"} => spent' = spent + 1
  PROVE  /\ Core' /\ pick' = pick
         /\ \/ /\ Thinned(work, work', clock)
               /\ requests' = [requests EXCEPT ![r].outcome = outcome]
            \/ /\ ~requests[r].matched /\ \E p \in Request : Met(p, requests[r].c)
               /\ requests' = [requests EXCEPT ![r].outcome = outcome, ![r].matched = TRUE]
<1> DEFINE c == requests[r].c
           u == Now(t)
           w == Fresh(work, {c}, u)
<1>1. /\ latest' = u /\ circuits' = Outcome(c, outcome, t) /\ UNCHANGED <<clock, quotas, pick>>
      /\ \/ /\ work' = w /\ UNCHANGED bindings
            /\ requests' = [requests EXCEPT ![r].outcome = outcome]
         \/ /\ ~requests[r].matched
            /\ \E p \in Entries(w, c) :
                 /\ work' = [w EXCEPT ![p][c] = Matched(@, c, u, outcome)]
                 /\ requests' = [requests EXCEPT ![r].outcome = outcome, ![r].matched = TRUE]
                 /\ bindings' = Renewed(requests[p].s, c, u)
  BY DEF Observe, Closest, Recorded
<1>2. /\ Parts /\ Lives /\ Types /\ Times /\ requests[r] \in Call /\ requests \in [Request -> Call]
      /\ clock \in Nat /\ latest \in 0..clock /\ Good(work, clock) /\ spent \in Nat
  BY CoreFacts
<1>3. c \in Credential /\ requests[r].s \in Session
  BY <1>2 DEF Lives
<1>4. u \in 0..clock /\ latest <= u
  BY <1>2 DEF Now, Larger
<1>5. pick.at # "none" => pick.r # r
  BY PickFacts
<1>6. WellBroken(circuits', spent', clock')
  BY <1>1, <1>2, <1>3, OutcomeBroken DEF Parts
<1>7. Thinned(work, w, clock) /\ Good(w, clock)
  BY <1>2, FreshThins DEF Thinned
<1> HIDE DEF w, u
<1>8. Picking'
  <2>1. pick.now <= clock /\ (pick.at \in {"reserve", "full"} => pick.now <= latest) /\ pick.now \in Nat
    BY <1>2, CoreFacts DEF Parts, Picking
  <2>2. pick.at \in {"reserve", "full"} => pick.now <= u
    BY <1>2, <1>4, <2>1
  <2> QED BY <1>1, <1>2, <2>1, <2>2 DEF Parts, Picking
<1>9. ASSUME NEW m \in BOOLEAN, NoMoreHeld,
             requests' = [requests EXCEPT ![r].outcome = outcome, ![r].matched = m]
      PROVE  Lives' /\ requests' \in [Request -> Call]
  <2> DEFINE call == [requests[r] EXCEPT !.outcome = outcome, !.matched = m]
  <2>1. requests' = [requests EXCEPT ![r] = call]
    BY <1>2, <1>9
  <2>2. /\ call \in Call /\ call.life = requests[r].life /\ call.c = requests[r].c /\ call.s = requests[r].s
        /\ call.outcome = outcome
    BY <1>2 DEF Call
  <2> HIDE DEF call
  <2>3. requests' \in [Request -> Call]
    BY <1>2, <2>1, <2>2
  <2>4. outcome # "none"
    BY Numbers
  <2>5. Lives'
    BY <1>1, <1>3, <1>5, <1>9, <2>1, <2>2, <2>4, OtherLives
  <2> QED BY <2>3, <2>5
<1>10. CASE /\ work' = w /\ UNCHANGED bindings
            /\ requests' = [requests EXCEPT ![r].outcome = outcome]
  <2>1. Thinned(work, work', clock)
    BY <1>7, <1>10
  <2>2. Good(work', clock) /\ WithinLimit(work') /\ NoMoreHeld
    BY <2>1, ThinnedWork
  <2>3. requests' = [requests EXCEPT ![r].outcome = outcome, ![r].matched = requests[r].matched]
    <3> DEFINE one == [requests[r] EXCEPT !.outcome = outcome]
               two == [one EXCEPT !.matched = requests[r].matched]
    <3>1. one = two
      BY <1>2 DEF Call
    <3>2. requests' = [requests EXCEPT ![r] = one]
      BY <1>2, <1>10
    <3>3. [requests EXCEPT ![r].outcome = outcome, ![r].matched = requests[r].matched]
            = [requests EXCEPT ![r] = two]
      BY <1>2
    <3> QED BY <3>1, <3>2, <3>3
  <2>4. requests[r].matched \in BOOLEAN
    BY <1>2 DEF Call
  <2>5. Lives' /\ requests' \in [Request -> Call]
    BY <1>9, <2>2, <2>3, <2>4
  <2>6. WellBound(bindings', latest', clock')
    <3>1. WellBound(bindings, latest, clock)
      BY <1>2 DEF Parts
    <3>2. \A s \in Session : bindings[s] \in Binding(clock) /\ bindings[s].last <= latest
      BY <3>1 DEF WellBound
    <3>3. \A s \in Session : bindings[s].last <= u
      <4>1. \A s \in Session : bindings[s].last \in Marks(clock)
        BY <1>2, <3>2, BindingFacts
      <4> QED BY <1>2, <1>4, <3>2, <4>1, Empties DEF Marks
    <3> QED BY <1>1, <1>10, <3>1, <3>3 DEF WellBound
  <2>7. Parts'
    BY <1>1, <1>2, <1>4, <1>6, <1>8, <2>2, <2>5, <2>6, Numbers DEF Parts, Readings
  <2> QED BY <1>1, <1>10, <2>1, <2>7, CorePrimed
<1>11. ASSUME NEW p \in Entries(w, c), ~requests[r].matched,
              work' = [w EXCEPT ![p][c] = Matched(@, c, u, outcome)],
              requests' = [requests EXCEPT ![r].outcome = outcome, ![r].matched = TRUE],
              bindings' = Renewed(requests[p].s, c, u)
       PROVE  Core' /\ Met(p, c) /\ p \in Request
  <2> DEFINE i == w[p][c]
             j == Matched(i, c, u, outcome)
  <2>1. p \in Request /\ i \in Item(clock) /\ Sound(i) /\ i.at # Never
    BY <1>3, <1>7 DEF Entries, Good, Works
  <2>2. ~i.dropped /\ work[p][c].at # Never
    <3>1. i.at \in {work[p][c].at, Never}
      BY <1>3, <1>7, <2>1 DEF Thinned, ThinsTo
    <3> QED BY <2>1, <3>1 DEF Sound
  <2>3. j \in Item(clock) /\ Sound(j) /\ j.at = Never /\ ~j.dropped
    <3> HIDE DEF i
    <3> QED BY <1>2, <1>3, <1>4, <2>1, <2>2, MatchedFacts
  <2>4. \A q \in Request, d \in Credential : work'[q][d] = IF q = p /\ d = c THEN j ELSE w[q][d]
    BY <1>3, <1>7, <1>11, <2>1 DEF Good, Works
  <2>5. work' \in Works(clock)
    <3>1. [w[p] EXCEPT ![c] = j] \in [Credential -> Item(clock)]
      BY <1>7, <2>1, <2>3 DEF Good, Works
    <3>2. work' = [w EXCEPT ![p] = [w[p] EXCEPT ![c] = j]]
      BY <1>11
    <3> HIDE DEF j
    <3> QED BY <1>7, <3>1, <3>2 DEF Good, Works
  <2> HIDE DEF i, j
  <2>6. Good(work', clock)
    BY <1>7, <2>3, <2>4, <2>5 DEF Good
  <2>7. \A q \in Request, d \in Credential : (IsHeld(w[q][d]) <=> IsHeld(work[q][d])) /\ w[q][d].at \in {work[q][d].at, Never}
    BY <1>7 DEF Thinned, ThinsTo
  <2>8. Met(p, c)
    BY <2>2, <2>3, <2>4, <2>7, <1>3, <2>1 DEF Met, IsHeld
  <2>9. NoMoreHeld
    BY <2>3, <2>4, <2>7 DEF NoMoreHeld, IsHeld
  <2>10. WithinLimit(work')
    BY <2>3, <2>4, <2>7, NoMoreEntries
  <2>11. Lives' /\ requests' \in [Request -> Call]
    BY <1>9, <1>11, <2>9
  <2>12. requests[p].s \in Session
    <3>1. IsHeld(work[p][c])
      BY <2>2 DEF IsHeld
    <3> QED BY <1>2, <1>3, <2>1, <3>1 DEF Lives, Clear
  <2>13. WellBound(bindings', latest', clock')
    BY <1>1, <1>2, <1>3, <1>4, <1>11, <2>12, RenewedBound DEF Parts
  <2>14. Parts'
    BY <1>1, <1>2, <1>4, <1>6, <1>8, <2>6, <2>10, <2>11, <2>13, Numbers DEF Parts, Readings
  <2> QED BY <2>1, <2>8, <2>14, CorePrimed
<1>12. CASE /\ ~requests[r].matched
            /\ \E p \in Entries(w, c) :
                 /\ work' = [w EXCEPT ![p][c] = Matched(@, c, u, outcome)]
                 /\ requests' = [requests EXCEPT ![r].outcome = outcome, ![r].matched = TRUE]
                 /\ bindings' = Renewed(requests[p].s, c, u)
  <2>1. PICK p \in Entries(w, c) :
          /\ work' = [w EXCEPT ![p][c] = Matched(@, c, u, outcome)]
          /\ requests' = [requests EXCEPT ![r].outcome = outcome, ![r].matched = TRUE]
          /\ bindings' = Renewed(requests[p].s, c, u)
    BY <1>12
  <2>2. Core' /\ Met(p, c) /\ p \in Request
    BY <1>11, <1>12, <2>1
  <2> QED BY <1>1, <1>12, <2>1, <2>2
<1> QED BY <1>1, <1>10, <1>12

\* A record comes, for the first time or again.
LEMMA RecordCore ==
  ASSUME Core, NEW r \in Request,
         Repeat(r) \/ \E o \in Outcomes, t \in Captured : Usage(r, o, t)
  PROVE  \E outcome \in Outcomes :
           /\ Core' /\ pick' = pick /\ requests[r].life \in {"sent", "ended"}
           /\ \/ /\ Thinned(work, work', clock)
                 /\ requests' = [requests EXCEPT ![r].outcome = outcome]
              \/ /\ ~requests[r].matched /\ \E p \in Request : Met(p, requests[r].c)
                 /\ requests' = [requests EXCEPT ![r].outcome = outcome, ![r].matched = TRUE]
<1>1. /\ Lives /\ requests[r] \in Call /\ clock \in Nat /\ spent \in Nat /\ spent <= MaxEvents
      /\ MaxEvents \in Nat /\ clock \in 0..clock
  BY CoreFacts, Numbers
<1>2. CASE Repeat(r)
  <2>1. /\ requests[r].outcome # "none" /\ spent < MaxEvents /\ spent' = spent + 1
        /\ Observe(r, requests[r].outcome, clock)
    BY <1>2 DEF Repeat
  <2>2. requests[r].outcome \in Outcomes /\ requests[r].life \in {"sent", "ended"}
    BY <1>1, <2>1 DEF Call, Lives
  <2>3. spent' \in Nat /\ spent <= spent' /\ spent' <= MaxEvents
    BY <1>1, <2>1
  <2> QED BY <1>1, <2>1, <2>2, <2>3, ObserveCore
<1>3. ASSUME NEW o \in Outcomes, NEW t \in Captured, Usage(r, o, t)
      PROVE  \E outcome \in Outcomes :
               /\ Core' /\ pick' = pick /\ requests[r].life \in {"sent", "ended"}
               /\ \/ /\ Thinned(work, work', clock)
                     /\ requests' = [requests EXCEPT ![r].outcome = outcome]
                  \/ /\ ~requests[r].matched /\ \E p \in Request : Met(p, requests[r].c)
                     /\ requests' = [requests EXCEPT ![r].outcome = outcome, ![r].matched = TRUE]
  <2>1. /\ requests[r].life \in {"sent", "ended"} /\ Observe(r, o, t)
        /\ o = "used" => spent' = spent
        /\ o # "used" => spent < MaxEvents /\ spent' = spent + 1
    BY <1>3 DEF Usage
  <2>2. t \in 0..clock
    BY <1>1 DEF Captured
  <2>3. spent' \in Nat /\ spent <= spent' /\ spent' <= MaxEvents /\ (o \in {"overload", "auth"} => spent' = spent + 1)
    BY <1>1, <2>1
  <2> QED BY <2>1, <2>2, <2>3, ObserveCore
<1> QED BY <1>2, <1>3

\* The first four parts hold at the start.
LEMMA CoreInit ==
  ASSUME Init
  PROVE  Core
<1>1. PICK start \in Starts :
        /\ clock = start.clock
        /\ quotas = [c \in Credential |-> IF c \in start.unread THEN Unknown
                                          ELSE [at |-> clock, left |-> [l \in Layer |-> Max(Levels)]]]
  BY DEF Init
<1>2. /\ latest = 0 /\ work = [r \in Request |-> [c \in Credential |-> Nothing]]
      /\ bindings = [s \in Session |-> NoBinding] /\ circuits = [c \in Credential |-> NoCircuit]
      /\ pick = NoPick /\ requests = [r \in Request |-> Waiting] /\ spent = 0
  BY DEF Init
<1>3. clock \in 0..MaxClock /\ clock \in Nat /\ latest \in 0..clock
  <2>1. clock \in 0..MaxClock
    BY <1>1, BalancedAdmissionAssumption
  <2> QED BY <1>2, <2>1, Numbers
<1>4. Readings
  <2> DEFINE first == [at |-> clock, left |-> [l \in Layer |-> Max(Levels)]]
  <2>1. first \in Reading /\ first.at = clock
    BY <1>3, HighestLevel DEF Reading
  <2>2. Unknown \in Reading /\ Unknown.at <= clock
    BY <1>3, Empties DEF Reading
  <2>3. quotas = [c \in Credential |-> IF c \in start.unread THEN Unknown ELSE first]
    BY <1>1
  <2> HIDE DEF first
  <2>4. \A c \in Credential : quotas[c] \in {Unknown, first}
    BY <2>3
  <2>5. \A c \in Credential : quotas[c].at <= clock
    BY <1>3, <2>1, <2>2, <2>4
  <2>6. quotas \in [Credential -> Reading]
    BY <2>1, <2>2, <2>3
  <2> QED BY <2>5, <2>6 DEF Readings
<1>5. Good(work, clock)
  <2>1. Nothing \in Item(clock) /\ Sound(Nothing)
    BY <1>3, NothingIsItem
  <2> QED BY <1>2, <2>1 DEF Good, Works
<1>6. WithinLimit(work)
  <2>1. \A c \in Credential : Entries(work, c) = {}
    BY <1>2, Empties DEF Entries
  <2>2. 0 <= MaxPending
    BY Numbers
  <2> QED BY <2>1, <2>2, FS_EmptySet DEF WithinLimit
<1>7. WellBound(bindings, latest, clock)
  <2>1. BoundIn(bindings) = {}
    BY <1>2 DEF BoundIn
  <2>2. Cardinality(BoundIn(bindings)) <= SessionLimit
    BY <2>1, FS_EmptySet, Numbers
  <2>3. NoBinding \in Binding(clock) /\ NoBinding.last <= latest
    BY <1>2, Empties DEF Binding
  <2> QED BY <1>2, <2>2, <2>3 DEF WellBound
<1>8. WellBroken(circuits, spent, clock)
  <2>1. NoCircuit \in Circuit(clock) /\ NoCircuit.failures <= spent
    BY <1>2, Empties DEF Circuit
  <2> QED BY <1>2, <2>1 DEF WellBroken
<1>9. Picking /\ requests \in [Request -> Call] /\ spent \in 0..MaxEvents
  BY <1>2, <1>3, Empties, Numbers DEF Picking
<1>10. Lives
  <2>1. \A r \in Request : Clear(r, Credential)
    BY <1>2, Empties DEF Clear, IsHeld
  <2>2. pick.at = "none" /\ \A r \in Request : requests[r] = Waiting
    BY <1>2, Empties
  <2> QED BY <2>1, <2>2, Empties DEF Lives
<1>11. Parts
  BY <1>3, <1>4, <1>5, <1>6, <1>7, <1>8, <1>9, <1>10 DEF Parts
<1> QED BY <1>11, CoreParts

\* The steps, one by one.
LEMMA OneStep ==
  ASSUME Next
  PROVE  \/ Tick \/ Reserve \/ Accept \/ Retry \/ Look
         \/ \E c \in Credential : Rank(c) \/ RankBlind(c) \/ Native(c)
         \/ \E r \in Request, s \in Session : Arrive(r, s)
         \/ \E r \in Request : Send(r) \/ End(r)
         \/ \E r \in Request : Repeat(r) \/ \E o \in Outcomes, t \in Captured : Usage(r, o, t)
         \/ \E c \in Credential, left \in [Layer -> Levels] : Read(c, left)
BY DEF Next

\* Every step keeps the first four parts.
LEMMA CoreStep ==
  ASSUME Core, [Next]_vars
  PROVE  Core'
<1>1. CASE UNCHANGED vars
  <2>1. Parts
    BY CoreFacts
  <2>2. Candidates' = Candidates
    BY <1>1 DEF vars, Candidates
  <2>3. Lives'
    BY <1>1, <2>1, <2>2 DEF vars, Parts, Lives, Clear
  <2>4. Parts'
    BY <1>1, <2>1, <2>3 DEF vars, Parts, Readings, Picking
  <2> QED BY <2>4, CorePrimed
<1>2. CASE Tick
  BY <1>2, TickCore
<1>3. CASE Reserve
  BY <1>3, ReserveCore
<1>4. CASE Accept
  BY <1>4, AcceptCore
<1>5. CASE Retry
  BY <1>5, RetryCore
<1>6. CASE Look
  BY <1>6, LookCore
<1>7. CASE \E c \in Credential : Rank(c) \/ RankBlind(c) \/ Native(c)
  BY <1>7, RankCore, RankBlindCore, NativeCore
<1>8. CASE \E r \in Request, s \in Session : Arrive(r, s)
  BY <1>8, ArriveCore
<1>9. CASE \E r \in Request : Send(r) \/ End(r)
  BY <1>9, SendCore, EndCore
<1>10. CASE \E r \in Request : Repeat(r) \/ \E o \in Outcomes, t \in Captured : Usage(r, o, t)
  <2>1. PICK r \in Request : Repeat(r) \/ \E o \in Outcomes, t \in Captured : Usage(r, o, t)
    BY <1>10
  <2> QED BY <2>1, RecordCore
<1>11. CASE \E c \in Credential, left \in [Layer -> Levels] : Read(c, left)
  BY <1>11, ReadCore
<1> QED BY <1>1, <1>2, <1>3, <1>4, <1>5, <1>6, <1>7, <1>8, <1>9, <1>10, <1>11, OneStep

(* What is held and what is due.                                            *)

\* A larger set of requests has at least as many.
LEMMA SetsGrow ==
  ASSUME NEW U \in SUBSET Request, NEW S \in SUBSET Request, U \subseteq S
  PROVE  Cardinality(U) \in Nat /\ Cardinality(S) \in Nat /\ Cardinality(U) <= Cardinality(S)
<1>1. IsFiniteSet(S)
  BY Numbers, FS_Subset
<1> QED BY <1>1, FS_Subset, FS_CardinalityType

\* A set with another member has more.
LEMMA SetsGrowByOne ==
  ASSUME NEW U \in SUBSET Request, NEW S \in SUBSET Request, NEW x, x \notin U, U \cup {x} \subseteq S
  PROVE  Cardinality(U) \in Nat /\ Cardinality(S) \in Nat /\ Cardinality(U) + 1 <= Cardinality(S)
<1> DEFINE V == U \cup {x}
<1>1. IsFiniteSet(U) /\ IsFiniteSet(S) /\ Cardinality(U) \in Nat /\ Cardinality(S) \in Nat
  BY Numbers, FS_Subset, FS_CardinalityType
<1>2. Cardinality(V) = Cardinality(U) + 1
  BY <1>1, FS_AddElement
<1>3. V \subseteq S
  OBVIOUS
<1> HIDE DEF V
<1>4. Cardinality(V) <= Cardinality(S)
  BY <1>1, <1>3, FS_Subset
<1> QED BY <1>1, <1>2, <1>4

\* A set that lacks one member has one less at most.
LEMMA SetsShrinkByOne ==
  ASSUME NEW U \in SUBSET Request, NEW S \in SUBSET Request, NEW x, U \ {x} \subseteq S
  PROVE  Cardinality(U) \in Nat /\ Cardinality(S) \in Nat /\ Cardinality(U) <= Cardinality(S) + 1
<1> DEFINE V == U \ {x}
<1>1. IsFiniteSet(U) /\ IsFiniteSet(S) /\ Cardinality(U) \in Nat /\ Cardinality(S) \in Nat
  BY Numbers, FS_Subset, FS_CardinalityType
<1>2. Cardinality(V) = IF x \in U THEN Cardinality(U) - 1 ELSE Cardinality(U)
  BY <1>1, FS_RemoveElement
<1>3. V \subseteq S
  OBVIOUS
<1> HIDE DEF V
<1>4. Cardinality(V) <= Cardinality(S)
  BY <1>1, <1>3, FS_Subset
<1> QED BY <1>1, <1>2, <1>4

\* The sets are of requests.
LEMMA CountedSets ==
  ASSUME NEW c
  PROVE  /\ Held(c) \in SUBSET Request /\ Strays(c) \in SUBSET Request /\ Due(c) \in SUBSET Request
         /\ Held(c)' \in SUBSET Request /\ Strays(c)' \in SUBSET Request /\ Due(c)' \in SUBSET Request
BY DEF Held, Strays, Due

\* A request is due whose record has met no entry, and one whose entry was not sent yet.
IsDue(r, c) ==
    \/ requests[r].own /\ requests[r].c = c /\ requests[r].life # "gone" /\ ~requests[r].matched
    \/ pick.at = "check" /\ pick.c = c /\ pick.r = r
    \/ work[r][c].at # Never /\ requests[r].life \in {"picking", "picked"}
IsStray(r, c) == ~requests[r].own /\ requests[r].c = c /\ requests[r].matched

\* The sets by their members.
LEMMA CountedMembers ==
  ASSUME NEW c, NEW r \in Request
  PROVE  /\ r \in Due(c) <=> IsDue(r, c)
         /\ r \in Strays(c) <=> IsStray(r, c)
         /\ r \in Held(c) <=> IsHeld(work[r][c])
         /\ r \in Due(c)' <=> IsDue(r, c)'
         /\ r \in Strays(c)' <=> IsStray(r, c)'
         /\ r \in Held(c)' <=> IsHeld(work'[r][c])
BY DEF Due, Strays, Held, IsDue, IsStray

\* Nothing held or strayed is lost, and nothing new is due.
LEMMA CountedKept ==
  ASSUME Counted, NEW c \in Credential,
         \A r \in Request : /\ IsHeld(work[r][c]) => IsHeld(work'[r][c])
                            /\ IsStray(r, c) => IsStray(r, c)'
                            /\ IsDue(r, c)' => IsDue(r, c)
  PROVE  Cardinality(Held(c)') + Cardinality(Strays(c)') >= Cardinality(Due(c)')
<1>1. Held(c) \subseteq Held(c)' /\ Strays(c) \subseteq Strays(c)' /\ Due(c)' \subseteq Due(c)
  BY CountedMembers, CountedSets
<1>2. Cardinality(Held(c)) + Cardinality(Strays(c)) >= Cardinality(Due(c))
  BY DEF Counted
<1>3. /\ Held(c) \in SUBSET Request /\ Strays(c) \in SUBSET Request /\ Due(c) \in SUBSET Request
      /\ Held(c)' \in SUBSET Request /\ Strays(c)' \in SUBSET Request /\ Due(c)' \in SUBSET Request
  BY CountedSets
<1>4. Cardinality(Held(c)) <= Cardinality(Held(c)') /\ Cardinality(Held(c)) \in Nat /\ Cardinality(Held(c)') \in Nat
  BY <1>1, <1>3, SetsGrow
<1>5. Cardinality(Strays(c)) <= Cardinality(Strays(c)') /\ Cardinality(Strays(c)) \in Nat
      /\ Cardinality(Strays(c)') \in Nat
  BY <1>1, <1>3, SetsGrow
<1>6. Cardinality(Due(c)') <= Cardinality(Due(c)) /\ Cardinality(Due(c)) \in Nat /\ Cardinality(Due(c)') \in Nat
  BY <1>1, <1>3, SetsGrow
<1> QED BY <1>2, <1>4, <1>5, <1>6

\* Entries that thin are held as before.
LEMMA ThinnedHeld ==
  ASSUME Thinned(work, work', clock), NEW r \in Request, NEW c \in Credential
  PROVE  (IsHeld(work'[r][c]) <=> IsHeld(work[r][c])) /\ (work'[r][c].at # Never => work[r][c].at # Never)
BY DEF Thinned, ThinsTo

\* A step that thins while nobody else becomes due.
LEMMA CountedThinned ==
  ASSUME Counted, Thinned(work, work', clock) \/ work' = work,
         \A r \in Request, c \in Credential :
            /\ IsStray(r, c) => IsStray(r, c)'
            /\ requests'[r].own /\ requests'[r].c = c /\ requests'[r].life # "gone" /\ ~requests'[r].matched
                 => IsDue(r, c)
            /\ pick'.at = "check" /\ pick'.c = c /\ pick'.r = r => IsDue(r, c)
            /\ work[r][c].at # Never /\ requests'[r].life \in {"picking", "picked"} => IsDue(r, c)
  PROVE  Counted'
<1>1. ASSUME NEW c \in Credential
      PROVE  Cardinality(Held(c)') + Cardinality(Strays(c)') >= Cardinality(Due(c)')
  <2>1. \A r \in Request : /\ (IsHeld(work'[r][c]) <=> IsHeld(work[r][c]))
                           /\ (work'[r][c].at # Never => work[r][c].at # Never)
    BY ThinnedHeld
  <2>2. \A r \in Request : IsDue(r, c)' => IsDue(r, c)
    <3>1. ASSUME NEW r \in Request, IsDue(r, c)' PROVE IsDue(r, c)
      <4>1. \/ requests'[r].own /\ requests'[r].c = c /\ requests'[r].life # "gone" /\ ~requests'[r].matched
            \/ pick'.at = "check" /\ pick'.c = c /\ pick'.r = r
            \/ work'[r][c].at # Never /\ requests'[r].life \in {"picking", "picked"}
        BY <3>1 DEF IsDue
      <4> QED BY <4>1, <2>1
    <3> QED BY <3>1
  <2> QED BY <2>1, <2>2, CountedKept
<1> QED BY <1>1 DEF Counted

\* Requests and pick are as before.
LEMMA CountedSame ==
  ASSUME Counted, Thinned(work, work', clock) \/ work' = work, requests' = requests,
         pick' = pick \/ pick'.at # "check"
  PROVE  Counted'
<1>1. ASSUME NEW r \in Request, NEW c \in Credential
      PROVE  /\ IsStray(r, c) => IsStray(r, c)'
             /\ requests'[r].own /\ requests'[r].c = c /\ requests'[r].life # "gone" /\ ~requests'[r].matched
                  => IsDue(r, c)
             /\ pick'.at = "check" /\ pick'.c = c /\ pick'.r = r => IsDue(r, c)
             /\ work[r][c].at # Never /\ requests'[r].life \in {"picking", "picked"} => IsDue(r, c)
  BY DEF IsStray, IsDue
<1> QED BY <1>1, CountedThinned

\* One request changes, and a pick for another goes on.
LEMMA CountedOne ==
  ASSUME Core, Counted, Thinned(work, work', clock) \/ work' = work,
         NEW r \in Request, NEW call, requests' = [requests EXCEPT ![r] = call],
         pick' = pick \/ pick'.at # "check",
         \A c \in Credential :
            /\ IsStray(r, c) => ~call.own /\ call.c = c /\ call.matched
            /\ call.own /\ call.c = c /\ call.life # "gone" /\ ~call.matched => IsDue(r, c)
            /\ work[r][c].at # Never /\ call.life \in {"picking", "picked"} => IsDue(r, c)
  PROVE  Counted'
<1>1. \A q \in Request : requests'[q] = IF q = r THEN call ELSE requests[q]
  BY CoreFacts
<1>2. ASSUME NEW q \in Request, NEW c \in Credential
      PROVE  /\ IsStray(q, c) => IsStray(q, c)'
             /\ requests'[q].own /\ requests'[q].c = c /\ requests'[q].life # "gone" /\ ~requests'[q].matched
                  => IsDue(q, c)
             /\ pick'.at = "check" /\ pick'.c = c /\ pick'.r = q => IsDue(q, c)
             /\ work[q][c].at # Never /\ requests'[q].life \in {"picking", "picked"} => IsDue(q, c)
  <2>1. CASE q = r
    <3>1. requests'[q] = call
      BY <1>1, <2>1
    <3>2. pick'.at = "check" /\ pick'.c = c /\ pick'.r = q => IsDue(q, c)
      BY DEF IsDue
    <3>3. IsStray(q, c)' <=> ~call.own /\ call.c = c /\ call.matched
      BY <3>1 DEF IsStray
    <3> QED BY <2>1, <3>1, <3>2, <3>3
  <2>2. CASE q # r
    <3>1. requests'[q] = requests[q]
      BY <1>1, <2>2
    <3> QED BY <3>1 DEF IsStray, IsDue
  <2> QED BY <2>1, <2>2
<1> QED BY <1>2, CountedThinned

\* A pick takes its place on a credential, which is then due.
LEMMA CountedAppended ==
  ASSUME Core, Counted, pick.at \in {"rank", "full", "reserve"}, NEW c \in Candidates,
         Appends(work, work', pick.r, c, clock), requests' = requests,
         pick'.at = "check", pick'.c = c, pick'.r = pick.r
  PROVE  Counted'
<1>1. pick.r \in Request /\ c \in Credential /\ Lives /\ ~IsHeld(work[pick.r][c])
  BY PickFacts, CoreFacts DEF Lives, Clear
<1>2. ASSUME NEW d \in Credential
      PROVE  Cardinality(Held(d)') + Cardinality(Strays(d)') >= Cardinality(Due(d)')
  <2>1. \A q \in Request : ~(q = pick.r /\ d = c) =>
          /\ (IsHeld(work'[q][d]) <=> IsHeld(work[q][d]))
          /\ (work'[q][d].at # Never => work[q][d].at # Never)
    BY DEF Appends, ThinsTo
  <2>2. \A q \in Request : ~(q = pick.r /\ d = c) => (IsDue(q, d)' => IsDue(q, d))
    BY <2>1 DEF IsDue
  <2>3. \A q \in Request : IsStray(q, d) => IsStray(q, d)'
    BY DEF IsStray
  <2>4. CASE d # c
    BY <2>1, <2>2, <2>3, <2>4, CountedKept
  <2>5. CASE d = c
    <3> DEFINE x == pick.r
               H == Held(d)'
               S == Strays(d)'
               D == Due(d)'
    <3>1. x \in Request /\ x \notin Held(d)
      BY <1>1, <2>5 DEF Held
    <3>2. IsHeld(work'[x][d])
      BY <2>5 DEF Appends, IsHeld
    <3>3. Held(d) \cup {x} \subseteq H
      BY <1>1, <2>1, <3>1, <3>2, CountedMembers, CountedSets
    <3>4. Strays(d) \subseteq S
      BY <2>3, CountedMembers, CountedSets
    <3>5. D \subseteq Due(d) \cup {x}
      BY <2>2, CountedMembers, CountedSets
    <3>6. /\ Held(d) \in SUBSET Request /\ Strays(d) \in SUBSET Request /\ Due(d) \in SUBSET Request
          /\ H \in SUBSET Request /\ S \in SUBSET Request /\ D \in SUBSET Request
      BY CountedSets
    <3>7. Cardinality(Held(d)) + Cardinality(Strays(d)) >= Cardinality(Due(d))
      BY DEF Counted
    <3> HIDE DEF x, H, S, D
    <3>8. Cardinality(Held(d)) + 1 <= Cardinality(H) /\ Cardinality(Held(d)) \in Nat /\ Cardinality(H) \in Nat
      BY <3>1, <3>3, <3>6, SetsGrowByOne
    <3>9. Cardinality(Strays(d)) <= Cardinality(S) /\ Cardinality(Strays(d)) \in Nat /\ Cardinality(S) \in Nat
      BY <3>4, <3>6, SetsGrow
    <3>10. Cardinality(D) <= Cardinality(Due(d)) + 1 /\ Cardinality(Due(d)) \in Nat /\ Cardinality(D) \in Nat
      <4>1. D \ {x} \subseteq Due(d)
        BY <3>5
      <4> QED BY <3>6, <4>1, SetsShrinkByOne
    <3>11. Cardinality(H) + Cardinality(S) >= Cardinality(D)
      BY <3>7, <3>8, <3>9, <3>10
    <3> QED BY <3>11 DEF H, S, D
  <2> QED BY <2>4, <2>5
<1> QED BY <1>2 DEF Counted

\* What a request holds goes when it is rolled back, and then it is not due.
LEMMA CountedRolledBack ==
  ASSUME Core, Counted, NEW r \in Request, requests[r].life = "picked", work' = RolledBack(r),
         requests' = [requests EXCEPT ![r].life = "gone"], pick' = pick
  PROVE  Counted'
<1>1. /\ Lives /\ requests \in [Request -> Call] /\ requests[r] \in Call /\ Good(work, clock)
      /\ requests[r].outcome = "none" /\ ~requests[r].matched
      /\ pick.at # "none" => pick.r # r
  <2>1. Lives /\ requests \in [Request -> Call] /\ requests[r] \in Call /\ Good(work, clock)
    BY CoreFacts
  <2>2. requests[r].outcome = "none" /\ ~requests[r].matched
    BY <2>1 DEF Lives
  <2> QED BY <2>1, <2>2, PickFacts
<1>2. /\ \A q \in Request : q # r => requests'[q] = requests[q]
      /\ requests'[r].life = "gone" /\ requests'[r].own = requests[r].own
      /\ requests'[r].c = requests[r].c /\ requests'[r].matched = requests[r].matched
  BY <1>1 DEF Call
<1>3. \A q \in Request, d \in Credential :
        work'[q][d] = IF q = r /\ work[q][d].at # Never THEN Nothing ELSE work[q][d]
  BY <1>1 DEF RolledBack, Entry, Good, Works
<1>4. ASSUME NEW d \in Credential
      PROVE  Cardinality(Held(d)') + Cardinality(Strays(d)') >= Cardinality(Due(d)')
  <2>1. \A q \in Request : IsStray(q, d) => IsStray(q, d)'
    BY <1>2 DEF IsStray
  <2>2. \A q \in Request : IsDue(q, d)' => IsDue(q, d) /\ q # r
    <3>1. ASSUME NEW q \in Request, q # r PROVE IsDue(q, d)' => IsDue(q, d)
      BY <1>2, <1>3, <3>1 DEF IsDue
    <3>2. ~IsDue(r, d)'
      <4>1. pick'.at = "check" => pick'.r # r
        BY <1>1
      <4> QED BY <1>2, <4>1 DEF IsDue
    <3> QED BY <3>1, <3>2
  <2>3. \A q \in Request : q # r => (IsHeld(work[q][d]) => IsHeld(work'[q][d]))
    BY <1>3
  <2>4. CASE work[r][d].at = Never
    <3>1. \A q \in Request : IsHeld(work[q][d]) => IsHeld(work'[q][d])
      BY <1>3, <2>3, <2>4
    <3> QED BY <2>1, <2>2, <3>1, CountedKept
  <2>5. CASE work[r][d].at # Never
    <3> DEFINE H == Held(d)'
               S == Strays(d)'
               D == Due(d)'
    <3>1. r \in Due(d)
      BY <2>5 DEF Due
    <3>2. Held(d) \ {r} \subseteq H
      BY <2>3, CountedMembers, CountedSets
    <3>3. Strays(d) \subseteq S
      BY <2>1, CountedMembers, CountedSets
    <3>4. D \subseteq Due(d) \ {r}
      BY <2>2, CountedMembers, CountedSets
    <3>5. /\ Held(d) \in SUBSET Request /\ Strays(d) \in SUBSET Request /\ Due(d) \in SUBSET Request
          /\ H \in SUBSET Request /\ S \in SUBSET Request /\ D \in SUBSET Request
      BY CountedSets
    <3>6. Cardinality(Held(d)) + Cardinality(Strays(d)) >= Cardinality(Due(d))
      BY DEF Counted
    <3> HIDE DEF H, S, D
    <3>7. Cardinality(Held(d)) <= Cardinality(H) + 1 /\ Cardinality(Held(d)) \in Nat /\ Cardinality(H) \in Nat
      BY <3>2, <3>5, SetsShrinkByOne
    <3>8. Cardinality(Strays(d)) <= Cardinality(S) /\ Cardinality(Strays(d)) \in Nat /\ Cardinality(S) \in Nat
      BY <3>3, <3>5, SetsGrow
    <3>9. Cardinality(D) + 1 <= Cardinality(Due(d)) /\ Cardinality(Due(d)) \in Nat /\ Cardinality(D) \in Nat
      <4>1. r \notin D /\ D \cup {r} \subseteq Due(d)
        BY <3>1, <3>4
      <4> QED BY <3>5, <4>1, SetsGrowByOne
    <3>10. Cardinality(H) + Cardinality(S) >= Cardinality(D)
      BY <3>6, <3>7, <3>8, <3>9
    <3> QED BY <3>10 DEF H, S, D
  <2> QED BY <2>4, <2>5
<1> QED BY <1>4 DEF Counted

\* A record takes an entry, whosever it is: its own request is due no more, or is astray.
LEMMA CountedMet ==
  ASSUME Core, Counted, NEW r \in Request, requests[r].life \in {"sent", "ended"}, ~requests[r].matched,
         NEW outcome \in Outcomes, NEW p \in Request, Met(p, requests[r].c),
         requests' = [requests EXCEPT ![r].outcome = outcome, ![r].matched = TRUE], pick' = pick
  PROVE  Counted'
<1> DEFINE c == requests[r].c
<1>1. /\ Lives /\ requests \in [Request -> Call] /\ requests[r] \in Call
      /\ c \in Credential /\ requests[r].own \in BOOLEAN
      /\ pick.at # "none" => pick.r # r
  <2>1. Lives /\ requests \in [Request -> Call] /\ requests[r] \in Call
    BY CoreFacts
  <2>2. c \in Credential /\ requests[r].own \in BOOLEAN
    BY <2>1 DEF Lives, Call
  <2> QED BY <2>1, <2>2, PickFacts
<1>2. /\ \A q \in Request : q # r => requests'[q] = requests[q]
      /\ requests'[r].life = requests[r].life /\ requests'[r].own = requests[r].own
      /\ requests'[r].c = c /\ requests'[r].matched
  BY <1>1 DEF Call
<1>3. /\ \A q \in Request, d \in Credential : ~(q = p /\ d = c) =>
           /\ (IsHeld(work'[q][d]) <=> IsHeld(work[q][d]))
           /\ (work'[q][d].at # Never => work[q][d].at # Never)
      /\ ~IsHeld(work'[p][c])
  BY DEF Met
<1>4. \A q \in Request, d \in Credential : work'[q][d].at # Never => work[q][d].at # Never
  BY <1>3 DEF IsHeld
<1> HIDE DEF c
<1>5. ASSUME NEW d \in Credential
      PROVE  Cardinality(Held(d)') + Cardinality(Strays(d)') >= Cardinality(Due(d)')
  <2>1. \A q \in Request : IsStray(q, d) => IsStray(q, d)'
    BY <1>2 DEF IsStray, c
  <2>2. \A q \in Request : IsDue(q, d)' => IsDue(q, d) /\ q # r
    <3>1. ASSUME NEW q \in Request, q # r PROVE IsDue(q, d)' => IsDue(q, d)
      BY <1>2, <1>4, <3>1 DEF IsDue
    <3>2. ~IsDue(r, d)'
      <4>1. pick'.at = "check" => pick'.r # r
        BY <1>1
      <4> QED BY <1>2, <4>1 DEF IsDue
    <3> QED BY <3>1, <3>2
  <2>3. CASE d # c
    <3>1. \A q \in Request : IsHeld(work[q][d]) => IsHeld(work'[q][d])
      BY <1>3, <2>3
    <3> QED BY <2>1, <2>2, <3>1, CountedKept
  <2>4. CASE d = c
    <3> DEFINE H == Held(d)'
               S == Strays(d)'
               D == Due(d)'
    <3>1. Held(d) \ {p} \subseteq H
      BY <1>3, CountedMembers, CountedSets
    <3>2. Strays(d) \subseteq S
      BY <2>1, CountedMembers, CountedSets
    <3>3. D \subseteq Due(d) \ {r}
      BY <2>2, CountedMembers, CountedSets
    <3>4. /\ Held(d) \in SUBSET Request /\ Strays(d) \in SUBSET Request /\ Due(d) \in SUBSET Request
          /\ H \in SUBSET Request /\ S \in SUBSET Request /\ D \in SUBSET Request
      BY CountedSets
    <3>5. Cardinality(Held(d)) + Cardinality(Strays(d)) >= Cardinality(Due(d))
      BY DEF Counted
    <3>6. requests[r].own => r \in Due(d)
      BY <2>4 DEF Due, c
    <3>7. ~requests[r].own => r \notin Strays(d) /\ r \in S
      BY <1>2, <2>4, CountedMembers DEF Strays, IsStray
    <3> HIDE DEF H, S, D
    <3>8. Cardinality(Held(d)) <= Cardinality(H) + 1 /\ Cardinality(Held(d)) \in Nat /\ Cardinality(H) \in Nat
      BY <3>1, <3>4, SetsShrinkByOne
    <3>9. CASE requests[r].own
      <4>1. Cardinality(Strays(d)) <= Cardinality(S) /\ Cardinality(Strays(d)) \in Nat /\ Cardinality(S) \in Nat
        BY <3>2, <3>4, SetsGrow
      <4>2. Cardinality(D) + 1 <= Cardinality(Due(d)) /\ Cardinality(Due(d)) \in Nat /\ Cardinality(D) \in Nat
        <5>1. r \notin D /\ D \cup {r} \subseteq Due(d)
          BY <3>3, <3>6, <3>9
        <5> QED BY <3>4, <5>1, SetsGrowByOne
      <4>3. Cardinality(H) + Cardinality(S) >= Cardinality(D)
        BY <3>5, <3>8, <4>1, <4>2
      <4> QED BY <4>3 DEF H, S, D
    <3>10. CASE ~requests[r].own
      <4>1. Cardinality(Strays(d)) + 1 <= Cardinality(S) /\ Cardinality(Strays(d)) \in Nat /\ Cardinality(S) \in Nat
        <5>1. r \notin Strays(d) /\ Strays(d) \cup {r} \subseteq S
          BY <3>2, <3>7, <3>10
        <5> QED BY <3>4, <5>1, SetsGrowByOne
      <4>2. Cardinality(D) <= Cardinality(Due(d)) /\ Cardinality(Due(d)) \in Nat /\ Cardinality(D) \in Nat
        <5>1. D \subseteq Due(d)
          BY <3>3
        <5> QED BY <3>4, <5>1, SetsGrow
      <4>3. Cardinality(H) + Cardinality(S) >= Cardinality(D)
        BY <3>5, <3>8, <4>1, <4>2
      <4> QED BY <4>3 DEF H, S, D
    <3> QED BY <3>9, <3>10
  <2> QED BY <2>3, <2>4
<1> QED BY <1>5 DEF Counted

\* Every step keeps what is held above what is due.
LEMMA CountedStep ==
  ASSUME Core, Counted, [Next]_vars
  PROVE  Counted'
<1>0. Lives /\ requests \in [Request -> Call]
  BY CoreFacts
<1>1. CASE UNCHANGED vars
  BY <1>1, CountedSame DEF vars
<1>2. CASE Tick
  BY <1>2, CountedSame DEF Tick
<1>3. CASE Reserve
  <2>1. /\ requests' = requests /\ pick.at = "reserve" /\ pick.c \in Candidates
        /\ \/ Thinned(work, work', clock) /\ pick'.at = "full"
           \/ /\ Appends(work, work', pick.r, pick.c, clock)
              /\ pick'.at = "check" /\ pick'.c = pick.c /\ pick'.r = pick.r
    BY <1>3, ReserveCore
  <2> QED BY <2>1, CountedSame, CountedAppended
<1>4. CASE Accept
  <2> DEFINE r == pick.r
             call == [requests[r] EXCEPT !.life = "picked", !.c = pick.c, !.own = TRUE]
  <2>1. pick.at = "check" /\ pick' = NoPick /\ work' = work /\ r \in Request
        /\ requests[r] \in Call /\ requests[r].life = "picking" /\ ~requests[r].matched
        /\ requests' = [requests EXCEPT ![r].life = "picked", ![r].c = pick.c, ![r].own = TRUE]
    BY <1>0, <1>4, PickFacts DEF Accept, Lives
  <2>2. requests' = [requests EXCEPT ![r] = call]
    BY <1>0, <2>1
  <2>3. call.life = "picked" /\ call.c = pick.c /\ call.own /\ ~call.matched
    BY <2>1 DEF Call
  <2> HIDE DEF call
  <2>4. ASSUME NEW c \in Credential
        PROVE  /\ IsStray(r, c) => ~call.own /\ call.c = c /\ call.matched
               /\ call.own /\ call.c = c /\ call.life # "gone" /\ ~call.matched => IsDue(r, c)
               /\ work[r][c].at # Never /\ call.life \in {"picking", "picked"} => IsDue(r, c)
    BY <2>1, <2>3 DEF IsStray, IsDue
  <2>5. pick'.at # "check"
    BY <2>1, Empties
  <2> HIDE DEF r
  <2> QED BY <2>1, <2>2, <2>4, <2>5, CountedOne
<1>5. CASE Retry
  BY <1>5, RetryCore, CountedSame
<1>6. CASE Look
  BY <1>6, LookCore, CountedSame DEF Look
<1>7. ASSUME NEW c \in Credential, Rank(c) PROVE Counted'
  BY <1>7, RankCore, CountedSame
<1>8. ASSUME NEW c \in Credential, RankBlind(c) PROVE Counted'
  BY <1>8, RankBlindCore, CountedAppended
<1>9. ASSUME NEW d \in Credential, Native(d) PROVE Counted'
  <2> DEFINE r == pick.r
             call == [requests[r] EXCEPT !.life = "picked", !.c = d]
  <2>1. pick.at \in {"rank", "full"} /\ pick' = NoPick
        /\ requests' = [requests EXCEPT ![r].life = "picked", ![r].c = d]
    BY <1>9 DEF Native
  <2>2. r \in Request /\ requests[r] \in Call /\ requests[r].life = "picking" /\ ~requests[r].matched
        /\ ~requests[r].own
    BY <1>0, <2>1, PickFacts DEF Lives
  <2>3. requests' = [requests EXCEPT ![r] = call]
    BY <1>0, <2>1, <2>2
  <2>4. call.life = "picked" /\ ~call.own /\ ~call.matched
    BY <2>2 DEF Call
  <2> HIDE DEF call
  <2>5. ASSUME NEW c \in Credential
        PROVE  /\ IsStray(r, c) => ~call.own /\ call.c = c /\ call.matched
               /\ call.own /\ call.c = c /\ call.life # "gone" /\ ~call.matched => IsDue(r, c)
               /\ work[r][c].at # Never /\ call.life \in {"picking", "picked"} => IsDue(r, c)
    BY <2>2, <2>4 DEF IsStray, IsDue
  <2>6. pick'.at # "check" /\ Thinned(work, work', clock)
    BY <1>9, <2>1, Empties, NativeCore
  <2> HIDE DEF r
  <2> QED BY <2>2, <2>3, <2>5, <2>6, CountedOne
<1>10. ASSUME NEW r \in Request, NEW s \in Session, Arrive(r, s) PROVE Counted'
  <2> DEFINE call == [requests[r] EXCEPT !.life = "picking", !.s = s]
  <2>1. requests[r].life = "new" /\ requests' = [requests EXCEPT ![r] = call] /\ pick'.at = "rank"
    BY <1>0, <1>10, CoreFacts, AttemptFacts DEF Arrive
  <2>2. requests[r] \in Call /\ ~requests[r].own /\ ~requests[r].matched /\ Clear(r, Credential)
    BY <1>0, <2>1 DEF Lives
  <2>3. ~call.own /\ ~call.matched
    BY <2>2 DEF Call
  <2> HIDE DEF call
  <2>4. ASSUME NEW c \in Credential
        PROVE  /\ IsStray(r, c) => ~call.own /\ call.c = c /\ call.matched
               /\ call.own /\ call.c = c /\ call.life # "gone" /\ ~call.matched => IsDue(r, c)
               /\ work[r][c].at # Never /\ call.life \in {"picking", "picked"} => IsDue(r, c)
    BY <2>2, <2>3 DEF IsStray, Clear, IsHeld
  <2>5. work' = work
    BY <1>10, ArriveCore
  <2> QED BY <2>1, <2>4, <2>5, CountedOne
<1>11. ASSUME NEW r \in Request, Send(r) PROVE Counted'
  <2> DEFINE call == [requests[r] EXCEPT !.life = "sent", !.start = clock]
  <2>1. requests[r].life = "picked" /\ requests' = [requests EXCEPT ![r] = call] /\ pick' = pick /\ work' = work
    BY <1>0, <1>11 DEF Send
  <2>2. requests[r] \in Call
    BY <1>0
  <2>3. call.life = "sent" /\ call.c = requests[r].c /\ call.own = requests[r].own
        /\ call.matched = requests[r].matched
    BY <2>2 DEF Call
  <2> HIDE DEF call
  <2>4. ASSUME NEW c \in Credential
        PROVE  /\ IsStray(r, c) => ~call.own /\ call.c = c /\ call.matched
               /\ call.own /\ call.c = c /\ call.life # "gone" /\ ~call.matched => IsDue(r, c)
               /\ work[r][c].at # Never /\ call.life \in {"picking", "picked"} => IsDue(r, c)
    BY <2>1, <2>3 DEF IsStray, IsDue
  <2> QED BY <2>1, <2>4, CountedOne
<1>12. ASSUME NEW r \in Request, End(r) PROVE Counted'
  <2> DEFINE call == [requests[r] EXCEPT !.life = "ended"]
  <2>1. /\ pick' = pick
        /\ \/ /\ requests[r].life = "sent" /\ work' = work
              /\ requests' = [requests EXCEPT ![r].life = "ended"]
           \/ /\ requests[r].life = "picked" /\ work' = RolledBack(r)
              /\ requests' = [requests EXCEPT ![r].life = "gone"]
    BY <1>12, EndCore
  <2>2. CASE requests[r].life = "picked"
    BY <2>1, <2>2, CountedRolledBack
  <2>3. CASE requests[r].life = "sent"
    <3>1. requests' = [requests EXCEPT ![r] = call] /\ work' = work
      BY <1>0, <2>1, <2>3
    <3>2. call.life = "ended" /\ call.c = requests[r].c /\ call.own = requests[r].own
          /\ call.matched = requests[r].matched
      BY <1>0 DEF Call
    <3> HIDE DEF call
    <3>3. ASSUME NEW c \in Credential
          PROVE  /\ IsStray(r, c) => ~call.own /\ call.c = c /\ call.matched
                 /\ call.own /\ call.c = c /\ call.life # "gone" /\ ~call.matched => IsDue(r, c)
                 /\ work[r][c].at # Never /\ call.life \in {"picking", "picked"} => IsDue(r, c)
      BY <2>3, <3>2 DEF IsStray, IsDue
    <3> QED BY <2>1, <3>1, <3>3, CountedOne
  <2> QED BY <2>1, <2>2, <2>3
<1>13. ASSUME NEW r \in Request, Repeat(r) \/ \E o \in Outcomes, t \in Captured : Usage(r, o, t)
       PROVE  Counted'
  <2>1. PICK outcome \in Outcomes :
           /\ pick' = pick /\ requests[r].life \in {"sent", "ended"}
           /\ \/ /\ Thinned(work, work', clock)
                 /\ requests' = [requests EXCEPT ![r].outcome = outcome]
              \/ /\ ~requests[r].matched /\ \E p \in Request : Met(p, requests[r].c)
                 /\ requests' = [requests EXCEPT ![r].outcome = outcome, ![r].matched = TRUE]
    BY <1>13, RecordCore
  <2>2. ASSUME Thinned(work, work', clock), requests' = [requests EXCEPT ![r].outcome = outcome]
        PROVE  Counted'
    <3> DEFINE call == [requests[r] EXCEPT !.outcome = outcome]
    <3>1. requests' = [requests EXCEPT ![r] = call]
      BY <1>0, <2>2
    <3>2. call.life = requests[r].life /\ call.c = requests[r].c /\ call.own = requests[r].own
          /\ call.matched = requests[r].matched
      BY <1>0 DEF Call
    <3> HIDE DEF call
    <3>3. ASSUME NEW c \in Credential
          PROVE  /\ IsStray(r, c) => ~call.own /\ call.c = c /\ call.matched
                 /\ call.own /\ call.c = c /\ call.life # "gone" /\ ~call.matched => IsDue(r, c)
                 /\ work[r][c].at # Never /\ call.life \in {"picking", "picked"} => IsDue(r, c)
      BY <2>1, <3>2 DEF IsStray, IsDue
    <3> QED BY <2>1, <2>2, <3>1, <3>3, CountedOne
  <2>3. ASSUME ~requests[r].matched, NEW p \in Request, Met(p, requests[r].c),
               requests' = [requests EXCEPT ![r].outcome = outcome, ![r].matched = TRUE]
        PROVE  Counted'
    BY <2>1, <2>3, CountedMet
  <2> QED BY <2>1, <2>2, <2>3
<1>14. ASSUME NEW c \in Credential, NEW left \in [Layer -> Levels], Read(c, left) PROVE Counted'
  BY <1>14, ReadCore, CountedSame DEF Read
<1> QED BY <1>1, <1>2, <1>3, <1>4, <1>5, <1>6, <1>7, <1>8, <1>9, <1>10, <1>11, <1>12, <1>13, <1>14, OneStep

\* Nothing is due at the start.
LEMMA CountedInit ==
  ASSUME Init
  PROVE  Counted
<1>1. /\ \A r \in Request : requests[r] = Waiting /\ \A c \in Credential : work[r][c] = Nothing
      /\ pick = NoPick
  BY DEF Init
<1>2. ASSUME NEW c \in Credential PROVE Due(c) = {}
  BY <1>1, Empties DEF Due
<1>3. ASSUME NEW c \in Credential
      PROVE  Cardinality(Held(c)) + Cardinality(Strays(c)) >= Cardinality(Due(c))
  <2>1. Cardinality(Held(c)) \in Nat /\ Cardinality(Strays(c)) \in Nat
    BY CountedSets, SetsGrow
  <2> QED BY <1>2, <2>1, FS_EmptySet
<1> QED BY <1>3 DEF Counted

(* The invariant and what follows from it.                                  *)

Inv == Core /\ Counted

\* The invariant holds throughout.
THEOREM InvHolds == Spec => []Inv
<1>1. Init => Inv
  BY CoreInit, CountedInit DEF Inv
<1>2. Inv /\ [Next]_vars => Inv'
  BY CoreStep, CountedStep DEF Inv
<1> QED BY <1>1, <1>2, PTL DEF Spec

\* Every variable keeps its shape; a credential has at most MaxPending entries (balancedPick)
\* and at most SessionLimit conversations are bound (bindBalancedSessionLocked).
THEOREM TypeCorrect == Spec => []TypeOK
<1>1. Inv => TypeOK
  <2>1. ASSUME Inv PROVE TypeOK
    <3>1. Types /\ Limits /\ Times /\ clock \in Nat /\ spent \in Nat /\ spent <= MaxEvents
      BY <2>1, CoreFacts DEF Inv, Core
    <3>2. \A r \in Request, c \in Credential : work[r][c] \in Item(clock)
      BY <3>1 DEF Types, Good, Works
    <3>3. bindings \in [Session -> {NoBinding} \cup [c : Credential, last : 0..clock]]
      BY <3>1 DEF Types, Binding
    <3>4. circuits \in [Credential -> {NoCircuit} \cup [until : 0..clock + Longest + AuthRetry,
                                                        failures : 1..Cardinality(Request) + MaxEvents]]
      <4>1. Cardinality(Request) \in Nat
        BY Numbers, FS_CardinalityType
      <4>2. ASSUME NEW c \in Credential
            PROVE  circuits[c] \in {NoCircuit} \cup [until : 0..clock + Longest + AuthRetry,
                                                     failures : 1..Cardinality(Request) + MaxEvents]
        <5>1. circuits[c] \in Circuit(clock) /\ circuits[c].failures <= spent
          BY <3>1 DEF Types, Times
        <5>2. CASE circuits[c] = NoCircuit
          BY <5>2
        <5>3. CASE circuits[c] \in [until : 0..clock + Longest + AuthRetry, failures : Nat \ {0}]
          <6>1. circuits[c].failures \in 1..Cardinality(Request) + MaxEvents
            BY <3>1, <4>1, <5>1, <5>3, Numbers
          <6> QED BY <5>3, <6>1
        <5> QED BY <5>1, <5>2, <5>3 DEF Circuit
      <4> QED BY <3>1, <4>2 DEF Types
    <3>5. pick.at \in {"none", "rank", "reserve", "full", "check"} /\ pick.out \subseteq Credential
      BY <3>1 DEF Types, Choice
    <3> QED BY <3>1, <3>2, <3>3, <3>4, <3>5 DEF TypeOK, Types, Limits, Item, Marks
  <2> QED BY <2>1
<1> QED BY <1>1, InvHolds, PTL

\* A debit is counted by its reservation or by its entry, never by both and never together
\* with a debt that settles, and a reservation in force has its entry (adqReservationBook).
THEOREM DebitsOnce == Spec => []DebitOnce
<1>1. Inv => DebitOnce
  <2>1. ASSUME Inv PROVE DebitOnce
    <3>1. \A r \in Request, c \in Credential : Sound(work[r][c])
      BY <2>1 DEF Inv, Core, Types, Good
    <3> QED BY <3>1 DEF DebitOnce, Sound
  <2> QED BY <2>1
<1> QED BY <1>1, InvHolds, PTL

\* However records and entries meet, no running request goes uncounted (observeBalancedUsage).
THEOREM RunningIsCounted == Spec => []RunningWorkIsCounted
<1>1. Inv => RunningWorkIsCounted
  <2>1. ASSUME Inv, NEW c \in Credential
        PROVE  Cardinality(Entries(work, c)) + Cardinality(Dropped(c)) + Cardinality(Strays(c))
                 >= Cardinality(Running(c))
    <3>1. Lives /\ Cardinality(Held(c)) + Cardinality(Strays(c)) >= Cardinality(Due(c))
      BY <2>1, CoreFacts DEF Inv, Counted
    <3>2. Running(c) \subseteq Due(c)
      BY <3>1 DEF Running, Due, Lives
    <3> DEFINE E == Entries(work, c)
               D == Dropped(c)
               S == Strays(c)
               H == Held(c)
               U == Due(c)
               R == Running(c)
    <3>3. /\ E \in SUBSET Request /\ D \in SUBSET Request /\ S \in SUBSET Request
          /\ H \in SUBSET Request /\ U \in SUBSET Request /\ R \in SUBSET Request /\ H \subseteq E \cup D
      BY DEF Entries, Dropped, Strays, Held, Due, Running, IsHeld
    <3>4. Cardinality(H) + Cardinality(S) >= Cardinality(U) /\ R \subseteq U
      BY <3>1, <3>2
    <3> HIDE DEF E, D, S, H, U, R
    <3>5. Cardinality(R) <= Cardinality(U) /\ Cardinality(R) \in Nat /\ Cardinality(U) \in Nat
      BY <3>3, <3>4, SetsGrow
    <3>6. Cardinality(H) <= Cardinality(E \cup D) /\ Cardinality(H) \in Nat /\ Cardinality(E \cup D) \in Nat
      <4>1. E \cup D \in SUBSET Request
        BY <3>3
      <4> QED BY <3>3, <4>1, SetsGrow
    <3>7. Cardinality(E \cup D) <= Cardinality(E) + Cardinality(D)
      <4>1. IsFiniteSet(E) /\ IsFiniteSet(D)
        BY <3>3, Numbers, FS_Subset
      <4>2. Cardinality(E \cup D) = Cardinality(E) + Cardinality(D) - Cardinality(E \cap D)
        BY <4>1, FS_Union
      <4>3. Cardinality(E \cap D) \in Nat /\ Cardinality(E) \in Nat /\ Cardinality(D) \in Nat
        BY <4>1, FS_Intersection, FS_CardinalityType
      <4> QED BY <4>2, <4>3
    <3>8. Cardinality(E) \in Nat /\ Cardinality(D) \in Nat /\ Cardinality(S) \in Nat
      BY <3>3, SetsGrow
    <3>9. Cardinality(E) + Cardinality(D) + Cardinality(S) >= Cardinality(R)
      BY <3>4, <3>5, <3>6, <3>7, <3>8
    <3> QED BY <3>9 DEF E, D, S, R
  <2> QED BY <2>1 DEF RunningWorkIsCounted
<1> QED BY <1>1, InvHolds, PTL

\* A conversation that is used has a binding a ranking finds valid.
LEMMA ConversingIsValid ==
  ASSUME Core, pick.at = "rank", Conversing(pick.s)
  PROVE  Valid(pick.s, T) /\ \A b \in Bindings : b[pick.s] = bindings[pick.s]
<1> DEFINE x == bindings[pick.s]
<1>1. /\ pick.s \in Session /\ clock \in Nat /\ T \in latest..clock /\ latest \in 0..clock
      /\ Parts
  BY PickFacts, CoreFacts
<1>2. x \in Binding(clock) /\ x.last <= latest /\ x # NoBinding
  BY <1>1 DEF Parts, WellBound, Conversing
<1>3. x.last \in 0..clock
  BY <1>1, <1>2, BindingFacts
<1>4. clock - x.last <= Sticky \/ Active(pick.s, x.c)
  BY DEF Conversing
<1>5. T >= x.last /\ (T - x.last <= Sticky \/ Active(pick.s, x.c))
  <2> HIDE DEF x
  <2>1. T >= x.last
    BY <1>1, <1>2, <1>3
  <2>2. clock - x.last <= Sticky => T - x.last <= Sticky
    BY <1>1, <1>3, Numbers
  <2> QED BY <1>4, <2>1, <2>2
<1>6. Valid(pick.s, T)
  BY <1>2, <1>5 DEF Valid
<1>7. ASSUME NEW b \in Bindings PROVE b[pick.s] = bindings[pick.s]
  <2>1. b = bindings \/ b = Kept(T)
    BY DEF Bindings, MayKeep
  <2>2. Kept(T)[pick.s] = bindings[pick.s]
    BY <1>1, <1>6 DEF Kept
  <2> QED BY <2>1, <2>2
<1> QED BY <1>6, <1>7

\* A conversation in use stays on its credential as long as that passes the hard gate,
\* however long the pick waited for the lock (balancedPick, balancedSessionValidLocked).
THEOREM ConversationsKept == Spec => ConversationsStay
<1> DEFINE Q == LET own == bindings[pick.s].c
                IN  /\ pick.at = "rank" /\ pick'.at \in {"reserve", "check"}
                    /\ Conversing(pick.s) /\ own \in Candidates
                    /\ Blind \/ Eligible(Pruned, own, own)
                    => pick'.c = own
<1>1. ASSUME Inv, [Next]_vars PROVE Q
  <2> DEFINE own == bindings[pick.s].c
  <2> SUFFICES ASSUME pick.at = "rank", pick'.at \in {"reserve", "check"},
                      Conversing(pick.s), own \in Candidates, Blind \/ Eligible(Pruned, own, own)
               PROVE  pick'.c = own
    OBVIOUS
  <2>1. Core /\ pick.full = {}
    BY <1>1, CoreFacts DEF Inv, Parts, Picking
  <2>2. Valid(pick.s, T) /\ \A b \in Bindings : b[pick.s].c = own
    BY <2>1, ConversingIsValid
  <2>3. CASE UNCHANGED vars
    BY <2>3 DEF vars
  <2>4. ASSUME NEW c \in Credential, Rank(c) PROVE pick'.c = own
    <3>1. pick'.c = c /\ ~Blind
      BY <2>1, <2>4, RankCore DEF Rank
    <3>2. PICK b \in Bindings : b[pick.s].c \in Able(b[pick.s].c) => c = b[pick.s].c
      BY <2>4 DEF Rank
    <3>3. own \in Able(own)
      BY <2>1, <3>1 DEF Able
    <3> QED BY <2>2, <3>1, <3>2, <3>3
  <2>5. ASSUME NEW c \in Credential, RankBlind(c) PROVE pick'.c = own
    <3>1. pick'.c = c
      BY <2>1, <2>5, RankBlindCore
    <3>2. c = own
      BY <2>2, <2>5 DEF RankBlind
    <3> QED BY <3>1, <3>2
  <2>6. ASSUME NEW c \in Credential, Native(c) PROVE FALSE
    BY <2>6, Empties DEF Native
  <2>7. ~Tick /\ ~Reserve /\ ~Accept /\ ~Retry /\ ~Look
    <3>1. pick' # pick
      OBVIOUS
    <3> QED BY <3>1 DEF Tick, Reserve, Accept, Retry, Look
  <2>8. \A r \in Request, s \in Session : ~Arrive(r, s)
    BY DEF Arrive
  <2>9. \A r \in Request : ~Send(r) /\ ~End(r)
    BY DEF Send, End
  <2>10. \A r \in Request : ~Repeat(r) /\ \A o \in Outcomes, t \in Captured : ~Usage(r, o, t)
    BY DEF Repeat, Usage, Observe
  <2>11. \A c \in Credential, left \in [Layer -> Levels] : ~Read(c, left)
    BY DEF Read
  <2> QED BY <1>1, <2>3, <2>4, <2>5, <2>6, <2>7, <2>8, <2>9, <2>10, <2>11, OneStep
<1> HIDE DEF Q
<1>2. Inv /\ [Next]_vars => [Q]_vars
  BY <1>1
<1>3. [][Q]_vars => ConversationsStay
  BY PTL DEF ConversationsStay, Q
<1> QED BY <1>2, <1>3, InvHolds, PTL DEF Spec
=============================================================================
