-------------------------- MODULE QuotaEpoch_proofs --------------------------
(***************************************************************************)
(* Proofs about QuotaEpoch for any credentials, batch and bounds: types,   *)
(* that demand for a probe survives, that an epoch activates a credential  *)
(* once, and that a reset is confirmed by a quorum.                        *)
(*                                                                         *)
(* The invariant has four parts.  Types is TypeOK with the worker, the     *)
(* activation and the history.  DemandSurvives is inductive as it stands.  *)
(* Activated relates the row that an activation leaves behind, by which    *)
(* the next one is suppressed, to the epochs of the credential's           *)
(* activations.  Witnessed says that the targets of a sweep include every  *)
(* credential whose reading the worker found when it began, and that what  *)
(* the sweep holds as evidence was seen.                                   *)
(***************************************************************************)
EXTENDS QuotaEpoch, TLAPS, FiniteSetTheorems, WellFoundedInduction

Causes == {"none", "bootstrap", "inventory", "reset"}
GoodAccount == {a \in Account : a.probes > ProbeLimit => a.late}
EpochType == [id : Nat, reason : {"none", "bootstrap", "reset"}, age : 0..2,
              cycle : {Unknown.cycle} \cup 0..MaxReset, account : [Credential -> GoodAccount]]
TargetType == [in : BOOLEAN, tried : BOOLEAN, observed : {"no", "old", "yes"}, evidence : BOOLEAN]
SweepType == [active : BOOLEAN, cause : Causes, overdue : BOOLEAN, round : 1..MaxRounds, waiting : BOOLEAN,
              users : SUBSET Credential, target : [Credential -> TargetType]]
PollType == [pending : BOOLEAN, error : BOOLEAN, used : BOOLEAN]
RowType == [epoch : Nat, kind : {"none", "hard", "done"}]
RefreshType == [at : {"idle", "ready", "asking", "apply", "block", "warm"}, c : Credential \cup {Nobody},
                had : PollType, used : BOOLEAN, header : BOOLEAN, early : BOOLEAN,
                inv : SUBSET Credential, read : SUBSET Credential, asked : SUBSET Credential,
                then : {"ready", "warm"}, blocked : SUBSET Credential]
WarmupType == [at : {"none", "admitted", "sent", "returned"}, c : Credential \cup {Nobody}, epoch : Nat,
               outcome : {"none", "done", "failed", "hard"}]
SpentType == [reset : 0..MaxReset, use : Nat, move : Nat, warm : Nat, trouble : Nat]
HistoryType == [warmed : [Credential -> SUBSET Nat], unserved : SUBSET Credential,
                witnesses : SUBSET Credential]
QuotaType == [Credential -> Reading \cup {Unknown}]

Types ==
    /\ truth \in [Credential -> Reading] /\ host \subseteq Credential
    /\ quotas \in QuotaType
    /\ polls \in [Credential -> PollType]
    /\ epoch \in EpochType /\ sweep \in SweepType /\ refresh \in RefreshType
    /\ rows \in [Credential -> RowType] /\ warmup \in WarmupType
    /\ spent \in SpentType /\ history \in HistoryType
    /\ refresh.at = "asking" => refresh.c \in refresh.inv
    /\ warmup.at # "none" => warmup.c \in Credential

(* The numbers and the empty records.                                       *)

\* The bounds.
LEMMA Bounds ==
  /\ MaxRounds \in Nat /\ MaxRounds >= 1 /\ ProbeLimit \in Nat /\ ProbeLimit >= 1 /\ Batch \in Nat
  /\ MaxReset \in Nat /\ MaxUse \in Nat /\ MaxMove \in Nat /\ MaxEpoch \in Nat /\ MaxWarm \in Nat
  /\ MaxTrouble \in Nat /\ MaxEvents \in Nat /\ IsFiniteSet(Credential) /\ Nobody \notin Credential
<1>1. /\ MaxRounds \in Nat \ {0} /\ ProbeLimit \in Nat \ {0} /\ Batch \in Nat \ {0}
      /\ MaxReset \in Nat /\ MaxUse \in Nat /\ MaxMove \in Nat /\ MaxEpoch \in Nat /\ MaxWarm \in Nat
      /\ MaxTrouble \in Nat /\ MaxEvents \in Nat /\ IsFiniteSet(Credential) /\ Nobody \notin Credential
  BY QuotaEpochAssumption
<1> QED BY <1>1

\* The fields of the records that stand for nothing.
LEMMA Empties ==
  /\ NoAccount \in GoodAccount /\ Pending \in GoodAccount
  /\ NoAccount.state = "none" /\ Pending.state = "pending" /\ Pending.probes = 0 /\ ~Pending.seen
  /\ NoTarget \in TargetType /\ Target \in TargetType /\ ~NoTarget.in /\ Target.in
  /\ ~NoTarget.evidence /\ ~Target.evidence
  /\ NoSweep \in SweepType /\ ~NoSweep.active
  /\ NoPoll \in PollType /\ NoRow \in RowType /\ NoRow.kind = "none"
  /\ Resting \in RefreshType /\ Resting.at = "idle"
  /\ NoWarmup \in WarmupType /\ NoWarmup.at = "none"
  /\ Unknown.cycle = -1 /\ Unknown \notin Reading /\ Unknown.used = FALSE
<1>1. NoAccount \in GoodAccount /\ Pending \in GoodAccount
      /\ NoAccount.state = "none" /\ Pending.state = "pending" /\ Pending.probes = 0 /\ ~Pending.seen
  <2>1. NoAccount \in Account /\ NoAccount.state = "none" /\ NoAccount.probes = 0 /\ ~NoAccount.seen
    BY Bounds DEF NoAccount, Account
  <2>2. ASSUME NEW a \in Account
        PROVE  /\ [a EXCEPT !.state = "pending"] \in Account
               /\ [a EXCEPT !.state = "pending"].state = "pending"
               /\ [a EXCEPT !.state = "pending"].probes = a.probes
               /\ [a EXCEPT !.state = "pending"].seen = a.seen
    BY Bounds DEF Account
  <2>3. Pending \in Account /\ Pending.state = "pending" /\ Pending.probes = 0 /\ ~Pending.seen
    BY <2>1, <2>2, Zenon DEF Pending
  <2> QED BY <2>1, <2>3, Bounds DEF GoodAccount
<1>2. NoTarget \in TargetType /\ Target \in TargetType /\ ~NoTarget.in /\ Target.in
      /\ ~NoTarget.evidence /\ ~Target.evidence
  BY DEF NoTarget, Target, TargetType
<1>3. NoSweep \in SweepType /\ ~NoSweep.active
  <2> DEFINE t == [c \in Credential |-> NoTarget]
  <2>1. t \in [Credential -> TargetType]
    BY <1>2
  <2> HIDE DEF t
  <2> QED BY <2>1, Bounds DEF NoSweep, SweepType, Causes, t
<1>4. NoPoll \in PollType /\ NoRow \in RowType /\ NoRow.kind = "none"
  BY DEF NoPoll, PollType, NoRow, RowType
<1>5. Resting \in RefreshType /\ Resting.at = "idle"
  BY <1>4 DEF Resting, RefreshType
<1>6. NoWarmup \in WarmupType /\ NoWarmup.at = "none"
  BY DEF NoWarmup, WarmupType
<1>7. Unknown.cycle = -1 /\ Unknown \notin Reading /\ Unknown.used = FALSE
  BY Bounds DEF Unknown, Reading
<1> QED BY <1>1, <1>2, <1>3, <1>4, <1>5, <1>6, <1>7

(* Sweeps.                                                                  *)

\* The record of a sweep that begins anew.
Anew(sw, cause) == [sw EXCEPT !.active = TRUE, !.cause = cause, !.overdue = FALSE, !.round = 1,
                              !.waiting = FALSE, !.users = {}]
Aimed(sw, t) == [sw EXCEPT !.target = t]
Retargeted(sw, S, kept) ==
    [c \in Credential |-> IF c \in kept THEN sw.target[c] ELSE IF c \in S THEN Target ELSE NoTarget]

\* It is a sweep with its cause.
LEMMA AnewFacts ==
  ASSUME NEW sw \in SweepType, NEW cause \in Causes
  PROVE  /\ Anew(sw, cause) \in SweepType /\ Anew(sw, cause).active /\ Anew(sw, cause).cause = cause
         /\ Anew(sw, cause).target = sw.target
<1> DEFINE half == [sw EXCEPT !.active = TRUE, !.cause = cause, !.overdue = FALSE]
           whole == [half EXCEPT !.round = 1, !.waiting = FALSE, !.users = {}]
<1>1. half \in SweepType /\ half.active /\ half.cause = cause /\ half.target = sw.target
  BY DEF SweepType
<1> HIDE DEF half
<1>2. 1 \in 1..MaxRounds
  BY Bounds
<1>3. /\ whole \in SweepType /\ whole.active = half.active /\ whole.cause = half.cause
      /\ whole.target = half.target
  BY <1>1, <1>2 DEF SweepType
<1>4. Anew(sw, cause) = whole
  BY Zenon DEF Anew, half
<1> HIDE DEF whole
<1> QED BY <1>1, <1>3, <1>4

\* Other targets leave the rest of the sweep alone.
LEMMA AimedFacts ==
  ASSUME NEW sw \in SweepType, NEW t \in [Credential -> TargetType]
  PROVE  /\ Aimed(sw, t) \in SweepType /\ Aimed(sw, t).target = t
         /\ Aimed(sw, t).active = sw.active /\ Aimed(sw, t).cause = sw.cause
         /\ Aimed(sw, t).overdue = sw.overdue /\ Aimed(sw, t).round = sw.round
<1> QED BY DEF Aimed, SweepType

\* The targets follow the inventory, and those kept keep what was seen of them.
LEMMA RetargetedFacts ==
  ASSUME NEW sw \in SweepType, NEW S \in SUBSET Credential, NEW kept, kept \subseteq S
  PROVE  /\ Retargeted(sw, S, kept) \in [Credential -> TargetType]
         /\ kept \subseteq Targets(sw) =>
              {c \in Credential : Retargeted(sw, S, kept)[c].in} = S
         /\ \A c \in Credential : Retargeted(sw, S, kept)[c].in /\ Retargeted(sw, S, kept)[c].evidence
              => c \in kept /\ sw.target[c].evidence
<1> DEFINE t == Retargeted(sw, S, kept)
<1>1. sw.target \in [Credential -> TargetType]
  BY DEF SweepType
<1>2. \A c \in Credential : t[c] = IF c \in kept THEN sw.target[c] ELSE IF c \in S THEN Target ELSE NoTarget
  BY DEF Retargeted
<1>3. t \in [Credential -> TargetType]
  BY <1>1, Empties DEF Retargeted
<1> HIDE DEF t
<1>4. kept \subseteq Targets(sw) => {c \in Credential : t[c].in} = S
  <2> SUFFICES ASSUME kept \subseteq Targets(sw), NEW c \in Credential PROVE t[c].in <=> c \in S
    OBVIOUS
  <2>1. c \in kept => sw.target[c].in
    BY DEF Targets
  <2> QED BY <2>1, <1>2, Empties
<1>5. \A c \in Credential : t[c].in /\ t[c].evidence => c \in kept /\ sw.target[c].evidence
  BY <1>2, Empties
<1> QED BY <1>3, <1>4, <1>5 DEF t

\* What begins a sweep, or changes its targets.
LEMMA BeginFacts ==
  ASSUME NEW sw \in SweepType, NEW S \in SUBSET Credential, NEW cause \in Causes
  PROVE  /\ Begin(sw, S, cause) \in SweepType
         /\ S = {} => Begin(sw, S, cause) = sw
         /\ S # {} => Begin(sw, S, cause).active /\ Targets(Begin(sw, S, cause)) = S
         /\ sw.active => Evidence(Begin(sw, S, cause)) \subseteq Evidence(sw)
         /\ ~sw.active /\ S # {} => Evidence(Begin(sw, S, cause)) = {}
         /\ sw.active => Begin(sw, S, cause).active
<1> DEFINE b == Begin(sw, S, cause)
           kept == IF Fresh(sw, cause) THEN {} ELSE S \cap Targets(sw)
           base == IF Fresh(sw, cause) THEN Anew(sw, cause) ELSE sw
           t == Retargeted(sw, S, kept)
<1>1. b = IF S = {} THEN sw ELSE Aimed(base, t)
  BY Zenon DEF Begin, Aimed, Retargeted, Anew
<1>2. kept \subseteq S /\ kept \subseteq Targets(sw)
  OBVIOUS
<1>3. base \in SweepType /\ (sw.active => base.active) /\ (Fresh(sw, cause) => base.active)
  BY AnewFacts
<1>4. Fresh(sw, cause) => kept = {}
  OBVIOUS
<1>5. ~sw.active => Fresh(sw, cause)
  BY DEF Fresh
<1> HIDE DEF kept, base
<1>6. /\ t \in [Credential -> TargetType] /\ {c \in Credential : t[c].in} = S
      /\ \A c \in Credential : t[c].in /\ t[c].evidence => c \in kept /\ sw.target[c].evidence
  BY <1>2, RetargetedFacts
<1> HIDE DEF t
<1>7. CASE S = {}
  BY <1>7, <1>1 DEF b
<1>8. CASE S # {}
  <2>1. b = Aimed(base, t)
    BY <1>8, <1>1
  <2>2. b \in SweepType /\ b.target = t /\ b.active = base.active
    BY <2>1, <1>3, <1>6, AimedFacts
  <2>3. Targets(b) = S
    BY <2>2, <1>6 DEF Targets
  <2>4. b.active
    BY <2>2, <1>3 DEF base, Fresh
  <2>5. \A c \in Evidence(b) : c \in kept /\ sw.target[c].evidence
    BY <2>2, <1>6 DEF Evidence, Targets
  <2>6. Evidence(b) \subseteq Evidence(sw)
    BY <2>5, <1>2 DEF Evidence
  <2>7. ~sw.active => Evidence(b) = {}
    BY <2>5, <1>4, <1>5
  <2> QED BY <1>8, <2>2, <2>3, <2>4, <2>6, <2>7 DEF b
<1> QED BY <1>7, <1>8

(* Least and greatest numbers, and the median.                              *)

SmallerThan == {p \in Nat \X Nat : p[1] < p[2]}

\* Numbers have no infinite descent.
LEMMA SmallerIsWellFounded == IsWellFoundedOn(SmallerThan, Nat)
<1>1. OpToRel(<, Nat) = SmallerThan
  BY Zenon DEF OpToRel, SmallerThan
<1> QED BY <1>1, NatLessThanWellFounded

\* A set of natural numbers with a member has a least one.
LEMMA LeastExists ==
  ASSUME NEW S, S \subseteq Nat, S # {}
  PROVE  \E m \in S : \A n \in S : m <= n
<1>1. PICK m \in S : \A n \in S : <<n, m>> \notin SmallerThan
  BY SmallerIsWellFounded, WFMin
<1>2. ASSUME NEW n \in S PROVE m <= n
  <2> DEFINE p == <<n, m>>
  <2>1. p \in Nat \X Nat /\ p[1] = n /\ p[2] = m
    BY Zenon
  <2> HIDE DEF p
  <2>2. ~(p[1] < p[2])
    BY <1>1, <2>1 DEF p, SmallerThan
  <2>3. n \in Nat /\ m \in Nat
    OBVIOUS
  <2> QED BY <2>1, <2>2, <2>3
<1> QED BY <1>2

\* A bounded one has a greatest.
LEMMA GreatestExists ==
  ASSUME NEW u \in Nat, NEW S, S \subseteq 0..u, S # {}
  PROVE  \E m \in S : \A n \in S : n <= m
<1> DEFINE D == {u - x : x \in S}
<1>1. D \subseteq Nat /\ D # {}
  <2>1. \A x \in S : u - x \in Nat
    OBVIOUS
  <2> QED BY <2>1
<1>2. PICK m \in D : \A n \in D : m <= n
  <2> HIDE DEF D
  <2> QED BY <1>1, LeastExists
<1>3. PICK y \in S : m = u - y
  OBVIOUS
<1>4. ASSUME NEW x \in S PROVE x <= y
  <2>1. u - x \in D
    OBVIOUS
  <2>2. u - y <= u - x
    BY <1>2, <1>3, <2>1
  <2> QED BY <2>2
<1> QED BY <1>4

\* The resets of the readings q.
Below(S, q, v) == {c \in S : q[c].cycle < v}
UpTo(S, q, v) == {c \in S : q[c].cycle <= v}
Central(S, q, v) ==
    /\ Cardinality(Below(S, q, v)) <= Cardinality(S) \div 2
    /\ Cardinality(UpTo(S, q, v)) > Cardinality(S) \div 2

\* Subsets of the credentials are finite.
LEMMA Finite ==
  ASSUME NEW S, S \subseteq Credential
  PROVE  IsFiniteSet(S) /\ Cardinality(S) \in Nat
<1> QED BY Bounds, FS_Subset, FS_CardinalityType

\* Readings have a reset from -1 on.
LEMMA Cycles ==
  ASSUME NEW q \in QuotaType, NEW c \in Credential
  PROVE  q[c].cycle \in Int /\ q[c].cycle + 1 \in 0..MaxReset + 1
         /\ q[c].cycle \in {Unknown.cycle} \cup 0..MaxReset
<1>1. q[c] \in Reading \/ q[c] = Unknown
  BY DEF QuotaType
<1>2. q[c].cycle \in 0..MaxReset \/ q[c].cycle = -1
  BY <1>1, Empties DEF Reading
<1> QED BY <1>2, Bounds, Empties

\* The readings of some credentials have a median.
LEMMA CentralExists ==
  ASSUME NEW q \in QuotaType, NEW S, S \subseteq Credential, S # {}
  PROVE  \E v \in {q[c].cycle : c \in S} : Central(S, q, v)
<1> DEFINE h == Cardinality(S) \div 2
           Up(v) == UpTo(S, q, v)
           Lo(v) == Below(S, q, v)
           All == {q[c].cycle + 1 : c \in S}
           V == {m \in All : Cardinality(Up(m - 1)) > h}
<1> DEFINE top == MaxReset + 1
<1>0. top \in Nat
  BY Bounds
<1>1. Cardinality(S) \in Nat /\ Cardinality(S) >= 1
  BY Finite, FS_EmptySet
<1>2. h \in Nat /\ h < Cardinality(S)
  BY <1>1
<1>3. \A c \in S : q[c].cycle \in Int /\ q[c].cycle + 1 \in 0..MaxReset + 1
  BY Cycles
<1>4. All \subseteq 0..MaxReset + 1 /\ All # {}
  BY <1>3
<1>5. \A v : Cardinality(Up(v)) \in Nat /\ Cardinality(Lo(v)) \in Nat
  <2> SUFFICES ASSUME NEW v PROVE Cardinality(Up(v)) \in Nat /\ Cardinality(Lo(v)) \in Nat
    OBVIOUS
  <2>1. Up(v) \subseteq Credential /\ Lo(v) \subseteq Credential
    BY DEF UpTo, Below
  <2> HIDE DEF Up, Lo
  <2> QED BY <2>1, Finite
<1>6. V # {}
  <2> HIDE DEF All
  <2>1. PICK g \in All : \A n \in All : n <= g
    <3> HIDE DEF top
    <3>1. All \subseteq 0..top
      BY <1>4 DEF top
    <3> QED BY <3>1, <1>4, <1>0, GreatestExists
  <2>2. \A c \in S : q[c].cycle <= g - 1
    <3> TAKE c \in S
    <3>1. q[c].cycle + 1 \in All
      BY DEF All
    <3>2. q[c].cycle + 1 <= g /\ g \in Int /\ q[c].cycle \in Int
      BY <2>1, <3>1, <1>3, <1>4
    <3> QED BY <3>2
  <2>3. Up(g - 1) = S
    BY <2>2 DEF UpTo
  <2> QED BY <2>1, <2>3, <1>2
<1>7. V \subseteq Nat
  BY <1>4
<1> HIDE DEF h
<1>8. PICK m \in V : \A n \in V : m <= n
  <2> HIDE DEF V
  <2> QED BY <1>6, <1>7, LeastExists
<1>9. PICK c \in S : m = q[c].cycle + 1
  BY <1>8
<1> DEFINE v == q[c].cycle
<1>10. v \in Int /\ v = m - 1 /\ Cardinality(Up(v)) > h
  <2>1. v \in Int /\ v = m - 1
    BY <1>9, <1>3
  <2> QED BY <2>1, <1>8
<1>11. Cardinality(Lo(v)) <= h
  <2>1. CASE Lo(v) = {}
    <3>1. Cardinality(Lo(v)) = 0
      BY <2>1, FS_EmptySet
    <3> QED BY <3>1, <1>2
  <2>2. CASE Lo(v) # {}
    <3> DEFINE W == {q[d].cycle + 1 : d \in Lo(v)}
    <3>1. Lo(v) \subseteq S /\ \A d \in S : d \in Lo(v) <=> q[d].cycle < v
      BY DEF Below
    <3> HIDE DEF Lo
    <3>2. W \subseteq 0..MaxReset + 1 /\ W # {}
      BY <2>2, <3>1, <1>3
    <3>3. PICK g \in W : \A n \in W : n <= g
      <4> HIDE DEF W, top
      <4>1. W \subseteq 0..top
        BY <3>2 DEF top
      <4> QED BY <4>1, <3>2, <1>0, GreatestExists
    <3>4. PICK d \in Lo(v) : g = q[d].cycle + 1
      BY <3>3
    <3>5. g \in Int /\ q[d].cycle \in Int /\ q[d].cycle < v /\ g - 1 = q[d].cycle /\ d \in S
      BY <3>4, <3>1, <1>3
    <3>6. Lo(v) = Up(g - 1)
      <4>1. ASSUME NEW x \in S PROVE q[x].cycle < v <=> q[x].cycle <= g - 1
        <5>1. q[x].cycle \in Int
          BY <1>3
        <5>2. q[x].cycle < v => q[x].cycle <= g - 1
          <6>1. HAVE q[x].cycle < v
          <6>2. q[x].cycle + 1 \in W
            BY <6>1, <3>1
          <6>3. q[x].cycle + 1 <= g
            BY <6>2, <3>3
          <6> HIDE DEF v
          <6> QED BY <6>3, <5>1, <3>5, <1>10
        <5> HIDE DEF v
        <5> QED BY <5>1, <5>2, <3>5, <1>10
      <4> HIDE DEF v
      <4> QED BY <4>1, <3>1 DEF UpTo
    <3>7. g \in All /\ g \in Int
      BY <3>4, <3>5, <1>4
    <3>8. g < m
      <4> HIDE DEF v
      <4> QED BY <3>5, <3>7, <1>10, <1>7
    <3>9. ~(Cardinality(Up(g - 1)) > h)
      <4>1. g \notin V
        <5> HIDE DEF V
        <5> QED BY <1>8, <1>7, <3>8, <3>7
      <4> QED BY <4>1, <3>7
    <3> HIDE DEF Up
    <3>10. Cardinality(Up(g - 1)) \in Nat
      BY <1>5
    <3> QED BY <3>6, <3>9, <3>10, <1>2
  <2> QED BY <2>1, <2>2
<1>12. Central(S, q, v)
  BY <1>10, <1>11 DEF Central, h
<1> QED BY <1>12

(* Accounts.                                                                *)

\* The accounts follow the inventory.
LEMMA AccountsFacts ==
  ASSUME NEW e \in EpochType, NEW S \in SUBSET Credential
  PROVE  /\ Accounts(e, S) \in EpochType /\ Accounts(e, S).id = e.id
         /\ Accounts(e, S).age = e.age /\ Accounts(e, S).reason = e.reason
         /\ \A c \in Credential : Accounts(e, S).account[c] = IF c \in S THEN e.account[c] ELSE NoAccount
<1> DEFINE a == [c \in Credential |-> IF c \in S THEN e.account[c] ELSE NoAccount]
<1>1. e.account \in [Credential -> GoodAccount]
  BY DEF EpochType
<1>2. a \in [Credential -> GoodAccount]
  BY <1>1, Empties
<1>3. Accounts(e, S) = [e EXCEPT !.account = a]
  BY Zenon DEF Accounts
<1>4. \A c \in Credential : a[c] = IF c \in S THEN e.account[c] ELSE NoAccount
  OBVIOUS
<1> HIDE DEF a
<1>5. [e EXCEPT !.account = a] \in EpochType /\ [e EXCEPT !.account = a].id = e.id
      /\ [e EXCEPT !.account = a].age = e.age /\ [e EXCEPT !.account = a].reason = e.reason
      /\ [e EXCEPT !.account = a].account = a
  BY <1>2 DEF EpochType
<1> QED BY <1>3, <1>4, <1>5

\* The sweep after the inventory S was read.
LEMMA PrepareFacts ==
  ASSUME NEW e \in EpochType, NEW sw \in SweepType, NEW S \in SUBSET Credential
  PROVE  /\ Prepare(e, sw, S) \in SweepType
         /\ Prepare(e, sw, S).active /\ S # {} => Targets(Prepare(e, sw, S)) = S
         /\ sw.active => Evidence(Prepare(e, sw, S)) \subseteq Evidence(sw)
         /\ ~sw.active /\ Prepare(e, sw, S).active => Evidence(Prepare(e, sw, S)) = {}
<1>1. sw.cause \in Causes /\ "bootstrap" \in Causes /\ "inventory" \in Causes
  BY DEF SweepType, Causes
<1>2. CASE sw.active
  <2>1. Prepare(e, sw, S) = Begin(sw, S, sw.cause)
    BY <1>2 DEF Prepare
  <2> QED BY <2>1, <1>1, <1>2, BeginFacts
<1>3. CASE ~sw.active
  <2>1. PICK cause \in Causes : Prepare(e, sw, S) = Begin(sw, S, cause) \/ Prepare(e, sw, S) = sw
    BY <1>1, <1>3 DEF Prepare
  <2> QED BY <2>1, <1>3, BeginFacts
<1> QED BY <1>2, <1>3

\* The median of readings is a reset, or unknown.
LEMMA MedianType ==
  ASSUME NEW S \in SUBSET Credential, quotas' \in QuotaType
  PROVE  Median(S) \in {Unknown.cycle} \cup 0..MaxReset
<1>1. CASE S = {}
  BY <1>1 DEF Median
<1>2. CASE S # {}
  <2> DEFINE q == quotas'
             m == CHOOSE v \in {q[c].cycle : c \in S} : Central(S, q, v)
  <2>1. \A v \in {q[c].cycle : c \in S} : v \in {Unknown.cycle} \cup 0..MaxReset
    BY Cycles
  <2>2. Median(S) = m
    BY <1>2, Zenon DEF Median, Central, Below, UpTo
  <2>3. m \in {q[c].cycle : c \in S}
    <3>1. \E v \in {q[c].cycle : c \in S} : Central(S, q, v)
      <4> HIDE DEF q
      <4>1. q \in QuotaType
        BY DEF q
      <4> QED BY <4>1, <1>2, CentralExists
    <3> QED BY <3>1
  <2> QED BY <2>1, <2>2, <2>3
<1> QED BY <1>1, <1>2

\* The account of a credential that has been read.
LEMMA FromSnapshotFacts ==
  ASSUME NEW r
  PROVE  FromSnapshot(r) \in GoodAccount /\ FromSnapshot(r).state \in {"pending", "natural"}
<1> DEFINE s == IF Unstarted(r) THEN "pending" ELSE "natural"
<1>1. s \in {"pending", "natural"}
  OBVIOUS
<1> HIDE DEF s
<1>2. Pending \in Account /\ Pending.probes = 0
  BY Empties DEF GoodAccount
<1>3. ASSUME NEW a \in Account
      PROVE  /\ [a EXCEPT !.seen = TRUE, !.state = s] \in Account
             /\ [a EXCEPT !.seen = TRUE, !.state = s].state = s
             /\ [a EXCEPT !.seen = TRUE, !.state = s].probes = a.probes
  BY <1>1 DEF Account
<1>4. FromSnapshot(r) = [Pending EXCEPT !.seen = TRUE, !.state = s]
  BY Zenon DEF FromSnapshot, s
<1>5. FromSnapshot(r) \in Account /\ FromSnapshot(r).state = s /\ FromSnapshot(r).probes = 0
  BY <1>2, <1>3, <1>4
<1> QED BY <1>5, <1>1, Bounds DEF GoodAccount

\* The account of a target in a new epoch.
LEMMA ConfirmedFacts ==
  ASSUME NEW sw \in SweepType, NEW c \in Credential, NEW cause
  PROVE  Confirmed(sw, c, cause) \in GoodAccount /\ Confirmed(sw, c, cause).state # "warmed"
<1> DEFINE Fit == {a \in GoodAccount : a.state # "warmed"}
<1>1. NoAccount \in Fit /\ Pending \in Fit
  BY Empties
<1>2. \A r : FromSnapshot(r) \in Fit
  BY FromSnapshotFacts
<1>3. ASSUME NEW a \in GoodAccount
      PROVE  [a EXCEPT !.seen = TRUE].state = a.state /\ [a EXCEPT !.seen = TRUE] \in GoodAccount
  BY DEF GoodAccount, Account
<1>4. [Pending EXCEPT !.seen = TRUE] \in Fit
  BY <1>1, <1>3
<1>5. ASSUME NEW a \in GoodAccount
      PROVE  [a EXCEPT !.state = "natural"] \in Fit
  BY DEF GoodAccount, Account
<1> DEFINE observed == sw.target[c].observed = "yes" /\ quotas'[c] # Unknown
           account == IF observed /\ Proven(sw, c, cause) THEN FromSnapshot(quotas'[c])
                      ELSE IF observed /\ Unstarted(quotas'[c]) THEN [Pending EXCEPT !.seen = TRUE]
                      ELSE Pending
<1>6. account \in Fit
  BY <1>1, <1>2, <1>4
<1> HIDE DEF observed, account
<1>7. Confirmed(sw, c, cause) = IF ~sw.target[c].in THEN NoAccount
        ELSE IF c \in sw.users THEN [account EXCEPT !.state = "natural"] ELSE account
  BY Zenon DEF Confirmed, account, observed
<1>8. [account EXCEPT !.state = "natural"] \in Fit
  BY <1>5, <1>6
<1>9. Confirmed(sw, c, cause) \in Fit
  <2> HIDE DEF Fit
  <2> QED BY <1>1, <1>6, <1>7, <1>8
<1> QED BY <1>9

\* A new epoch, in which nothing was activated yet.
LEMMA ConfirmFacts ==
  ASSUME NEW e \in EpochType, NEW sw \in SweepType, NEW cause \in {"bootstrap", "reset"},
         quotas' \in QuotaType
  PROVE  /\ Confirm(e, sw, cause) \in EpochType
         /\ Confirm(e, sw, cause).id = e.id + 1 /\ Confirm(e, sw, cause).reason = cause
         /\ \A c \in Credential : Confirm(e, sw, cause).account[c].state # "warmed"
<1> DEFINE S == IF cause = "reset" THEN Evidence(sw) \cap {c \in Credential : sw.target[c].observed # "no"}
                ELSE {c \in Targets(sw) : sw.target[c].observed # "no"}
           m == Median(S)
           acct == [c \in Credential |-> Confirmed(sw, c, cause)]
<1>1. S \in SUBSET Credential
  BY DEF Targets
<1>2. m \in {Unknown.cycle} \cup 0..MaxReset
  <2> HIDE DEF S
  <2> QED BY <1>1, MedianType
<1>3. acct \in [Credential -> GoodAccount] /\ \A c \in Credential : acct[c].state # "warmed"
  BY ConfirmedFacts
<1>4. Confirm(e, sw, cause) = [id |-> e.id + 1, reason |-> cause, age |-> 0, cycle |-> m, account |-> acct]
  BY Zenon DEF Confirm
<1>5. e.id + 1 \in Nat
  BY DEF EpochType
<1> HIDE DEF m, acct
<1> QED BY <1>2, <1>3, <1>4, <1>5 DEF EpochType

\* The next round asks again, and keeps what it knows.
LEMMA NextRoundFacts ==
  ASSUME NEW sw \in SweepType, sw.round < MaxRounds
  PROVE  /\ NextRound(sw) \in SweepType /\ NextRound(sw).active = sw.active
         /\ Targets(NextRound(sw)) = Targets(sw) /\ Evidence(NextRound(sw)) = Evidence(sw)
<1> DEFINE t == [c \in Credential |-> IF sw.target[c].evidence THEN sw.target[c]
                                      ELSE [sw.target[c] EXCEPT !.tried = FALSE]]
           half == [sw EXCEPT !.round = @ + 1, !.waiting = TRUE]
<1>1. sw.target \in [Credential -> TargetType]
  BY DEF SweepType
<1>2. ASSUME NEW g \in TargetType
      PROVE  /\ [g EXCEPT !.tried = FALSE] \in TargetType
             /\ [g EXCEPT !.tried = FALSE].in = g.in /\ [g EXCEPT !.tried = FALSE].evidence = g.evidence
  BY DEF TargetType
<1>3. /\ t \in [Credential -> TargetType]
      /\ \A c \in Credential : t[c].in = sw.target[c].in /\ t[c].evidence = sw.target[c].evidence
  BY <1>1, <1>2
<1>4. sw.round \in Nat /\ sw.round + 1 \in 1..MaxRounds
  BY Bounds DEF SweepType
<1>5. half \in SweepType /\ half.active = sw.active
  BY <1>4 DEF SweepType
<1>6. NextRound(sw) = Aimed(half, t)
  BY Zenon DEF NextRound, Aimed
<1> HIDE DEF half, t
<1>7. /\ NextRound(sw) \in SweepType /\ NextRound(sw).target = t
      /\ NextRound(sw).active = sw.active
  BY <1>3, <1>5, <1>6, AimedFacts
<1>8. Targets(NextRound(sw)) = Targets(sw)
  BY <1>3, <1>7 DEF Targets
<1>9. Evidence(NextRound(sw)) = Evidence(sw)
  BY <1>3, <1>7, <1>8 DEF Evidence, Targets
<1> QED BY <1>7, <1>8, <1>9

\* The accounts of credentials that joined.
Joined(e, J, q) == [e EXCEPT !.account = [c \in Credential |-> IF c \in J THEN FromSnapshot(q[c]) ELSE @[c]]]

\* They are of the same epoch, and those that joined were not activated in it.
LEMMA JoinedFacts ==
  ASSUME NEW e \in EpochType, NEW J, NEW q
  PROVE  /\ Joined(e, J, q) \in EpochType /\ Joined(e, J, q).id = e.id
         /\ \A c \in Credential : Joined(e, J, q).account[c].state = "warmed" => e.account[c].state = "warmed"
<1> DEFINE a == [c \in Credential |-> IF c \in J THEN FromSnapshot(q[c]) ELSE e.account[c]]
<1>1. e.account \in [Credential -> GoodAccount]
  BY DEF EpochType
<1>2. a \in [Credential -> GoodAccount]
  BY <1>1, FromSnapshotFacts
<1>3. \A c \in Credential : a[c].state = "warmed" => e.account[c].state = "warmed"
  BY FromSnapshotFacts
<1>4. Joined(e, J, q) = [e EXCEPT !.account = a]
  BY Zenon DEF Joined
<1> HIDE DEF a
<1>5. [e EXCEPT !.account = a] \in EpochType /\ [e EXCEPT !.account = a].id = e.id
      /\ [e EXCEPT !.account = a].account = a
  BY <1>2 DEF EpochType
<1> QED BY <1>3, <1>4, <1>5

\* The end of a round, of a sweep, or of an epoch.  A reset is confirmed by what a quorum of
\* the targets showed.
LEMMA FinalizeFacts ==
  ASSUME NEW e \in EpochType, NEW sw \in SweepType, quotas' \in QuotaType, Finalize(e, sw)
  PROVE  /\ epoch' \in EpochType /\ sweep' \in SweepType
         /\ \/ /\ epoch'.id = e.id
               /\ \A c \in Credential : epoch'.account[c].state = "warmed" => e.account[c].state = "warmed"
            \/ /\ epoch'.id = e.id + 1 /\ ~sweep'.active
               /\ \A c \in Credential : epoch'.account[c].state # "warmed"
         /\ sweep'.active => sw.active /\ Targets(sweep') = Targets(sw) /\ Evidence(sweep') = Evidence(sw)
         /\ epoch'.id # e.id /\ epoch'.reason = "reset" =>
               sw.active /\ Cardinality(Evidence(sw)) >= Required(sw)
<1> DEFINE n == Cardinality(Targets(sw))
           byReset == sw.cause = "reset" /\ Required(sw) > 0 /\ Cardinality(Evidence(sw)) >= Required(sw)
           first == /\ sw.cause # "reset" /\ e.id = 0 /\ Observed(sw) # {}
                    /\ Cardinality(Observed(sw)) = n \/ sw.overdue
           joined == {c \in Targets(sw) : /\ e.account[c] = NoAccount /\ sw.target[c].observed # "no"
                                          /\ quotas'[c] # Unknown}
           over == sw.overdue \/ (sw.cause # "reset" /\ Cardinality(Observed(sw)) = n)
<1>1. \/ ~sw.active /\ epoch' = e /\ sweep' = sw
      \/ sw.active /\ byReset /\ epoch' = Confirm(e, sw, "reset") /\ sweep' = NoSweep
      \/ sw.active /\ ~byReset /\ first /\ epoch' = Confirm(e, sw, "bootstrap") /\ sweep' = NoSweep
      \/ /\ sw.active /\ ~byReset /\ ~first
         /\ epoch' = IF sw.cause = "inventory" /\ e.id # 0
                     THEN [e EXCEPT !.account = [c \in Credential |->
                              IF c \in joined THEN FromSnapshot(quotas'[c]) ELSE @[c]]]
                     ELSE e
         /\ \/ over /\ sweep' = NoSweep
            \/ ~over /\ sw.cause = "reset" /\ RoundComplete(sw) /\ sw.round < MaxRounds /\ sweep' = NextRound(sw)
            \/ ~over /\ sweep' = sw
  BY Zenon DEF Finalize
<1> HIDE DEF n, joined, over, first
<1>2. e.id \in Nat
  BY DEF EpochType
<1>3. CASE ~sw.active /\ epoch' = e /\ sweep' = sw
  BY <1>3
<1>4. CASE sw.active /\ byReset /\ epoch' = Confirm(e, sw, "reset") /\ sweep' = NoSweep
  BY <1>2, <1>4, ConfirmFacts, Empties
<1>5. CASE sw.active /\ ~byReset /\ first /\ epoch' = Confirm(e, sw, "bootstrap") /\ sweep' = NoSweep
  BY <1>2, <1>5, ConfirmFacts, Empties
<1>6. CASE /\ sw.active /\ ~byReset /\ ~first
           /\ epoch' = IF sw.cause = "inventory" /\ e.id # 0
                       THEN [e EXCEPT !.account = [c \in Credential |->
                                IF c \in joined THEN FromSnapshot(quotas'[c]) ELSE @[c]]]
                       ELSE e
           /\ \/ over /\ sweep' = NoSweep
              \/ ~over /\ sw.cause = "reset" /\ RoundComplete(sw) /\ sw.round < MaxRounds /\ sweep' = NextRound(sw)
              \/ ~over /\ sweep' = sw
  <2>1. epoch' = Joined(e, joined, quotas') \/ epoch' = e
    BY <1>6, Zenon DEF Joined
  <2>2. /\ epoch' \in EpochType /\ epoch'.id = e.id
        /\ \A c \in Credential : epoch'.account[c].state = "warmed" => e.account[c].state = "warmed"
    BY <2>1, JoinedFacts
  <2>3. sweep' = NoSweep \/ (sw.round < MaxRounds /\ sweep' = NextRound(sw)) \/ sweep' = sw
    BY <1>6
  <2>4. /\ sweep' \in SweepType
        /\ sweep'.active => sw.active /\ Targets(sweep') = Targets(sw) /\ Evidence(sweep') = Evidence(sw)
    BY <2>3, <1>6, NextRoundFacts, Empties
  <2> QED BY <2>2, <2>4
<1> HIDE DEF byReset
<1> QED BY <1>1, <1>3, <1>4, <1>5, <1>6

\* What a usage event tells the epoch.
LEMMA NaturalFacts ==
  ASSUME NEW e \in EpochType, NEW c \in Credential
  PROVE  /\ Natural(e, c) \in EpochType /\ Natural(e, c).id = e.id
         /\ \A d \in Credential : Natural(e, c).account[d].state = "warmed" => e.account[d].state = "warmed"
<1> DEFINE a == [e.account EXCEPT ![c].state = "natural"]
<1>1. e.account \in [Credential -> GoodAccount]
  BY DEF EpochType
<1>2. ASSUME NEW g \in GoodAccount
      PROVE  [g EXCEPT !.state = "natural"] \in GoodAccount /\ [g EXCEPT !.state = "natural"].state = "natural"
  BY DEF GoodAccount, Account
<1>3. a \in [Credential -> GoodAccount] /\ \A d \in Credential : a[d].state = "warmed" => e.account[d].state = "warmed"
  <2>1. a = [e.account EXCEPT ![c] = [e.account[c] EXCEPT !.state = "natural"]]
    OBVIOUS
  <2> QED BY <2>1, <1>1, <1>2
<1>4. Natural(e, c) = [e EXCEPT !.account = a] \/ Natural(e, c) = e
  BY Zenon DEF Natural
<1> HIDE DEF a
<1>5. [e EXCEPT !.account = a] \in EpochType /\ [e EXCEPT !.account = a].id = e.id
      /\ [e EXCEPT !.account = a].account = a
  BY <1>3 DEF EpochType
<1> QED BY <1>3, <1>4, <1>5

\* What an answer tells it.
LEMMA ObserveFacts ==
  ASSUME NEW e \in EpochType, NEW c \in Credential, NEW evidence
  PROVE  /\ Observe(e, c, evidence) \in EpochType /\ Observe(e, c, evidence).id = e.id
         /\ \A d \in Credential : Observe(e, c, evidence).account[d].state = "warmed"
               => e.account[d].state = "warmed"
<1> DEFINE g == e.account[c]
           b == FromSnapshot(quotas'[c])
           s == IF g.state \in {"warmed", "blocked"} THEN g.state ELSE b.state
           adopted == [g EXCEPT !.seen = TRUE, !.state = s]
           refused == [g EXCEPT !.seen = FALSE]
           new == IF Adopts(e, c, evidence) THEN adopted ELSE refused
           a == [e.account EXCEPT ![c] = new]
<1>1. e.account \in [Credential -> GoodAccount]
  BY DEF EpochType
<1>2. s \in {"none", "pending", "natural", "warmed", "blocked"} /\ (s = "warmed" => g.state = "warmed")
  BY FromSnapshotFacts
<1>3. g \in GoodAccount
  BY <1>1
<1> HIDE DEF s, g
<1>4. adopted \in GoodAccount /\ adopted.state = s
  BY <1>2, <1>3 DEF GoodAccount, Account
<1>5. refused \in GoodAccount /\ refused.state = g.state
  BY <1>3 DEF GoodAccount, Account
<1>6. new \in GoodAccount /\ (new.state = "warmed" => g.state = "warmed")
  <2> HIDE DEF adopted, refused
  <2> QED BY <1>2, <1>4, <1>5
<1>7. Observe(e, c, evidence) = e \/ Observe(e, c, evidence) = [e EXCEPT !.account = a]
  BY Zenon DEF Observe, new, adopted, refused, s, g
<1> HIDE DEF new
<1>8. a \in [Credential -> GoodAccount] /\ \A d \in Credential : a[d].state = "warmed" => e.account[d].state = "warmed"
  BY <1>1, <1>6 DEF g
<1> HIDE DEF a
<1>9. [e EXCEPT !.account = a] \in EpochType /\ [e EXCEPT !.account = a].id = e.id
      /\ [e EXCEPT !.account = a].account = a
  BY <1>8 DEF EpochType
<1> QED BY <1>7, <1>8, <1>9

\* A target of the sweep, marked.
Marked(sw, c, t) == [sw EXCEPT !.target = [sw.target EXCEPT ![c] = t]]

\* It stays a target, and its mark is the only new evidence.
LEMMA MarkedFacts ==
  ASSUME NEW sw \in SweepType, NEW c \in Credential, NEW t \in TargetType, t.in = sw.target[c].in
  PROVE  /\ Marked(sw, c, t) \in SweepType /\ Marked(sw, c, t).active = sw.active
         /\ Marked(sw, c, t).cause = sw.cause
         /\ Targets(Marked(sw, c, t)) = Targets(sw)
         /\ Evidence(Marked(sw, c, t)) \subseteq Evidence(sw) \cup {c}
         /\ (t.evidence => sw.target[c].evidence) =>
               Evidence(Marked(sw, c, t)) \subseteq Evidence(sw)
<1> DEFINE m == [sw.target EXCEPT ![c] = t]
<1>1. sw.target \in [Credential -> TargetType]
  BY DEF SweepType
<1>2. m \in [Credential -> TargetType] /\ \A d \in Credential : m[d] = IF d = c THEN t ELSE sw.target[d]
  BY <1>1
<1>3. Marked(sw, c, t) = Aimed(sw, m)
  BY Zenon DEF Marked, Aimed
<1> HIDE DEF m
<1>4. /\ Marked(sw, c, t) \in SweepType /\ Marked(sw, c, t).active = sw.active
      /\ Marked(sw, c, t).cause = sw.cause /\ Marked(sw, c, t).target = m
  BY <1>2, <1>3, AimedFacts
<1>5. Targets(Marked(sw, c, t)) = Targets(sw)
  BY <1>2, <1>4 DEF Targets
<1>6. \A d \in Evidence(Marked(sw, c, t)) :
         d \in Targets(sw) /\ IF d = c THEN t.evidence ELSE sw.target[d].evidence
  BY <1>2, <1>4, <1>5 DEF Evidence, Targets
<1>7. Evidence(Marked(sw, c, t)) \subseteq Evidence(sw) \cup {c}
  BY <1>6 DEF Evidence
<1>8. (t.evidence => sw.target[c].evidence) => Evidence(Marked(sw, c, t)) \subseteq Evidence(sw)
  BY <1>6 DEF Evidence
<1> QED BY <1>4, <1>5, <1>7, <1>8

\* A reset seen in the headers of a call.
LEMMA FromHeadersFacts ==
  ASSUME NEW sw \in SweepType, quotas \in QuotaType, NEW c \in Known
  PROVE  /\ FromHeaders(sw, c) \in SweepType /\ FromHeaders(sw, c).active
         /\ Targets(FromHeaders(sw, c)) = Known
         /\ Evidence(FromHeaders(sw, c)) \subseteq (IF sw.active THEN Evidence(sw) ELSE {}) \cup {c}
<1> DEFINE b == Begin(sw, Known, "reset")
           t == [b.target[c] EXCEPT !.evidence = TRUE]
<1>1. Known \in SUBSET Credential /\ Known # {} /\ c \in Credential /\ "reset" \in Causes
  BY DEF Known, Causes
<1>2. /\ b \in SweepType /\ b.active /\ Targets(b) = Known
      /\ Evidence(b) \subseteq IF sw.active THEN Evidence(sw) ELSE {}
  BY <1>1, BeginFacts
<1>3. FromHeaders(sw, c) = Marked(b, c, t)
  BY Zenon DEF FromHeaders, Marked
<1> HIDE DEF b
<1>4. b.target \in [Credential -> TargetType]
  BY <1>2 DEF SweepType
<1>5. b.target[c] \in TargetType
  BY <1>1, <1>4
<1>6. t \in TargetType /\ t.in = b.target[c].in
  BY <1>5 DEF TargetType
<1> HIDE DEF t
<1>7. /\ Marked(b, c, t) \in SweepType /\ Marked(b, c, t).active = b.active
      /\ Targets(Marked(b, c, t)) = Targets(b)
      /\ Evidence(Marked(b, c, t)) \subseteq Evidence(b) \cup {c}
  BY <1>1, <1>2, <1>6, MarkedFacts
<1> QED BY <1>2, <1>3, <1>7

\* The target of an answer: whether it was observed in this sweep, and what it proves.
Told(sw, c, o, new) ==
    IF sw.target[c].in
    THEN [sw EXCEPT !.target[c] = [sw.target[c] EXCEPT !.observed = o, !.evidence = @ \/ new]] ELSE sw

\* It is evidence only if the answer proves a reset.
LEMMA ToldFacts ==
  ASSUME NEW sw \in SweepType, NEW c \in Credential, NEW o \in {"old", "yes"}, NEW new \in BOOLEAN
  PROVE  /\ Told(sw, c, o, new) \in SweepType /\ Told(sw, c, o, new).active = sw.active
         /\ Targets(Told(sw, c, o, new)) = Targets(sw)
         /\ Evidence(Told(sw, c, o, new)) \subseteq Evidence(sw) \cup {c}
         /\ ~new => Evidence(Told(sw, c, o, new)) \subseteq Evidence(sw)
<1> DEFINE g == sw.target[c]
           t == [g EXCEPT !.observed = o, !.evidence = g.evidence \/ new]
<1>1. sw.target \in [Credential -> TargetType]
  BY DEF SweepType
<1>2. g \in TargetType
  BY <1>1
<1>3. Told(sw, c, o, new) = Marked(sw, c, t) \/ Told(sw, c, o, new) = sw
  <2>1. [sw EXCEPT !.target[c] = [sw.target[c] EXCEPT !.observed = o, !.evidence = @ \/ new]]
        = Marked(sw, c, t)
    BY Zenon DEF Marked
  <2> QED BY <2>1 DEF Told
<1>4. t \in TargetType /\ t.in = g.in /\ t.evidence = (g.evidence \/ new)
  BY <1>2 DEF TargetType
<1> HIDE DEF t
<1>5. CASE Told(sw, c, o, new) = sw
  BY <1>5
<1>6. CASE Told(sw, c, o, new) = Marked(sw, c, t)
  <2>1. /\ Marked(sw, c, t) \in SweepType /\ Marked(sw, c, t).active = sw.active
        /\ Targets(Marked(sw, c, t)) = Targets(sw)
        /\ Evidence(Marked(sw, c, t)) \subseteq Evidence(sw) \cup {c}
        /\ (t.evidence => sw.target[c].evidence) =>
               Evidence(Marked(sw, c, t)) \subseteq Evidence(sw)
    BY <1>4, MarkedFacts
  <2> QED BY <1>6, <2>1, <1>4
<1> QED BY <1>3, <1>5, <1>6

(* The steps of a refresh, by their effects.                                *)

\* What every step of the worker that finalizes a sweep leaves alone.
Finalized(e, sw, unserved, w, then) ==
    /\ e \in EpochType /\ sw \in SweepType /\ w \in RefreshType /\ then \in {"ready", "warm"}
    /\ unserved \in SUBSET Credential /\ e.id = epoch.id
    /\ \A c \in Credential : e.account[c].state = "warmed" => epoch.account[c].state = "warmed"
    /\ Finalize(e, sw) /\ Note(unserved, sw) /\ Proceed(w, then)
    /\ UNCHANGED <<rows, warmup>>

\* The worker goes on, and only a confirmed epoch is applied first.
LEMMA ProceedFacts ==
  ASSUME NEW w \in RefreshType, NEW then \in {"ready", "warm"}, Proceed(w, then)
  PROVE  /\ refresh' \in RefreshType /\ refresh'.read = w.read /\ refresh'.inv = w.inv
         /\ refresh'.at = IF Confirms THEN "apply" ELSE then
<1>1. CASE Confirms
  BY <1>1 DEF Proceed, RefreshType
<1>2. CASE ~Confirms
  BY <1>2 DEF Proceed, RefreshType
<1> QED BY <1>1, <1>2

\* The history has credentials as witnesses.
LEMMA NoteFacts ==
  ASSUME history \in HistoryType, NEW unserved \in SUBSET Credential, NEW sw, Note(unserved, sw)
  PROVE  /\ history' \in HistoryType /\ history'.warmed = history.warmed
         /\ history'.unserved = unserved
         /\ history'.witnesses = IF Confirms THEN Witnesses \ Evidence(sw) ELSE Witnesses
<1> DEFINE x == IF Confirms THEN Witnesses \ Evidence(sw) ELSE Witnesses
<1>1. x \in SUBSET Credential
  BY DEF Witnesses, NewCycles, HistoryType
<1>2. history' = [history EXCEPT !.unserved = unserved, !.witnesses = x]
  BY Zenon DEF Note
<1> HIDE DEF x
<1> QED BY <1>1, <1>2 DEF HistoryType, x

\* The types after a step that finalizes.
LEMMA FinalizedTypes ==
  ASSUME Types, quotas' \in QuotaType, NEW e, NEW sw, NEW unserved, NEW w, NEW then,
         Finalized(e, sw, unserved, w, then)
  PROVE  /\ epoch' \in EpochType /\ sweep' \in SweepType /\ refresh' \in RefreshType
         /\ history' \in HistoryType /\ refresh'.at # "asking"
         /\ refresh'.read = w.read /\ refresh'.inv = w.inv
         /\ refresh'.at = IF Confirms THEN "apply" ELSE then
         /\ rows' = rows /\ warmup' = warmup
<1>1. /\ e \in EpochType /\ sw \in SweepType /\ w \in RefreshType /\ then \in {"ready", "warm"}
      /\ unserved \in SUBSET Credential /\ Finalize(e, sw) /\ Note(unserved, sw) /\ Proceed(w, then)
      /\ rows' = rows /\ warmup' = warmup
  BY DEF Finalized
<1>2. epoch' \in EpochType /\ sweep' \in SweepType
  BY <1>1, FinalizeFacts
<1>3. /\ refresh' \in RefreshType /\ refresh'.read = w.read /\ refresh'.inv = w.inv
      /\ refresh'.at = IF Confirms THEN "apply" ELSE then
  BY <1>1, ProceedFacts
<1>4. history' \in HistoryType
  BY <1>1, NoteFacts DEF Types
<1>5. refresh'.at # "asking"
  BY <1>1, <1>3
<1> QED BY <1>1, <1>2, <1>3, <1>4, <1>5

\* The inventory is read.
Beginning == [Resting EXCEPT !.inv = host, !.read = Known']
LEMMA StartEffects ==
  ASSUME Types, Start
  PROVE  /\ quotas' \in QuotaType /\ polls' \in [Credential -> PollType]
         /\ Finalized(Accounts(epoch, host), Prepare(Accounts(epoch, host), sweep, host),
                      history.unserved \cap host, Beginning, "ready")
         /\ Beginning.inv = host /\ Beginning.read = Known' /\ Known' \subseteq host
         /\ \A c \in history.unserved \cap host : polls'[c] = polls[c]
         /\ UNCHANGED <<truth, host, spent>> /\ refresh.at = "idle"
<1> DEFINE e == Accounts(epoch, host)
           sw == Prepare(e, sweep, host)
<1>1. /\ quotas' = [c \in Credential |-> IF c \in host THEN quotas[c] ELSE Unknown]
      /\ polls' = [c \in Credential |-> IF c \in host THEN polls[c] ELSE NoPoll]
      /\ Finalize(e, sw) /\ Note(history.unserved \cap host, sw)
      /\ Proceed(Beginning, "ready")
      /\ UNCHANGED <<truth, host, rows, warmup, spent>> /\ refresh.at = "idle"
  BY Zenon DEF Start, Beginning
<1>2. /\ epoch \in EpochType /\ sweep \in SweepType /\ host \in SUBSET Credential
      /\ quotas \in QuotaType /\ polls \in [Credential -> PollType] /\ history \in HistoryType
  BY DEF Types
<1>3. quotas' \in QuotaType
  BY <1>1, <1>2 DEF QuotaType
<1>4. polls' \in [Credential -> PollType] /\ \A c \in history.unserved \cap host : polls'[c] = polls[c]
  BY <1>1, <1>2, Empties
<1>5. Known' \subseteq host
  BY <1>1 DEF Known
<1>6. Beginning \in RefreshType /\ Beginning.inv = host /\ Beginning.read = Known'
  <2> DEFINE k == Known'
  <2>1. k \in SUBSET Credential
    BY <1>2, <1>5
  <2>2. Beginning = [Resting EXCEPT !.inv = host, !.read = k]
    BY Zenon DEF Beginning
  <2>3. Resting \in RefreshType
    BY Empties
  <2> HIDE DEF k
  <2>4. /\ Beginning \in RefreshType /\ Beginning.inv = host /\ Beginning.read = k
    BY <1>2, <2>1, <2>2, <2>3 DEF RefreshType
  <2> QED BY <2>4 DEF k
<1>7. /\ e \in EpochType /\ e.id = epoch.id
      /\ \A c \in Credential : e.account[c].state = "warmed" => epoch.account[c].state = "warmed"
  <2>1. NoAccount.state = "none"
    BY Empties
  <2> QED BY <1>2, <2>1, AccountsFacts
<1> HIDE DEF e
<1>8. sw \in SweepType
  BY <1>2, <1>7, PrepareFacts
<1> HIDE DEF sw
<1>9. history.unserved \cap host \in SUBSET Credential
  BY <1>2
<1>10. Finalized(e, sw, history.unserved \cap host, Beginning, "ready")
  BY <1>1, <1>6, <1>7, <1>8, <1>9 DEF Finalized
<1> QED BY <1>1, <1>3, <1>4, <1>5, <1>6, <1>10 DEF e, sw

\* A probe is answered: its sweep, whose targets are those of the running one or the whole
\* inventory, and whose evidence is the running one's or was just seen.
LEMMA AnswerEffects ==
  ASSUME Types, NEW r \in Reading, Answer(r)
  PROVE  /\ quotas' \in QuotaType /\ Known \subseteq Known' /\ polls' \in [Credential -> PollType]
         /\ \A c \in Credential : polls'[c].pending = polls[c].pending
         /\ \E e, sw :
              /\ Finalized(e, sw, history.unserved, refresh, "ready")
              /\ sw.active => (sweep.active /\ Targets(sw) = Targets(sweep)) \/ Targets(sw) = refresh.inv
              /\ sw.active => Evidence(sw) \subseteq (IF sweep.active THEN Evidence(sweep) ELSE {}) \cup NewCycles
         /\ UNCHANGED <<truth, host, spent>> /\ refresh.at = "asking"
<1> DEFINE c == refresh.c
           evidence == ~refresh.header /\ ResetEvidence(quotas[c], r)
           new == evidence /\ ~MatchesCurrent(epoch, r)
           early == refresh.early \/ (new /\ Fresh(sweep, "reset"))
           sw == IF new /\ Fresh(sweep, "reset") THEN Begin(sweep, refresh.inv, "reset") ELSE sweep
           observed == IF early THEN "old" ELSE "yes"
           told == Told(sw, c, observed, new)
           e == Observe(epoch, c, evidence)
<1>1. /\ refresh.at = "asking"
      /\ quotas' = [quotas EXCEPT ![c] = r]
      /\ polls' = [polls EXCEPT ![c].error = FALSE, ![c].used = refresh.used]
      /\ Finalize(e, told) /\ Note(history.unserved, told)
      /\ Proceed(refresh, "ready")
      /\ UNCHANGED <<truth, host, rows, warmup, spent>>
  BY Zenon DEF Answer, Told
<1>2. /\ epoch \in EpochType /\ sweep \in SweepType /\ refresh \in RefreshType
      /\ quotas \in QuotaType /\ polls \in [Credential -> PollType] /\ history \in HistoryType
      /\ c \in refresh.inv
  BY <1>1 DEF Types
<1>3. c \in Credential /\ refresh.inv \in SUBSET Credential /\ refresh.inv # {} /\ refresh.used \in BOOLEAN
  BY <1>2 DEF RefreshType
<1>4. quotas' \in QuotaType /\ quotas'[c] = r /\ \A d \in Credential : d # c => quotas'[d] = quotas[d]
  BY <1>1, <1>2, <1>3 DEF QuotaType
<1>5. Known \subseteq Known'
  BY <1>4, Empties DEF Known
<1>6. polls' \in [Credential -> PollType] /\ \A d \in Credential : polls'[d].pending = polls[d].pending
  <2> DEFINE p == [polls[c] EXCEPT !.error = FALSE, !.used = refresh.used]
  <2>1. polls[c] \in PollType
    BY <1>2, <1>3
  <2>2. p \in PollType /\ p.pending = polls[c].pending
    BY <2>1, <1>3 DEF PollType
  <2>3. polls' = [polls EXCEPT ![c] = p]
    BY <1>1, <1>2, <1>3
  <2> HIDE DEF p
  <2> QED BY <1>2, <1>3, <2>2, <2>3
<1>7. new \in BOOLEAN /\ observed \in {"old", "yes"}
  OBVIOUS
<1>8. new => c \in NewCycles
  BY <1>3, <1>4 DEF ResetEvidence, NewCycles
<1>9. "reset" \in Causes /\ (~sweep.active => Fresh(sweep, "reset"))
  BY DEF Causes, Fresh
<1> HIDE DEF e, early, new
<1>10. /\ sw \in SweepType
       /\ sw.active => (sweep.active /\ Targets(sw) = Targets(sweep)) \/ Targets(sw) = refresh.inv
       /\ sw.active => Evidence(sw) \subseteq IF sweep.active THEN Evidence(sweep) ELSE {}
  <2>1. CASE new /\ Fresh(sweep, "reset")
    <3>1. sw = Begin(sweep, refresh.inv, "reset")
      BY <2>1
    <3> QED BY <1>2, <1>3, <1>9, <3>1, BeginFacts
  <2>2. CASE ~(new /\ Fresh(sweep, "reset"))
    BY <2>2, <1>2
  <2> QED BY <2>1, <2>2
<1> HIDE DEF observed, sw
<1>11. /\ told \in SweepType /\ told.active = sw.active /\ Targets(told) = Targets(sw)
       /\ Evidence(told) \subseteq Evidence(sw) \cup {c}
       /\ ~new => Evidence(told) \subseteq Evidence(sw)
  <2> HIDE DEF c
  <2>1. sw \in SweepType /\ c \in Credential /\ observed \in {"old", "yes"} /\ new \in BOOLEAN
    BY <1>3, <1>7, <1>10
  <2> QED BY <2>1, ToldFacts
<1>12. /\ e \in EpochType /\ e.id = epoch.id
       /\ \A d \in Credential : e.account[d].state = "warmed" => epoch.account[d].state = "warmed"
  BY <1>2, <1>3, ObserveFacts DEF e
<1> HIDE DEF told
<1>13. history.unserved \in SUBSET Credential
  BY <1>2 DEF HistoryType
<1>14. Finalized(e, told, history.unserved, refresh, "ready")
  BY <1>1, <1>2, <1>11, <1>12, <1>13 DEF Finalized
<1>15. told.active => Evidence(told) \subseteq (IF sweep.active THEN Evidence(sweep) ELSE {}) \cup NewCycles
  BY <1>8, <1>10, <1>11
<1>16. told.active => (sweep.active /\ Targets(told) = Targets(sweep)) \/ Targets(told) = refresh.inv
  BY <1>10, <1>11
<1> QED BY <1>1, <1>4, <1>5, <1>6, <1>14, <1>15, <1>16

\* A probe fails, or the batch is used up.
LEMMA EndEffects ==
  ASSUME Types, Fail \/ Finish
  PROVE  /\ quotas' = quotas /\ polls' \in [Credential -> PollType]
         /\ \A c \in Credential : polls'[c].pending = polls[c].pending
         /\ \E then : Finalized(epoch, sweep, history.unserved, refresh, then)
         /\ UNCHANGED <<truth, host>> /\ spent' \in SpentType
         /\ refresh.at # "idle"
<1>1. /\ epoch \in EpochType /\ sweep \in SweepType /\ refresh \in RefreshType
      /\ polls \in [Credential -> PollType] /\ history \in HistoryType /\ spent \in SpentType
      /\ refresh.at = "asking" => refresh.c \in refresh.inv
  BY DEF Types
<1>2. history.unserved \in SUBSET Credential
  BY <1>1 DEF HistoryType
<1>3. CASE Fail
  <2>1. /\ refresh.at = "asking" /\ Count("trouble") /\ polls' = [polls EXCEPT ![refresh.c].error = TRUE]
        /\ UNCHANGED quotas /\ Finalize(epoch, sweep) /\ Proceed(refresh, "ready")
        /\ Note(history.unserved, sweep) /\ UNCHANGED <<truth, host, rows, warmup>>
    BY <1>3, Zenon DEF Fail
  <2>2. refresh.c \in Credential
    BY <1>1, <2>1 DEF RefreshType
  <2>3. polls' \in [Credential -> PollType] /\ \A c \in Credential : polls'[c].pending = polls[c].pending
    <3> DEFINE p == [polls[refresh.c] EXCEPT !.error = TRUE]
    <3>1. polls[refresh.c] \in PollType
      BY <1>1, <2>2
    <3>2. p \in PollType /\ p.pending = polls[refresh.c].pending
      BY <3>1 DEF PollType
    <3>3. polls' = [polls EXCEPT ![refresh.c] = p]
      BY <2>1
    <3> HIDE DEF p
    <3> QED BY <1>1, <2>2, <3>2, <3>3
  <2>4. spent' \in SpentType
    BY <1>1, <2>1 DEF Count, SpentType
  <2>5. Finalized(epoch, sweep, history.unserved, refresh, "ready")
    BY <1>1, <1>2, <2>1 DEF Finalized
  <2> QED BY <2>1, <2>3, <2>4, <2>5
<1>4. CASE Finish
  <2>1. /\ refresh.at = "ready" /\ UNCHANGED quotas /\ Finalize(epoch, sweep) /\ Proceed(refresh, "warm")
        /\ Note(history.unserved, sweep) /\ UNCHANGED <<truth, host, polls, rows, warmup, spent>>
    BY <1>4, Zenon DEF Finish
  <2>2. Finalized(epoch, sweep, history.unserved, refresh, "warm")
    BY <1>1, <1>2, <2>1 DEF Finalized
  <2> QED BY <1>1, <2>1, <2>2
<1> QED BY <1>3, <1>4

\* A usage event: demand, and perhaps a sweep whose targets are the credentials with a
\* reading and whose new evidence was just seen.
LEMMA UseEffects ==
  ASSUME Types, NEW c \in Credential, NEW headers \in BOOLEAN, Use(c, headers)
  PROVE  /\ truth' \in [Credential -> Reading] /\ quotas' \in QuotaType /\ Known' = Known
         /\ polls' \in [Credential -> PollType] /\ polls'[c].pending
         /\ \A d \in Credential : d # c => polls'[d] = polls[d]
         /\ epoch' \in EpochType /\ epoch'.id = epoch.id
         /\ \A d \in Credential : epoch'.account[d].state = "warmed" => epoch.account[d].state = "warmed"
         /\ sweep' \in SweepType
         /\ sweep'.active => (sweep.active /\ Targets(sweep') = Targets(sweep)) \/ Targets(sweep') = Known
         /\ sweep'.active => Evidence(sweep') \subseteq (IF sweep.active THEN Evidence(sweep) ELSE {}) \cup NewCycles
         /\ refresh' \in RefreshType /\ refresh'.at = refresh.at /\ refresh'.c = refresh.c
         /\ refresh'.read = refresh.read /\ refresh'.inv = refresh.inv
         /\ history' \in HistoryType /\ history'.warmed = history.warmed
         /\ history'.unserved = history.unserved \cup {c} /\ history'.witnesses = Witnesses
         /\ spent' \in SpentType /\ UNCHANGED <<host, rows, warmup>>
<1> DEFINE reports == headers /\ quotas[c] # Unknown
           begins == reports /\ ResetEvidence(quotas[c], truth'[c]) /\ ~MatchesCurrent(epoch, truth'[c])
           used == IF sweep.active THEN [sweep EXCEPT !.users = @ \cup {c}] ELSE sweep
           u1 == refresh.used \/ InFlight(c)
           u2 == refresh.header \/ (InFlight(c) /\ reports)
           u3 == refresh.early \/ (refresh.at = "asking" /\ begins /\ Fresh(sweep, "reset"))
<1>1. /\ Count("use") /\ truth' = [truth EXCEPT ![c].used = TRUE] /\ Demand(c)
      /\ epoch' = Natural(epoch, c)
      /\ quotas' = IF reports THEN [quotas EXCEPT ![c] = truth'[c]] ELSE quotas
      /\ sweep' = IF begins THEN FromHeaders(used, c) ELSE used
      /\ refresh' = [refresh EXCEPT !.used = u1, !.header = u2, !.early = u3]
      /\ Note(history.unserved \cup {c}, sweep) /\ UNCHANGED <<host, rows, warmup>>
  BY Zenon DEF Use
<1>2. /\ epoch \in EpochType /\ sweep \in SweepType /\ refresh \in RefreshType
      /\ quotas \in QuotaType /\ polls \in [Credential -> PollType] /\ history \in HistoryType
      /\ truth \in [Credential -> Reading] /\ spent \in SpentType
  BY DEF Types
<1>3. truth' \in [Credential -> Reading]
  <2> DEFINE t == [truth[c] EXCEPT !.used = TRUE]
  <2>1. truth[c] \in Reading
    BY <1>2
  <2>2. t \in Reading
    BY <2>1 DEF Reading
  <2>3. truth' = [truth EXCEPT ![c] = t]
    BY <1>1
  <2> HIDE DEF t
  <2> QED BY <1>2, <2>2, <2>3
<1>4. /\ quotas' \in QuotaType /\ Known' = Known
      /\ reports => quotas'[c] = truth'[c] /\ c \in Known
  <2>1. CASE reports
    <3>1. quotas' = [quotas EXCEPT ![c] = truth'[c]] /\ quotas[c] # Unknown
      BY <1>1, <2>1
    <3>2. truth'[c] \in Reading /\ truth'[c] # Unknown
      BY <1>3, Empties
    <3>3. quotas' \in QuotaType /\ quotas'[c] = truth'[c] /\ \A d \in Credential : d # c => quotas'[d] = quotas[d]
      BY <1>2, <3>1, <3>2 DEF QuotaType
    <3> QED BY <3>1, <3>2, <3>3 DEF Known
  <2>2. CASE ~reports
    BY <1>1, <1>2, <2>2 DEF Known
  <2> QED BY <2>1, <2>2
<1>5. /\ polls' \in [Credential -> PollType] /\ polls'[c].pending
      /\ \A d \in Credential : d # c => polls'[d] = polls[d]
  <2> DEFINE p == [polls[c] EXCEPT !.pending = TRUE, !.used = TRUE]
  <2>1. polls[c] \in PollType
    BY <1>2
  <2>2. p \in PollType /\ p.pending
    BY <2>1 DEF PollType
  <2>3. polls' = [polls EXCEPT ![c] = p]
    BY <1>1, <1>2 DEF Demand
  <2> HIDE DEF p
  <2> QED BY <1>2, <2>2, <2>3
<1>6. /\ epoch' \in EpochType /\ epoch'.id = epoch.id
      /\ \A d \in Credential : epoch'.account[d].state = "warmed" => epoch.account[d].state = "warmed"
  BY <1>1, <1>2, NaturalFacts
<1>7. /\ used \in SweepType /\ used.active = sweep.active
      /\ Targets(used) = Targets(sweep) /\ Evidence(used) = Evidence(sweep)
  <2>1. used \in SweepType /\ used.active = sweep.active /\ used.target = sweep.target
    BY <1>2 DEF SweepType
  <2> HIDE DEF used
  <2>2. Targets(used) = Targets(sweep)
    BY <2>1 DEF Targets
  <2> QED BY <2>1, <2>2 DEF Evidence
<1> HIDE DEF used
<1>8. /\ sweep' \in SweepType
      /\ sweep'.active => (sweep.active /\ Targets(sweep') = Targets(sweep)) \/ Targets(sweep') = Known
      /\ sweep'.active => Evidence(sweep') \subseteq (IF sweep.active THEN Evidence(sweep) ELSE {}) \cup NewCycles
  <2>1. CASE begins
    <3>1. c \in Known /\ c \in NewCycles
      BY <1>4, <2>1 DEF ResetEvidence, NewCycles
    <3>2. sweep' = FromHeaders(used, c)
      BY <1>1, <2>1
    <3>3. /\ sweep' \in SweepType /\ Targets(sweep') = Known
          /\ Evidence(sweep') \subseteq (IF used.active THEN Evidence(used) ELSE {}) \cup {c}
      BY <1>2, <1>7, <3>1, <3>2, FromHeadersFacts
    <3> QED BY <1>7, <3>1, <3>3
  <2>2. CASE ~begins
    <3>1. sweep' = used
      BY <1>1, <2>2
    <3> QED BY <1>7, <3>1
  <2> QED BY <2>1, <2>2
<1>9. /\ refresh' \in RefreshType /\ refresh'.at = refresh.at /\ refresh'.c = refresh.c
      /\ refresh'.read = refresh.read /\ refresh'.inv = refresh.inv
  <2>1. u1 \in BOOLEAN /\ u2 \in BOOLEAN /\ u3 \in BOOLEAN
    OBVIOUS
  <2> HIDE DEF u1, u2, u3
  <2> QED BY <1>1, <1>2, <2>1 DEF RefreshType
<1>10. ~Confirms
  BY <1>6 DEF Confirms
<1>11. /\ history' \in HistoryType /\ history'.warmed = history.warmed
       /\ history'.unserved = history.unserved \cup {c} /\ history'.witnesses = Witnesses
  <2>1. history.unserved \cup {c} \in SUBSET Credential
    BY <1>2 DEF HistoryType
  <2> QED BY <1>1, <1>2, <1>10, <2>1, NoteFacts
<1>12. spent' \in SpentType
  BY <1>1, <1>2 DEF Count, SpentType
<1> QED BY <1>1, <1>3, <1>4, <1>5, <1>6, <1>8, <1>9, <1>11, <1>12

(* The steps of an activation and of the environment.                       *)

\* A probe goes out.
LEMMA AskEffects ==
  ASSUME Types, NEW c \in Credential, Ask(c)
  PROVE  /\ polls' \in [Credential -> PollType] /\ \A d \in Credential : d # c => polls'[d] = polls[d]
         /\ epoch' \in EpochType /\ epoch'.id = epoch.id
         /\ \A d \in Credential : epoch'.account[d].state = epoch.account[d].state
         /\ sweep' \in SweepType /\ sweep'.active = sweep.active /\ Targets(sweep') = Targets(sweep)
         /\ Evidence(sweep') \subseteq Evidence(sweep)
         /\ refresh' \in RefreshType /\ refresh'.at = "asking" /\ refresh'.c = c /\ c \in refresh'.inv
         /\ refresh'.read = refresh.read /\ refresh'.inv = refresh.inv /\ refresh.at = "ready"
         /\ history' \in HistoryType /\ history'.warmed = history.warmed
         /\ history'.unserved = history.unserved \ {c} /\ history'.witnesses = history.witnesses
         /\ UNCHANGED <<truth, host, quotas, rows, warmup, spent>>
<1>1. /\ refresh.at = "ready" /\ c \in refresh.inv
      /\ polls' = [polls EXCEPT ![c].pending = FALSE]
      /\ refresh' = [refresh EXCEPT !.at = "asking", !.c = c, !.had = polls[c], !.used = FALSE,
                                    !.header = FALSE, !.early = FALSE, !.asked = @ \cup {c}]
      /\ \/ sweep' = [sweep EXCEPT !.target[c].tried = TRUE] /\ epoch' = epoch
         \/ sweep' = sweep /\ PendingWants(c)
            /\ epoch' = [epoch EXCEPT !.account[c] = [epoch.account[c] EXCEPT !.probes = @ + 1, !.late = epoch.age >= 1]]
         \/ sweep' = sweep /\ epoch' = epoch
      /\ history' = [history EXCEPT !.unserved = @ \ {c}]
      /\ UNCHANGED <<truth, host, quotas, rows, warmup, spent>>
  BY Zenon DEF Ask
<1>2. /\ epoch \in EpochType /\ sweep \in SweepType /\ refresh \in RefreshType
      /\ polls \in [Credential -> PollType] /\ history \in HistoryType
  BY DEF Types
<1>3. polls' \in [Credential -> PollType] /\ \A d \in Credential : d # c => polls'[d] = polls[d]
  <2> DEFINE p == [polls[c] EXCEPT !.pending = FALSE]
  <2>1. polls[c] \in PollType
    BY <1>2
  <2>2. p \in PollType
    BY <2>1 DEF PollType
  <2>3. polls' = [polls EXCEPT ![c] = p]
    BY <1>1, <1>2
  <2> HIDE DEF p
  <2> QED BY <1>2, <2>2, <2>3
<1> DEFINE Quiet == /\ epoch' \in EpochType /\ epoch'.id = epoch.id
                    /\ \A d \in Credential : epoch'.account[d].state = epoch.account[d].state
                    /\ sweep' \in SweepType /\ sweep'.active = sweep.active /\ Targets(sweep') = Targets(sweep)
                    /\ Evidence(sweep') \subseteq Evidence(sweep)
<1>4. ASSUME sweep' = [sweep EXCEPT !.target[c].tried = TRUE] /\ epoch' = epoch
      PROVE  Quiet
  <2> DEFINE t == [sweep.target[c] EXCEPT !.tried = TRUE]
  <2>1. sweep.target[c] \in TargetType
    BY <1>2 DEF SweepType
  <2>2. t \in TargetType /\ t.in = sweep.target[c].in /\ t.evidence = sweep.target[c].evidence
    BY <2>1 DEF TargetType
  <2>3. sweep' = Marked(sweep, c, t)
    BY <1>4 DEF Marked
  <2> HIDE DEF t
  <2>4. t.evidence => sweep.target[c].evidence
    BY <2>2
  <2>5. /\ sweep' \in SweepType /\ sweep'.active = sweep.active /\ Targets(sweep') = Targets(sweep)
        /\ Evidence(sweep') \subseteq Evidence(sweep)
    BY <1>2, <2>2, <2>3, <2>4, MarkedFacts
  <2> QED BY <1>2, <1>4, <2>5
<1>5. ASSUME /\ sweep' = sweep /\ PendingWants(c)
             /\ epoch' = [epoch EXCEPT !.account[c] = [epoch.account[c] EXCEPT !.probes = @ + 1, !.late = epoch.age >= 1]]
      PROVE  Quiet
  <2> DEFINE g == epoch.account[c]
             late == epoch.age >= 1
             a == [g EXCEPT !.probes = g.probes + 1, !.late = late]
             m == [epoch.account EXCEPT ![c] = a]
  <2>1. epoch.account \in [Credential -> GoodAccount] /\ g \in GoodAccount /\ g \in Account /\ epoch.age \in 0..2
    BY <1>2 DEF EpochType, GoodAccount
  <2>2. g.probes \in 0..ProbeLimit + 1 /\ (g.probes > ProbeLimit => g.late)
    BY <2>1 DEF GoodAccount, Account
  <2>3. g.probes < ProbeLimit \/ (epoch.age = 1 /\ ~g.late)
    BY <1>5 DEF PendingWants, CatchUp
  <2>4. late \in BOOLEAN
    OBVIOUS
  <2> HIDE DEF g
  <2>5. g.probes + 1 \in 0..ProbeLimit + 1 /\ (g.probes + 1 > ProbeLimit => late)
    BY <2>1, <2>2, <2>3, Bounds
  <2> HIDE DEF late
  <2>6. /\ a \in Account /\ a.state = g.state
        /\ a.probes = g.probes + 1 /\ a.late = late
    BY <2>1, <2>4, <2>5 DEF Account
  <2> HIDE DEF a
  <2>7. a \in GoodAccount
    BY <2>5, <2>6 DEF GoodAccount
  <2>8. m \in [Credential -> GoodAccount] /\ \A d \in Credential : m[d].state = epoch.account[d].state
    BY <2>1, <2>6, <2>7 DEF g
  <2>9. epoch' = [epoch EXCEPT !.account = m]
    BY <1>5, Zenon DEF m, a, g, late
  <2> HIDE DEF m
  <2>10. epoch' \in EpochType /\ epoch'.id = epoch.id /\ epoch'.account = m
    BY <1>2, <2>8, <2>9 DEF EpochType
  <2> QED BY <1>2, <1>5, <2>8, <2>10
<1>6. ASSUME sweep' = sweep /\ epoch' = epoch
      PROVE  Quiet
  BY <1>2, <1>6
<1>7. Quiet
  <2> HIDE DEF Quiet
  <2> QED BY <1>1, <1>4, <1>5, <1>6
<1>8. /\ refresh' \in RefreshType /\ refresh'.at = "asking" /\ refresh'.c = c /\ c \in refresh'.inv
      /\ refresh'.read = refresh.read /\ refresh'.inv = refresh.inv
  <2> DEFINE half == [refresh EXCEPT !.at = "asking", !.c = c, !.had = polls[c], !.used = FALSE]
  <2>1. polls[c] \in PollType
    BY <1>2
  <2>2. /\ half \in RefreshType /\ half.at = "asking" /\ half.c = c
        /\ half.read = refresh.read /\ half.inv = refresh.inv
    BY <1>2, <2>1 DEF RefreshType
  <2>3. refresh' = [half EXCEPT !.header = FALSE, !.early = FALSE, !.asked = @ \cup {c}]
    BY <1>1
  <2> HIDE DEF half
  <2>4. half.asked \cup {c} \in SUBSET Credential
    BY <2>2 DEF RefreshType
  <2>5. /\ refresh' \in RefreshType /\ refresh'.at = half.at /\ refresh'.c = half.c
        /\ refresh'.read = half.read /\ refresh'.inv = half.inv
    BY <2>2, <2>3, <2>4 DEF RefreshType
  <2> QED BY <1>1, <2>2, <2>5
<1>9. /\ history' \in HistoryType /\ history'.warmed = history.warmed
      /\ history'.unserved = history.unserved \ {c} /\ history'.witnesses = history.witnesses
  BY <1>1, <1>2 DEF HistoryType
<1> QED BY <1>1, <1>3, <1>7, <1>8, <1>9

\* A probe is cancelled: its demand is restored.
LEMMA CancelEffects ==
  ASSUME Types, Cancel
  PROVE  LET c == refresh.c IN
         /\ c \in Credential
         /\ polls' \in [Credential -> PollType] /\ \A d \in Credential : d # c => polls'[d] = polls[d]
         /\ polls'[c].pending = (refresh.had.pending \/ polls[c].pending)
         /\ refresh' = Resting
         /\ history' \in HistoryType /\ history'.warmed = history.warmed
         /\ history'.unserved = IF refresh.had.pending THEN history.unserved \cup {c} ELSE history.unserved
         /\ history'.witnesses = history.witnesses
         /\ spent' \in SpentType /\ UNCHANGED <<truth, host, quotas, epoch, sweep, rows, warmup>>
<1> DEFINE c == refresh.c
           had == refresh.had
           u == IF had.pending THEN history.unserved \cup {c} ELSE history.unserved
<1>1. /\ refresh.at = "asking" /\ Count("trouble")
      /\ polls' = [polls EXCEPT ![c] = Restored(polls[c], had)]
      /\ refresh' = Resting
      /\ history' = [history EXCEPT !.unserved = u]
      /\ UNCHANGED <<truth, host, quotas, epoch, sweep, rows, warmup>>
  BY Zenon DEF Cancel
<1>2. /\ refresh \in RefreshType /\ c \in refresh.inv
      /\ polls \in [Credential -> PollType] /\ history \in HistoryType /\ spent \in SpentType
  BY <1>1 DEF Types
<1>3. c \in Credential /\ had \in PollType
  BY <1>2 DEF RefreshType
<1>4. polls[c] \in PollType
  BY <1>2, <1>3
<1> HIDE DEF c, had
<1> DEFINE p == polls[c].pending
           q == polls[c].used
           k == Restored(polls[c], had)
<1>5. p \in BOOLEAN /\ q \in BOOLEAN
  BY <1>4 DEF PollType
<1>6. k \in PollType /\ k.pending = (had.pending \/ p)
  BY <1>3, <1>5 DEF PollType, Restored
<1> HIDE DEF k
<1>7. /\ polls' \in [Credential -> PollType] /\ polls'[c] = k
      /\ \A d \in Credential : d # c => polls'[d] = polls[d]
  BY <1>1, <1>2, <1>3, <1>6 DEF k
<1>8. u \in SUBSET Credential
  BY <1>2, <1>3 DEF HistoryType
<1>9. /\ history' \in HistoryType /\ history'.warmed = history.warmed
      /\ history'.unserved = u /\ history'.witnesses = history.witnesses
  <2> HIDE DEF u
  <2> QED BY <1>1, <1>2, <1>8 DEF HistoryType
<1>10. spent' \in SpentType
  BY <1>1, <1>2 DEF Count, SpentType
<1>11. polls'[c].pending = (had.pending \/ polls[c].pending)
  BY <1>6, <1>7
<1> QED BY <1>1, <1>3, <1>7, <1>9, <1>10, <1>11 DEF c, had

\* The outcome of an activation is recorded, and a success is demand for a probe.
LEMMA RecordEffects ==
  ASSUME Types, Record
  PROVE  LET c == warmup.c IN
         /\ c \in Credential /\ warmup.at = "returned"
         /\ polls' \in [Credential -> PollType] /\ \A d \in Credential : d # c => polls'[d] = polls[d]
         /\ epoch' \in EpochType /\ epoch'.id = epoch.id
         /\ \A d \in Credential : epoch'.account[d].state = "warmed" =>
              \/ epoch.account[d].state = "warmed"
              \/ d = c /\ warmup.epoch = epoch.id /\ warmup.outcome = "done"
         /\ warmup' = NoWarmup
         /\ refresh' \in RefreshType /\ refresh'.at = refresh.at /\ refresh'.c = refresh.c
         /\ refresh'.read = refresh.read /\ refresh'.inv = refresh.inv
         /\ history' \in HistoryType /\ history'.witnesses = history.witnesses
         /\ IF warmup.outcome = "done"
            THEN /\ history'.warmed = [history.warmed EXCEPT ![c] = @ \cup {warmup.epoch}]
                 /\ history'.unserved = history.unserved \cup {c} /\ polls'[c].pending
            ELSE history' = history /\ polls' = polls
         /\ UNCHANGED <<truth, host, quotas, sweep, rows, spent>>
<1> DEFINE c == warmup.c
           s == CASE warmup.outcome = "done" -> "warmed"
                  [] warmup.outcome = "hard" -> "blocked"
                  [] OTHER -> "pending"
           used == refresh.used \/ InFlight(c)
           w == [history.warmed EXCEPT ![c] = @ \cup {warmup.epoch}]
           un == history.unserved \cup {c}
<1>1. /\ warmup.at = "returned"
      /\ epoch' = IF CurrentOutcome(warmup) THEN [epoch EXCEPT !.account[c].state = s] ELSE epoch
      /\ warmup' = NoWarmup
      /\ IF warmup.outcome = "done"
         THEN /\ Demand(c) /\ refresh' = [refresh EXCEPT !.used = used]
              /\ history' = [history EXCEPT !.warmed[c] = @ \cup {warmup.epoch}, !.unserved = @ \cup {c}]
         ELSE polls' = polls /\ refresh' = refresh /\ history' = history
      /\ UNCHANGED <<truth, host, quotas, sweep, rows, spent>>
  BY Zenon DEF Record
<1>2. /\ epoch \in EpochType /\ refresh \in RefreshType /\ warmup \in WarmupType
      /\ polls \in [Credential -> PollType] /\ history \in HistoryType
      /\ c \in Credential
  BY <1>1 DEF Types
<1>3. s \in {"warmed", "blocked", "pending"} /\ (s = "warmed" <=> warmup.outcome = "done")
  OBVIOUS
<1> HIDE DEF s
<1>4. /\ epoch' \in EpochType /\ epoch'.id = epoch.id
      /\ \A d \in Credential : epoch'.account[d].state = "warmed" =>
            epoch.account[d].state = "warmed" \/ (d = c /\ warmup.epoch = epoch.id /\ warmup.outcome = "done")
  <2>1. CASE CurrentOutcome(warmup)
    <3> DEFINE a == [epoch.account[c] EXCEPT !.state = s]
               m == [epoch.account EXCEPT ![c] = a]
    <3>1. epoch.account \in [Credential -> GoodAccount] /\ epoch.account[c] \in GoodAccount
      BY <1>2 DEF EpochType
    <3>2. a \in GoodAccount /\ a.state = s
      BY <3>1, <1>3 DEF GoodAccount, Account
    <3>3. epoch' = [epoch EXCEPT !.account = m]
      BY <1>1, <2>1
    <3> HIDE DEF a
    <3>4. m \in [Credential -> GoodAccount] /\ \A d \in Credential : m[d] = IF d = c THEN a ELSE epoch.account[d]
      BY <3>1, <3>2
    <3> HIDE DEF m
    <3>5. epoch' \in EpochType /\ epoch'.id = epoch.id /\ epoch'.account = m
      BY <1>2, <3>3, <3>4 DEF EpochType
    <3>6. warmup.epoch = epoch.id
      BY <2>1 DEF CurrentOutcome
    <3> QED BY <1>3, <3>2, <3>4, <3>5, <3>6
  <2>2. CASE ~CurrentOutcome(warmup)
    BY <1>1, <1>2, <2>2
  <2> QED BY <2>1, <2>2
<1>5. /\ refresh' \in RefreshType /\ refresh'.at = refresh.at /\ refresh'.c = refresh.c
      /\ refresh'.read = refresh.read /\ refresh'.inv = refresh.inv
  <2>1. used \in BOOLEAN
    OBVIOUS
  <2> HIDE DEF used
  <2> QED BY <1>1, <1>2, <2>1 DEF RefreshType
<1>6. CASE warmup.outcome = "done"
  <2>1. /\ polls' \in [Credential -> PollType] /\ polls'[c].pending
        /\ \A d \in Credential : d # c => polls'[d] = polls[d]
    <3> DEFINE p == [polls[c] EXCEPT !.pending = TRUE, !.used = TRUE]
    <3>1. polls[c] \in PollType
      BY <1>2
    <3>2. p \in PollType /\ p.pending
      BY <3>1 DEF PollType
    <3>3. polls' = [polls EXCEPT ![c] = p]
      BY <1>1, <1>2, <1>6 DEF Demand
    <3> HIDE DEF p
    <3> QED BY <1>2, <3>2, <3>3
  <2>2. history' = [history EXCEPT !.warmed = w, !.unserved = un]
    BY <1>1, <1>6
  <2>3. w \in [Credential -> SUBSET Nat] /\ un \in SUBSET Credential
    BY <1>2 DEF HistoryType, WarmupType
  <2> HIDE DEF w, un
  <2>4. /\ history' \in HistoryType /\ history'.warmed = w /\ history'.unserved = un
        /\ history'.witnesses = history.witnesses
    BY <1>2, <2>2, <2>3 DEF HistoryType
  <2> QED BY <1>1, <1>2, <1>4, <1>5, <1>6, <2>1, <2>4 DEF w, un
<1>7. CASE warmup.outcome # "done"
  BY <1>1, <1>2, <1>4, <1>5, <1>7
<1> QED BY <1>6, <1>7

\* Steps that only the clock or the environment takes.
LEMMA QuietEffects ==
  ASSUME Types,
         \/ \E S \in SUBSET Credential : ProviderResets(S)
         \/ EpochAges({}) \/ EpochAges(Credential)
         \/ \E c \in Credential : HostChanges(c)
         \/ DeadlinePasses \/ RoundStarts
  PROVE  /\ truth' \in [Credential -> Reading] /\ host' \subseteq Credential
         /\ epoch' \in EpochType /\ epoch'.id = epoch.id
         /\ \A d \in Credential : epoch'.account[d].state = epoch.account[d].state
         /\ sweep' \in SweepType /\ sweep'.active = sweep.active
         /\ Targets(sweep') = Targets(sweep) /\ Evidence(sweep') = Evidence(sweep)
         /\ spent' \in SpentType
         /\ UNCHANGED <<quotas, polls, refresh, rows, warmup, history>>
<1> DEFINE Calm == /\ truth' \in [Credential -> Reading] /\ host' \subseteq Credential
                   /\ epoch' \in EpochType /\ epoch'.id = epoch.id
                   /\ \A d \in Credential : epoch'.account[d].state = epoch.account[d].state
                   /\ sweep' \in SweepType /\ sweep'.active = sweep.active
                   /\ Targets(sweep') = Targets(sweep) /\ Evidence(sweep') = Evidence(sweep)
                   /\ spent' \in SpentType
                   /\ UNCHANGED <<quotas, polls, refresh, rows, warmup, history>>
<1>1. /\ truth \in [Credential -> Reading] /\ host \subseteq Credential
      /\ epoch \in EpochType /\ sweep \in SweepType /\ spent \in SpentType
  BY DEF Types
<1>2. ASSUME NEW S \in SUBSET Credential, ProviderResets(S) PROVE Calm
  <2>1. /\ spent.reset < MaxReset /\ Count("reset")
        /\ truth' = [c \in Credential |-> IF c \in S THEN [cycle |-> spent.reset + 1, used |-> FALSE] ELSE truth[c]]
        /\ UNCHANGED <<host, quotas, polls, epoch, sweep, refresh, rows, warmup, history>>
    BY <1>2, Zenon DEF ProviderResets, Left
  <2>2. spent.reset \in Nat /\ spent.reset + 1 \in 0..MaxReset
    BY <1>1, <2>1, Bounds DEF SpentType
  <2>3. spent' = [spent EXCEPT !.reset = spent.reset + 1]
    BY <2>1 DEF Count
  <2>4. spent' \in SpentType
    BY <1>1, <2>2, <2>3 DEF SpentType
  <2>5. truth' \in [Credential -> Reading]
    <3> DEFINE k == spent.reset + 1
               r == [cycle |-> k, used |-> FALSE]
    <3>1. r \in Reading
      BY <2>2 DEF Reading
    <3>2. truth' = [c \in Credential |-> IF c \in S THEN r ELSE truth[c]]
      BY <2>1
    <3> HIDE DEF r
    <3> QED BY <1>1, <3>1, <3>2
  <2> QED BY <1>1, <2>1, <2>4, <2>5
<1>3. ASSUME NEW S \in SUBSET Credential, EpochAges(S) PROVE Calm
  <2> DEFINE m == [c \in Credential |-> IF c \in S THEN [epoch.account[c] EXCEPT !.seen = FALSE] ELSE epoch.account[c]]
  <2>1. /\ epoch.age < 2
        /\ epoch' = [epoch EXCEPT !.age = epoch.age + 1, !.account = m]
        /\ UNCHANGED <<truth, host, quotas, polls, sweep, refresh, rows, warmup, spent, history>>
    BY <1>3, Zenon DEF EpochAges
  <2>2. epoch.account \in [Credential -> GoodAccount]
    BY <1>1 DEF EpochType
  <2>3. ASSUME NEW a \in GoodAccount
        PROVE  [a EXCEPT !.seen = FALSE] \in GoodAccount /\ [a EXCEPT !.seen = FALSE].state = a.state
    BY DEF GoodAccount, Account
  <2>4. m \in [Credential -> GoodAccount] /\ \A d \in Credential : m[d].state = epoch.account[d].state
    BY <2>2, <2>3
  <2>5. epoch.age + 1 \in 0..2
    BY <1>1, <2>1 DEF EpochType
  <2> HIDE DEF m
  <2>6. epoch' \in EpochType /\ epoch'.id = epoch.id /\ epoch'.account = m
    BY <1>1, <2>1, <2>4, <2>5 DEF EpochType
  <2> QED BY <1>1, <2>1, <2>4, <2>6
<1>4. ASSUME NEW c \in Credential, HostChanges(c) PROVE Calm
  <2>1. /\ Count("move") /\ host' = IF c \in host THEN host \ {c} ELSE host \cup {c}
        /\ UNCHANGED <<truth, quotas, polls, epoch, sweep, refresh, rows, warmup, history>>
    BY <1>4, Zenon DEF HostChanges
  <2>2. spent' \in SpentType
    BY <1>1, <2>1 DEF Count, SpentType
  <2>3. host' \subseteq Credential
    BY <1>1, <2>1
  <2> QED BY <1>1, <2>1, <2>2, <2>3
<1>5. ASSUME DeadlinePasses \/ RoundStarts PROVE Calm
  <2>1. /\ sweep' = [sweep EXCEPT !.overdue = TRUE] \/ sweep' = [sweep EXCEPT !.waiting = FALSE]
        /\ UNCHANGED <<truth, host, quotas, polls, epoch, refresh, rows, warmup, spent, history>>
    BY <1>5, Zenon DEF DeadlinePasses, RoundStarts
  <2>2. sweep' \in SweepType /\ sweep'.active = sweep.active /\ sweep'.target = sweep.target
    BY <1>1, <2>1 DEF SweepType
  <2>3. Targets(sweep') = Targets(sweep)
    BY <2>2 DEF Targets
  <2>4. Evidence(sweep') = Evidence(sweep)
    BY <2>2, <2>3 DEF Evidence
  <2> QED BY <1>1, <2>1, <2>2, <2>3, <2>4
<1> HIDE DEF Calm
<1>6. Calm
  <2>1. {} \in SUBSET Credential /\ Credential \in SUBSET Credential
    OBVIOUS
  <2> QED BY <1>2, <1>3, <1>4, <1>5, <2>1
<1> QED BY <1>6 DEF Calm

\* A confirmed epoch is applied: rows are dropped, or kept.
LEMMA ApplyEffects ==
  ASSUME Types, Apply
  PROVE  /\ refresh.at = "apply" /\ rows' \in [Credential -> RowType]
         /\ \A c \in Credential : rows'[c] = rows[c] \/ rows'[c] = NoRow
         /\ refresh' \in RefreshType /\ refresh'.at \in {"ready", "warm", "block"}
         /\ refresh'.read = refresh.read /\ refresh'.inv = refresh.inv
         /\ UNCHANGED <<truth, host, quotas, polls, epoch, sweep, warmup, spent, history>>
<1> DEFINE members == {c \in Credential : epoch.account[c] # NoAccount}
           hard == {c \in members : rows[c].kind = "hard"}
<1>1. PICK kept \in SUBSET (members \ hard) :
         rows' = [c \in Credential |-> IF c \in members \ (hard \cup kept) /\ Dropped(c) THEN NoRow ELSE rows[c]]
  BY Zenon DEF Apply
<1>2. /\ refresh.at = "apply"
      /\ refresh' = IF hard = {} THEN [refresh EXCEPT !.at = refresh.then]
                    ELSE [refresh EXCEPT !.at = "block", !.blocked = hard]
      /\ UNCHANGED <<truth, host, quotas, polls, epoch, sweep, warmup, spent, history>>
  BY Zenon DEF Apply
<1>3. rows \in [Credential -> RowType] /\ refresh \in RefreshType
  BY DEF Types
<1>4. rows' \in [Credential -> RowType] /\ \A c \in Credential : rows'[c] = rows[c] \/ rows'[c] = NoRow
  BY <1>1, <1>3, Empties
<1>5. hard \in SUBSET Credential
  OBVIOUS
<1> HIDE DEF hard
<1>6. CASE hard = {}
  <2>1. refresh' = [refresh EXCEPT !.at = refresh.then] /\ refresh.then \in {"ready", "warm"}
    BY <1>2, <1>3, <1>6 DEF RefreshType
  <2>2. /\ refresh' \in RefreshType /\ refresh'.at = refresh.then
        /\ refresh'.read = refresh.read /\ refresh'.inv = refresh.inv
    BY <1>3, <2>1 DEF RefreshType
  <2> QED BY <1>2, <1>4, <2>1, <2>2
<1>7. CASE hard # {}
  <2>1. refresh' = [refresh EXCEPT !.at = "block", !.blocked = hard]
    BY <1>2, <1>7
  <2>2. /\ refresh' \in RefreshType /\ refresh'.at = "block"
        /\ refresh'.read = refresh.read /\ refresh'.inv = refresh.inv
    BY <1>3, <1>5, <2>1 DEF RefreshType
  <2> QED BY <1>2, <1>4, <2>2
<1> QED BY <1>6, <1>7

\* The accounts of hard blocked credentials are blocked in the new epoch.
LEMMA BlockEffects ==
  ASSUME Types, Block
  PROVE  /\ refresh.at = "block"
         /\ epoch' \in EpochType /\ epoch'.id = epoch.id
         /\ \A d \in Credential : epoch'.account[d].state = "warmed" => epoch.account[d].state = "warmed"
         /\ refresh' \in RefreshType /\ refresh'.at \in {"ready", "warm"}
         /\ refresh'.read = refresh.read /\ refresh'.inv = refresh.inv
         /\ UNCHANGED <<truth, host, quotas, polls, sweep, rows, warmup, spent, history>>
<1> DEFINE m == [c \in Credential |-> IF c \in refresh.blocked THEN [epoch.account[c] EXCEPT !.state = "blocked"]
                                      ELSE epoch.account[c]]
<1>1. /\ refresh.at = "block"
      /\ epoch' = [epoch EXCEPT !.account = m]
      /\ refresh' = [refresh EXCEPT !.at = refresh.then, !.blocked = {}]
      /\ UNCHANGED <<truth, host, quotas, polls, sweep, rows, warmup, spent, history>>
  BY Zenon DEF Block
<1>2. epoch \in EpochType /\ refresh \in RefreshType
  BY DEF Types
<1>3. epoch.account \in [Credential -> GoodAccount]
  BY <1>2 DEF EpochType
<1>4. ASSUME NEW a \in GoodAccount
      PROVE  [a EXCEPT !.state = "blocked"] \in GoodAccount /\ [a EXCEPT !.state = "blocked"].state = "blocked"
  BY DEF GoodAccount, Account
<1>5. /\ m \in [Credential -> GoodAccount]
      /\ \A d \in Credential : m[d].state = "warmed" => epoch.account[d].state = "warmed"
  BY <1>3, <1>4
<1> HIDE DEF m
<1>6. epoch' \in EpochType /\ epoch'.id = epoch.id /\ epoch'.account = m
  BY <1>1, <1>2, <1>5 DEF EpochType
<1>7. refresh.then \in {"ready", "warm"}
  BY <1>2 DEF RefreshType
<1>8. /\ refresh' \in RefreshType /\ refresh'.at = refresh.then
      /\ refresh'.read = refresh.read /\ refresh'.inv = refresh.inv
  BY <1>1, <1>2, <1>7 DEF RefreshType
<1> QED BY <1>1, <1>5, <1>6, <1>7, <1>8

\* An activation is admitted.
LEMMA AdmitEffects ==
  ASSUME Types, NEW c \in Credential, Admit(c)
  PROVE  /\ refresh.at = "warm" /\ refresh' = Resting
         /\ epoch.id # 0 /\ ~Suppressed(c, epoch.id)
         /\ rows' \in [Credential -> RowType] /\ rows'[c] = NoRow
         /\ \A d \in Credential : d # c => rows'[d] = rows[d]
         /\ warmup' \in WarmupType /\ warmup'.at = "admitted" /\ warmup'.c = c
         /\ warmup'.epoch = epoch.id
         /\ spent' \in SpentType
         /\ UNCHANGED <<truth, host, quotas, polls, epoch, sweep, history>>
<1> DEFINE id == Allowance(c)
<1>1. /\ refresh.at = "warm" /\ Count("warm") /\ id # 0 /\ ~Suppressed(c, id)
      /\ rows' = [rows EXCEPT ![c] = NoRow]
      /\ warmup' = [at |-> "admitted", c |-> c, epoch |-> id, outcome |-> "none"]
      /\ refresh' = Resting
      /\ UNCHANGED <<truth, host, quotas, polls, epoch, sweep, history>>
  BY Zenon DEF Admit
<1>2. id = epoch.id /\ epoch.id # 0
  BY <1>1 DEF Allowance
<1> HIDE DEF id
<1>3. rows \in [Credential -> RowType] /\ epoch.id \in Nat /\ spent \in SpentType
  BY DEF Types, EpochType
<1>4. spent' \in SpentType
  BY <1>1, <1>3 DEF Count, SpentType
<1>5. rows' \in [Credential -> RowType] /\ rows'[c] = NoRow /\ \A d \in Credential : d # c => rows'[d] = rows[d]
  BY <1>1, <1>3, Empties
<1>6. /\ warmup' \in WarmupType /\ warmup'.at = "admitted" /\ warmup'.c = c /\ warmup'.epoch = epoch.id
  BY <1>1, <1>2, <1>3 DEF WarmupType
<1>7. ~Suppressed(c, epoch.id)
  BY <1>1, <1>2
<1> QED BY <1>1, <1>2, <1>4, <1>5, <1>6, <1>7

\* It is sent, or dropped.
LEMMA SendEffects ==
  ASSUME Types, Send
  PROVE  /\ warmup.at = "admitted"
         /\ warmup' \in WarmupType
         /\ warmup' = NoWarmup \/ (warmup'.at = "sent" /\ warmup'.c = warmup.c /\ warmup'.epoch = warmup.epoch)
         /\ UNCHANGED <<truth, host, quotas, polls, epoch, sweep, refresh, rows, spent, history>>
<1>1. /\ warmup.at = "admitted"
      /\ warmup' = [warmup EXCEPT !.at = "sent"] \/ warmup' = NoWarmup
      /\ UNCHANGED <<truth, host, quotas, polls, epoch, sweep, refresh, rows, spent, history>>
  BY Zenon DEF Send
<1>2. warmup \in WarmupType
  BY DEF Types
<1>3. [warmup EXCEPT !.at = "sent"] \in WarmupType /\ [warmup EXCEPT !.at = "sent"].at = "sent"
      /\ [warmup EXCEPT !.at = "sent"].c = warmup.c /\ [warmup EXCEPT !.at = "sent"].epoch = warmup.epoch
  BY <1>2 DEF WarmupType
<1> QED BY <1>1, <1>3, Empties

\* It returns, and its row is written.
LEMMA ReturnEffects ==
  ASSUME Types, NEW outcome \in {"done", "failed", "hard"}, Return(outcome)
  PROVE  /\ warmup.at = "sent" /\ truth' \in [Credential -> Reading]
         /\ warmup' \in WarmupType /\ warmup'.at = "returned" /\ warmup'.c = warmup.c
         /\ warmup'.epoch = warmup.epoch /\ warmup'.outcome = outcome
         /\ rows' \in [Credential -> RowType]
         /\ \A d \in Credential : d # warmup.c => rows'[d] = rows[d]
         /\ outcome = "done" => rows'[warmup.c].kind = "done" /\ rows'[warmup.c].epoch = warmup.epoch
         /\ UNCHANGED <<host, quotas, polls, epoch, sweep, refresh, spent, history>>
<1> DEFINE c == warmup.c
           row == IF outcome = "failed" THEN NoRow ELSE [epoch |-> warmup.epoch, kind |-> outcome]
           t == [truth EXCEPT ![c].used = TRUE]
<1>1. /\ warmup.at = "sent" /\ warmup' = [warmup EXCEPT !.at = "returned", !.outcome = outcome]
      /\ rows' = [rows EXCEPT ![c] = row]
      /\ truth' = truth \/ truth' = t
      /\ UNCHANGED <<host, quotas, polls, epoch, sweep, refresh, spent, history>>
  BY DEF Return
<1>2. /\ warmup \in WarmupType /\ c \in Credential /\ rows \in [Credential -> RowType]
      /\ truth \in [Credential -> Reading]
  BY <1>1 DEF Types
<1>3. row \in RowType /\ (outcome = "done" => row.kind = "done" /\ row.epoch = warmup.epoch)
  BY <1>2, Empties DEF RowType, WarmupType
<1> HIDE DEF row
<1>4. /\ warmup' \in WarmupType /\ warmup'.at = "returned" /\ warmup'.c = c
      /\ warmup'.epoch = warmup.epoch /\ warmup'.outcome = outcome
  BY <1>1, <1>2 DEF WarmupType
<1>5. truth' \in [Credential -> Reading]
  <2> DEFINE r == [truth[c] EXCEPT !.used = TRUE]
  <2>1. truth[c] \in Reading
    BY <1>2
  <2>2. r \in Reading
    BY <2>1 DEF Reading
  <2>3. t = [truth EXCEPT ![c] = r]
    OBVIOUS
  <2> HIDE DEF r, t
  <2> QED BY <1>1, <1>2, <2>2, <2>3
<1>6. rows' \in [Credential -> RowType] /\ rows'[c] = row /\ \A d \in Credential : d # c => rows'[d] = rows[d]
  BY <1>1, <1>2, <1>3
<1> QED BY <1>1, <1>3, <1>4, <1>5, <1>6

(* Types.                                                                   *)

\* An answer is a reading.
LEMMA ReadingsAnswer ==
  ASSUME NEW n \in 0..MaxReset, NEW u \in BOOLEAN
  PROVE  [cycle |-> n, used |-> u] \in Reading
<1> QED BY DEF Reading

\* One of the steps.
LEMMA OneStep ==
  ASSUME Next
  PROVE  \/ /\ \/ \E S \in SUBSET Credential : ProviderResets(S)
               \/ EpochAges({}) \/ EpochAges(Credential)
               \/ \E c \in Credential : HostChanges(c)
               \/ DeadlinePasses \/ RoundStarts
         \/ \E c \in Credential, h \in BOOLEAN : Use(c, h)
         \/ Start \/ (Fail \/ Finish) \/ Cancel \/ Apply \/ Block \/ Rest
         \/ \E c \in Credential : Ask(c)
         \/ \E r \in Reading : Answer(r)
         \/ \E c \in Credential : Admit(c)
         \/ \E o \in {"done", "failed", "hard"} : Return(o)
         \/ Send \/ Record
<1>1. ASSUME \E n \in 0..MaxReset, u \in BOOLEAN : Answer([cycle |-> n, used |-> u])
      PROVE  \E r \in Reading : Answer(r)
  BY <1>1, ReadingsAnswer
<1> QED BY <1>1, Zenon DEF Next, Environment, Refreshing, Warming

\* A step keeps the types.
LEMMA TypesStep ==
  ASSUME Types, [Next]_vars
  PROVE  Types'
<1>1. CASE UNCHANGED vars
  BY <1>1 DEF vars, Types
<1>2. CASE \/ \E S \in SUBSET Credential : ProviderResets(S)
           \/ EpochAges({}) \/ EpochAges(Credential)
           \/ \E c \in Credential : HostChanges(c)
           \/ DeadlinePasses \/ RoundStarts
  BY <1>2, QuietEffects DEF Types
<1>3. ASSUME NEW c \in Credential, NEW h \in BOOLEAN, Use(c, h) PROVE Types'
  <2>1. /\ truth' \in [Credential -> Reading] /\ quotas' \in QuotaType
        /\ polls' \in [Credential -> PollType] /\ epoch' \in EpochType /\ sweep' \in SweepType
        /\ refresh' \in RefreshType /\ refresh'.at = refresh.at /\ refresh'.c = refresh.c
        /\ refresh'.inv = refresh.inv /\ history' \in HistoryType /\ spent' \in SpentType
        /\ UNCHANGED <<host, rows, warmup>>
    BY <1>3, UseEffects
  <2> QED BY <2>1 DEF Types
<1>4. CASE Start
  <2>1. /\ quotas' \in QuotaType /\ polls' \in [Credential -> PollType] /\ UNCHANGED <<truth, host, spent>>
        /\ Finalized(Accounts(epoch, host), Prepare(Accounts(epoch, host), sweep, host),
                      history.unserved \cap host, Beginning, "ready")
    BY <1>4, StartEffects
  <2>2. /\ epoch' \in EpochType /\ sweep' \in SweepType /\ refresh' \in RefreshType
        /\ history' \in HistoryType /\ refresh'.at # "asking" /\ rows' = rows /\ warmup' = warmup
    BY <2>1, FinalizedTypes
  <2> QED BY <2>1, <2>2 DEF Types
<1>5. ASSUME NEW r \in Reading, Answer(r) PROVE Types'
  <2>1. /\ quotas' \in QuotaType /\ polls' \in [Credential -> PollType] /\ UNCHANGED <<truth, host, spent>>
        /\ \E e, sw : Finalized(e, sw, history.unserved, refresh, "ready")
    BY <1>5, AnswerEffects
  <2>2. /\ epoch' \in EpochType /\ sweep' \in SweepType /\ refresh' \in RefreshType
        /\ history' \in HistoryType /\ refresh'.at # "asking" /\ rows' = rows /\ warmup' = warmup
    BY <2>1, FinalizedTypes
  <2> QED BY <2>1, <2>2 DEF Types
<1>6. CASE Fail \/ Finish
  <2>1. /\ quotas' = quotas /\ polls' \in [Credential -> PollType] /\ UNCHANGED <<truth, host>>
        /\ spent' \in SpentType /\ \E then : Finalized(epoch, sweep, history.unserved, refresh, then)
    BY <1>6, EndEffects
  <2>2. quotas' \in QuotaType
    BY <2>1 DEF Types
  <2>3. /\ epoch' \in EpochType /\ sweep' \in SweepType /\ refresh' \in RefreshType
        /\ history' \in HistoryType /\ refresh'.at # "asking" /\ rows' = rows /\ warmup' = warmup
    BY <2>1, <2>2, FinalizedTypes
  <2> QED BY <2>1, <2>3 DEF Types
<1>7. CASE Cancel
  <2>1. /\ polls' \in [Credential -> PollType] /\ refresh' = Resting
        /\ history' \in HistoryType /\ spent' \in SpentType
        /\ UNCHANGED <<truth, host, quotas, epoch, sweep, rows, warmup>>
    BY <1>7, CancelEffects
  <2> QED BY <2>1, Empties DEF Types
<1>8. CASE Apply
  BY <1>8, ApplyEffects DEF Types
<1>9. CASE Block
  BY <1>9, BlockEffects DEF Types
<1>10. CASE Rest
  BY <1>10, Empties DEF Types, Rest
<1>11. ASSUME NEW c \in Credential, Ask(c) PROVE Types'
  <2>1. /\ polls' \in [Credential -> PollType] /\ epoch' \in EpochType /\ sweep' \in SweepType
        /\ refresh' \in RefreshType /\ refresh'.c = c /\ c \in refresh'.inv /\ history' \in HistoryType
        /\ UNCHANGED <<truth, host, quotas, rows, warmup, spent>>
    BY <1>11, AskEffects
  <2> QED BY <2>1 DEF Types
<1>12. ASSUME NEW c \in Credential, Admit(c) PROVE Types'
  BY <1>12, AdmitEffects, Empties DEF Types
<1>13. ASSUME NEW o \in {"done", "failed", "hard"}, Return(o) PROVE Types'
  <2>1. /\ warmup.at = "sent" /\ truth' \in [Credential -> Reading]
        /\ warmup' \in WarmupType /\ warmup'.c = warmup.c /\ rows' \in [Credential -> RowType]
        /\ UNCHANGED <<host, quotas, polls, epoch, sweep, refresh, spent, history>>
    BY <1>13, ReturnEffects
  <2> QED BY <2>1 DEF Types
<1>14. CASE Send
  BY <1>14, SendEffects, Empties DEF Types
<1>15. CASE Record
  <2>1. /\ polls' \in [Credential -> PollType] /\ epoch' \in EpochType /\ warmup' = NoWarmup
        /\ refresh' \in RefreshType /\ refresh'.at = refresh.at /\ refresh'.c = refresh.c
        /\ refresh'.inv = refresh.inv /\ history' \in HistoryType
        /\ UNCHANGED <<truth, host, quotas, sweep, rows, spent>>
    BY <1>15, RecordEffects
  <2> QED BY <2>1, Empties DEF Types
<1>16. CASE Next
  BY <1>16, OneStep, <1>2, <1>3, <1>4, <1>5, <1>6, <1>7, <1>8, <1>9, <1>10, <1>11, <1>12, <1>13, <1>14, <1>15
<1> QED BY <1>1, <1>16

\* The types hold at the start.
LEMMA TypesInit ==
  ASSUME Init
  PROVE  Types
<1>1. truth \in [Credential -> Reading]
  <2>1. ASSUME NEW u \in BOOLEAN PROVE [cycle |-> 0, used |-> u] \in Reading
    BY Bounds DEF Reading
  <2>2. {[cycle |-> 0, used |-> u] : u \in BOOLEAN} \subseteq Reading
    BY <2>1
  <2>3. truth \in [Credential -> {[cycle |-> 0, used |-> u] : u \in BOOLEAN}]
    BY DEF Init
  <2> QED BY <2>2, <2>3
<1>2. quotas \in QuotaType /\ polls \in [Credential -> PollType] /\ rows \in [Credential -> RowType]
  BY Empties DEF Init, QuotaType
<1>3. epoch \in EpochType
  <2> DEFINE a == [c \in Credential |-> NoAccount]
  <2>1. a \in [Credential -> GoodAccount]
    BY Empties
  <2>2. epoch = [id |-> 0, reason |-> "none", age |-> 0, cycle |-> Unknown.cycle, account |-> a]
    BY DEF Init
  <2> HIDE DEF a
  <2> QED BY <2>1, <2>2 DEF EpochType
<1>4. spent \in SpentType
  BY Bounds DEF Init, SpentType
<1>5. history \in HistoryType
  <2> DEFINE w == [c \in Credential |-> {}]
  <2>1. w \in [Credential -> SUBSET Nat]
    OBVIOUS
  <2>2. history = [warmed |-> w, unserved |-> {}, witnesses |-> {}]
    BY DEF Init
  <2> HIDE DEF w
  <2> QED BY <2>1, <2>2 DEF HistoryType
<1>6. host \subseteq Credential /\ sweep = NoSweep /\ refresh = Resting /\ warmup = NoWarmup
  BY DEF Init
<1> QED BY <1>1, <1>2, <1>3, <1>4, <1>5, <1>6, Empties DEF Types

\* The checked type invariant follows.
LEMMA TypesImply ==
  ASSUME Types
  PROVE  TypeOK
<1>1. /\ truth \in [Credential -> Reading] /\ host \subseteq Credential /\ quotas \in QuotaType
      /\ polls \in [Credential -> PollType] /\ epoch \in EpochType /\ sweep \in SweepType
      /\ rows \in [Credential -> RowType]
  BY DEF Types
<1>2. /\ epoch.id \in Nat /\ epoch.age \in 0..2 /\ epoch.account \in [Credential -> Account]
      /\ epoch.reason \in {"none", "bootstrap", "reset"} /\ epoch.cycle \in {Unknown.cycle} \cup 0..MaxReset
  <2>1. epoch.account \in [Credential -> GoodAccount]
    BY <1>1 DEF EpochType
  <2>2. GoodAccount \subseteq Account
    BY DEF GoodAccount
  <2>3. epoch.account \in [Credential -> Account]
    BY <2>1, <2>2
  <2> QED BY <1>1, <2>3 DEF EpochType
<1>3. /\ sweep.cause \in {"none", "bootstrap", "inventory", "reset"} /\ sweep.round \in 1..MaxRounds
      /\ {sweep.active, sweep.overdue, sweep.waiting} \subseteq BOOLEAN /\ sweep.users \subseteq Credential
      /\ sweep.target \in [Credential -> [in : BOOLEAN, tried : BOOLEAN, observed : {"no", "old", "yes"},
                                          evidence : BOOLEAN]]
  BY <1>1 DEF SweepType, Causes, TargetType
<1> QED BY <1>1, <1>2, <1>3 DEF TypeOK, QuotaType, PollType, RowType

(* Demand.                                                                  *)

\* No step forgets demand that no probe was sent for.
LEMMA DemandStep ==
  ASSUME Types, DemandSurvives, [Next]_vars
  PROVE  DemandSurvives'
<1> USE DEF DemandSurvives
<1>0. history.unserved \subseteq Credential
  BY DEF Types, HistoryType
<1>1. CASE UNCHANGED vars
  BY <1>1 DEF vars
<1>2. CASE \/ \E S \in SUBSET Credential : ProviderResets(S)
           \/ EpochAges({}) \/ EpochAges(Credential)
           \/ \E c \in Credential : HostChanges(c)
           \/ DeadlinePasses \/ RoundStarts
  BY <1>2, QuietEffects
<1>3. ASSUME NEW c \in Credential, NEW h \in BOOLEAN, Use(c, h) PROVE DemandSurvives'
  <2>1. /\ polls'[c].pending /\ \A d \in Credential : d # c => polls'[d] = polls[d]
        /\ history'.unserved = history.unserved \cup {c}
    BY <1>3, UseEffects
  <2> QED BY <2>1, <1>0
<1>4. CASE Start
  <2>1. /\ quotas' \in QuotaType /\ \A c \in history.unserved \cap host : polls'[c] = polls[c]
        /\ Finalized(Accounts(epoch, host), Prepare(Accounts(epoch, host), sweep, host),
                      history.unserved \cap host, Beginning, "ready")
    BY <1>4, StartEffects
  <2>2. history'.unserved = history.unserved \cap host
    BY <2>1, NoteFacts DEF Finalized, Types
  <2> QED BY <2>1, <2>2
<1>5. ASSUME NEW r \in Reading, Answer(r) PROVE DemandSurvives'
  <2>1. /\ \A c \in Credential : polls'[c].pending = polls[c].pending
        /\ \E e, sw : Finalized(e, sw, history.unserved, refresh, "ready")
    BY <1>5, AnswerEffects
  <2>2. history'.unserved = history.unserved
    BY <2>1, NoteFacts DEF Finalized, Types
  <2> QED BY <2>1, <2>2, <1>0
<1>6. CASE Fail \/ Finish
  <2>1. /\ \A c \in Credential : polls'[c].pending = polls[c].pending
        /\ \E then : Finalized(epoch, sweep, history.unserved, refresh, then)
    BY <1>6, EndEffects
  <2>2. history'.unserved = history.unserved
    BY <2>1, NoteFacts DEF Finalized, Types
  <2> QED BY <2>1, <2>2, <1>0
<1>7. CASE Cancel
  <2>1. /\ \A d \in Credential : d # refresh.c => polls'[d] = polls[d]
        /\ polls'[refresh.c].pending = (refresh.had.pending \/ polls[refresh.c].pending)
        /\ history'.unserved = IF refresh.had.pending THEN history.unserved \cup {refresh.c} ELSE history.unserved
    BY <1>7, CancelEffects
  <2>2. ASSUME NEW c \in history'.unserved PROVE polls'[c].pending
    <3>1. CASE c = refresh.c
      <4>1. refresh.had.pending \/ polls[refresh.c].pending
        BY <2>1, <2>2, <3>1
      <4> QED BY <2>1, <3>1, <4>1
    <3>2. CASE c # refresh.c
      <4>1. c \in history.unserved
        BY <2>1, <2>2, <3>2
      <4> QED BY <2>1, <3>2, <4>1, <1>0
    <3> QED BY <3>1, <3>2
  <2> QED BY <2>2
<1>8. CASE Apply
  BY <1>8, ApplyEffects
<1>9. CASE Block
  BY <1>9, BlockEffects
<1>10. CASE Rest
  BY <1>10 DEF Rest
<1>11. ASSUME NEW c \in Credential, Ask(c) PROVE DemandSurvives'
  <2>1. /\ \A d \in Credential : d # c => polls'[d] = polls[d]
        /\ history'.unserved = history.unserved \ {c}
    BY <1>11, AskEffects
  <2> QED BY <2>1, <1>0
<1>12. ASSUME NEW c \in Credential, Admit(c) PROVE DemandSurvives'
  BY <1>12, AdmitEffects
<1>13. ASSUME NEW o \in {"done", "failed", "hard"}, Return(o) PROVE DemandSurvives'
  BY <1>13, ReturnEffects
<1>14. CASE Send
  BY <1>14, SendEffects
<1>15. CASE Record
  <2>1. /\ \A d \in Credential : d # warmup.c => polls'[d] = polls[d]
        /\ IF warmup.outcome = "done"
           THEN history'.unserved = history.unserved \cup {warmup.c} /\ polls'[warmup.c].pending
           ELSE history' = history /\ polls' = polls
    BY <1>15, RecordEffects
  <2>2. CASE warmup.outcome = "done"
    <3>1. history'.unserved = history.unserved \cup {warmup.c} /\ polls'[warmup.c].pending
      BY <2>1, <2>2
    <3> QED BY <2>1, <3>1, <1>0
  <2>3. CASE warmup.outcome # "done"
    BY <2>1, <2>3
  <2> QED BY <2>2, <2>3
<1>16. CASE Next
  BY <1>16, OneStep, <1>2, <1>3, <1>4, <1>5, <1>6, <1>7, <1>8, <1>9, <1>10, <1>11, <1>12, <1>13, <1>14, <1>15
<1> QED BY <1>1, <1>16

(* Activations.                                                             *)

\* What an epoch calls warmed was activated in it; the row that is left suppresses another
\* activation; one under way is of an epoch in which the credential was not activated yet;
\* and none is of an epoch that is still to be applied.
Activated ==
    /\ \A c \in Credential : epoch.account[c].state = "warmed" => epoch.id \in history.warmed[c]
    /\ \A c \in Credential : \A n \in history.warmed[c] : n <= epoch.id
    /\ \A c \in Credential : epoch.id \in history.warmed[c] =>
          rows[c].kind = "hard" \/ (rows[c].kind = "done" /\ rows[c].epoch = epoch.id)
    /\ warmup.at # "none" =>
          /\ warmup.epoch <= epoch.id
          /\ \A n \in history.warmed[warmup.c] : n < warmup.epoch
    /\ warmup.at = "returned" /\ warmup.outcome = "done" /\ warmup.epoch = epoch.id =>
          rows[warmup.c].kind = "done" /\ rows[warmup.c].epoch = epoch.id
    /\ refresh.at = "apply" =>
          /\ \A c \in Credential : epoch.id \notin history.warmed[c]
          /\ warmup.at # "none" => warmup.epoch < epoch.id

\* A step in the same epoch that leaves rows and activations alone.
LEMMA SameEpoch ==
  ASSUME Activated, UNCHANGED <<rows, warmup>>, history'.warmed = history.warmed, epoch'.id = epoch.id,
         \A c \in Credential : epoch'.account[c].state = "warmed" => epoch.account[c].state = "warmed",
         refresh'.at = "apply" => refresh.at = "apply"
  PROVE  Activated'
<1> QED BY DEF Activated

\* A new epoch.
LEMMA NextEpoch ==
  ASSUME Types, Activated, UNCHANGED <<rows, warmup>>, history'.warmed = history.warmed,
         epoch'.id = epoch.id + 1, \A c \in Credential : epoch'.account[c].state # "warmed"
  PROVE  Activated'
<1>1. epoch.id \in Nat /\ warmup.epoch \in Nat /\ \A c \in Credential : history.warmed[c] \subseteq Nat
  BY DEF Types, EpochType, WarmupType, HistoryType
<1>2. \A c \in Credential : \A n \in history.warmed[c] : n \in Nat /\ n <= epoch.id
  BY <1>1 DEF Activated
<1>3. \A c \in Credential : epoch'.id \notin history.warmed[c]
  BY <1>1, <1>2
<1>4. \A c \in Credential : \A n \in history.warmed[c] : n <= epoch'.id
  BY <1>1, <1>2
<1>5. warmup.at # "none" => warmup.epoch < epoch'.id /\ \A n \in history.warmed[warmup.c] : n < warmup.epoch
  BY <1>1 DEF Activated
<1>6. warmup.at # "none" => warmup.epoch <= epoch'.id /\ warmup.epoch # epoch'.id
  BY <1>1, <1>5
<1>7. warmup.at = "returned" => warmup.at # "none"
  OBVIOUS
<1> QED BY <1>3, <1>4, <1>5, <1>6, <1>7 DEF Activated

\* A step of the worker that finalizes a sweep.
LEMMA FinalizedActivated ==
  ASSUME Types, Activated, quotas' \in QuotaType, NEW e, NEW sw, NEW unserved, NEW w, NEW then,
         Finalized(e, sw, unserved, w, then)
  PROVE  Activated'
<1>1. /\ e \in EpochType /\ sw \in SweepType /\ unserved \in SUBSET Credential /\ e.id = epoch.id
      /\ \A c \in Credential : e.account[c].state = "warmed" => epoch.account[c].state = "warmed"
      /\ Finalize(e, sw) /\ Note(unserved, sw) /\ then \in {"ready", "warm"}
      /\ UNCHANGED <<rows, warmup>>
  BY DEF Finalized
<1>2. history'.warmed = history.warmed
  BY <1>1, NoteFacts DEF Types
<1>3. refresh'.at = IF Confirms THEN "apply" ELSE then
  BY FinalizedTypes
<1>4. \/ /\ epoch'.id = e.id
         /\ \A c \in Credential : epoch'.account[c].state = "warmed" => e.account[c].state = "warmed"
      \/ epoch'.id = e.id + 1 /\ \A c \in Credential : epoch'.account[c].state # "warmed"
  BY <1>1, FinalizeFacts
<1>5. CASE /\ epoch'.id = e.id
           /\ \A c \in Credential : epoch'.account[c].state = "warmed" => e.account[c].state = "warmed"
  <2>1. refresh'.at # "apply"
    BY <1>1, <1>3, <1>5 DEF Confirms
  <2> QED BY <1>1, <1>2, <1>5, <2>1, SameEpoch
<1>6. CASE epoch'.id = e.id + 1 /\ \A c \in Credential : epoch'.account[c].state # "warmed"
  BY <1>1, <1>2, <1>6, NextEpoch
<1> QED BY <1>4, <1>5, <1>6

\* No step activates a credential twice in an epoch, or loses the row that prevents it.
LEMMA ActivatedStep ==
  ASSUME Types, Activated, [Next]_vars
  PROVE  Activated'
<1>0. /\ epoch.id \in Nat /\ warmup.epoch \in Nat
      /\ \A c \in Credential : \A n \in history.warmed[c] : n \in Nat
      /\ warmup.at # "none" => warmup.c \in Credential
  BY DEF Types, EpochType, WarmupType, HistoryType
<1>1. CASE UNCHANGED vars
  BY <1>1 DEF vars, Activated
<1>2. CASE \/ \E S \in SUBSET Credential : ProviderResets(S)
           \/ EpochAges({}) \/ EpochAges(Credential)
           \/ \E c \in Credential : HostChanges(c)
           \/ DeadlinePasses \/ RoundStarts
  <2>1. /\ epoch'.id = epoch.id /\ \A d \in Credential : epoch'.account[d].state = epoch.account[d].state
        /\ UNCHANGED <<refresh, rows, warmup, history>>
    BY <1>2, QuietEffects
  <2> QED BY <2>1, SameEpoch
<1>3. ASSUME NEW c \in Credential, NEW h \in BOOLEAN, Use(c, h) PROVE Activated'
  <2>1. /\ epoch'.id = epoch.id /\ refresh'.at = refresh.at /\ history'.warmed = history.warmed
        /\ \A d \in Credential : epoch'.account[d].state = "warmed" => epoch.account[d].state = "warmed"
        /\ UNCHANGED <<rows, warmup>>
    BY <1>3, UseEffects
  <2> QED BY <2>1, SameEpoch
<1>4. CASE Start
  BY <1>4, StartEffects, FinalizedActivated
<1>5. ASSUME NEW r \in Reading, Answer(r) PROVE Activated'
  <2>1. quotas' \in QuotaType /\ \E e, sw : Finalized(e, sw, history.unserved, refresh, "ready")
    BY <1>5, AnswerEffects
  <2> QED BY <2>1, FinalizedActivated
<1>6. CASE Fail \/ Finish
  <2>1. quotas' = quotas /\ \E then : Finalized(epoch, sweep, history.unserved, refresh, then)
    BY <1>6, EndEffects
  <2>2. quotas' \in QuotaType
    BY <2>1 DEF Types
  <2> QED BY <2>1, <2>2, FinalizedActivated
<1>7. CASE Cancel
  <2>1. /\ refresh' = Resting /\ history'.warmed = history.warmed /\ UNCHANGED <<epoch, rows, warmup>>
    BY <1>7, CancelEffects
  <2> QED BY <2>1, Empties, SameEpoch
<1>8. CASE Apply
  <2>1. /\ refresh.at = "apply" /\ refresh'.at # "apply"
        /\ UNCHANGED <<epoch, warmup, history>>
    BY <1>8, ApplyEffects
  <2>2. /\ \A c \in Credential : epoch.id \notin history.warmed[c]
        /\ warmup.at # "none" => warmup.epoch < epoch.id
    BY <2>1 DEF Activated
  <2>3. ~(warmup.at = "returned" /\ warmup.epoch = epoch.id)
    BY <2>2, <1>0
  <2> QED BY <2>1, <2>2, <2>3 DEF Activated
<1>9. CASE Block
  <2>1. /\ epoch'.id = epoch.id /\ refresh'.at # "apply"
        /\ \A d \in Credential : epoch'.account[d].state = "warmed" => epoch.account[d].state = "warmed"
        /\ UNCHANGED <<rows, warmup, history>>
    BY <1>9, BlockEffects
  <2> QED BY <2>1, SameEpoch
<1>10. CASE Rest
  <2>1. refresh' = Resting /\ UNCHANGED <<epoch, rows, warmup, history>>
    BY <1>10 DEF Rest
  <2> QED BY <2>1, Empties, SameEpoch
<1>11. ASSUME NEW c \in Credential, Ask(c) PROVE Activated'
  <2>1. /\ epoch'.id = epoch.id /\ refresh'.at = "asking" /\ history'.warmed = history.warmed
        /\ \A d \in Credential : epoch'.account[d].state = epoch.account[d].state
        /\ UNCHANGED <<rows, warmup>>
    BY <1>11, AskEffects
  <2> QED BY <2>1, SameEpoch
<1>12. ASSUME NEW c \in Credential, Admit(c) PROVE Activated'
  <2>1. /\ refresh' = Resting /\ ~Suppressed(c, epoch.id)
        /\ \A d \in Credential : d # c => rows'[d] = rows[d]
        /\ warmup'.at = "admitted" /\ warmup'.c = c /\ warmup'.epoch = epoch.id
        /\ UNCHANGED <<epoch, history>>
    BY <1>12, AdmitEffects
  <2>2. epoch.id \notin history.warmed[c]
    BY <2>1 DEF Activated, Suppressed
  <2>3. \A n \in history.warmed[c] : n < epoch.id
    <3> TAKE n \in history.warmed[c]
    <3>1. n <= epoch.id /\ n # epoch.id /\ n \in Nat
      BY <2>2, <1>0 DEF Activated
    <3> QED BY <3>1, <1>0
  <2>4. refresh'.at # "apply"
    BY <2>1, Empties
  <2>5. epoch.id <= epoch.id
    BY <1>0
  <2> QED BY <2>1, <2>2, <2>3, <2>4, <2>5 DEF Activated
<1>13. ASSUME NEW o \in {"done", "failed", "hard"}, Return(o) PROVE Activated'
  <2>1. /\ warmup.at = "sent" /\ warmup'.at = "returned" /\ warmup'.c = warmup.c
        /\ warmup'.epoch = warmup.epoch /\ warmup'.outcome = o
        /\ \A d \in Credential : d # warmup.c => rows'[d] = rows[d]
        /\ o = "done" => rows'[warmup.c].kind = "done" /\ rows'[warmup.c].epoch = warmup.epoch
        /\ UNCHANGED <<epoch, refresh, history>>
    BY <1>13, ReturnEffects
  <2>2. /\ warmup.epoch <= epoch.id /\ \A n \in history.warmed[warmup.c] : n < warmup.epoch
        /\ warmup.c \in Credential
    BY <2>1, <1>0 DEF Activated
  <2>3. epoch.id \notin history.warmed[warmup.c]
    <3>1. ASSUME epoch.id \in history.warmed[warmup.c] PROVE FALSE
      <4>1. epoch.id < warmup.epoch
        BY <2>2, <3>1
      <4> QED BY <4>1, <2>2, <1>0
    <3> QED BY <3>1
  <2>4. /\ warmup.at # "none" /\ warmup'.at # "none"
        /\ refresh'.at = "apply" => warmup'.epoch < epoch.id
    BY <2>1 DEF Activated
  <2> QED BY <2>1, <2>2, <2>3, <2>4 DEF Activated
<1>14. CASE Send
  <2>1. /\ warmup.at = "admitted"
        /\ warmup' = NoWarmup \/ (warmup'.at = "sent" /\ warmup'.c = warmup.c /\ warmup'.epoch = warmup.epoch)
        /\ UNCHANGED <<epoch, refresh, rows, history>>
    BY <1>14, SendEffects
  <2> QED BY <2>1, Empties DEF Activated
<1>15. CASE Record
  <2> DEFINE c == warmup.c
  <2>1. /\ c \in Credential /\ warmup.at = "returned" /\ epoch'.id = epoch.id
        /\ \A d \in Credential : epoch'.account[d].state = "warmed" =>
              epoch.account[d].state = "warmed" \/ (d = c /\ warmup.epoch = epoch.id /\ warmup.outcome = "done")
        /\ warmup' = NoWarmup /\ refresh'.at = refresh.at
        /\ IF warmup.outcome = "done"
           THEN history'.warmed = [history.warmed EXCEPT ![c] = @ \cup {warmup.epoch}]
           ELSE history' = history
        /\ UNCHANGED rows
    BY <1>15, RecordEffects
  <2>2. warmup'.at = "none"
    BY <2>1, Empties
  <2>3. CASE warmup.outcome # "done"
    BY <2>1, <2>2, <2>3 DEF Activated
  <2>4. CASE warmup.outcome = "done"
    <3> DEFINE W == history'.warmed
    <3>1. /\ history.warmed \in [Credential -> SUBSET Nat]
          /\ W = [history.warmed EXCEPT ![c] = @ \cup {warmup.epoch}]
      BY <2>1, <2>4 DEF Types, HistoryType
    <3>2. \A d \in Credential : W[d] = IF d = c THEN history.warmed[c] \cup {warmup.epoch} ELSE history.warmed[d]
      BY <3>1
    <3> HIDE DEF W
    <3>3. /\ warmup.epoch <= epoch.id
          /\ warmup.epoch = epoch.id => rows[c].kind = "done" /\ rows[c].epoch = epoch.id
          /\ refresh.at = "apply" => warmup.epoch # epoch.id
      <4>1. warmup.epoch <= epoch.id
        BY <2>1 DEF Activated
      <4>2. warmup.epoch = epoch.id => rows[c].kind = "done" /\ rows[c].epoch = epoch.id
        BY <2>1, <2>4 DEF Activated
      <4>3. refresh.at = "apply" => warmup.epoch < epoch.id
        BY <2>1 DEF Activated
      <4> QED BY <4>1, <4>2, <4>3, <1>0
    <3>4. \A d \in Credential : epoch.account[d].state = "warmed" => epoch.id \in W[d]
      BY <3>2 DEF Activated
    <3>5. \A d \in Credential : epoch'.account[d].state = "warmed" => epoch'.id \in W[d]
      BY <2>1, <3>2, <3>4
    <3>6. \A d \in Credential : \A n \in W[d] : n <= epoch'.id
      BY <2>1, <3>2, <3>3 DEF Activated
    <3>7. \A d \in Credential : epoch.id \in W[d] =>
             rows[d].kind = "hard" \/ (rows[d].kind = "done" /\ rows[d].epoch = epoch.id)
      BY <3>2, <3>3 DEF Activated
    <3>8. refresh.at = "apply" => \A d \in Credential : epoch.id \notin W[d]
      BY <3>2, <3>3 DEF Activated
    <3> QED BY <2>1, <2>2, <3>5, <3>6, <3>7, <3>8 DEF Activated, W
  <2> QED BY <2>3, <2>4
<1>16. CASE Next
  BY <1>16, OneStep, <1>2, <1>3, <1>4, <1>5, <1>6, <1>7, <1>8, <1>9, <1>10, <1>11, <1>12, <1>13, <1>14, <1>15
<1> QED BY <1>1, <1>16

\* At the start nothing was activated.
LEMMA ActivatedInit ==
  ASSUME Init
  PROVE  Activated
<1>1. /\ \A c \in Credential : epoch.account[c] = NoAccount /\ history.warmed[c] = {}
      /\ refresh = Resting /\ warmup = NoWarmup
  BY DEF Init
<1> QED BY <1>1, Empties DEF Activated

(* Evidence.                                                                *)

\* What the worker found known when it began is still known, and a target of the sweep; and
\* the evidence of the sweep was seen.
Witnessed ==
    /\ refresh.at # "idle" => refresh.read \subseteq Known /\ refresh.read \subseteq refresh.inv
    /\ refresh.at # "idle" /\ sweep.active => refresh.read \subseteq Targets(sweep)
    /\ sweep.active => Evidence(sweep) \subseteq history.witnesses

\* A step that leaves inventory and targets alone.
LEMMA SameTargets ==
  ASSUME Witnessed, Known \subseteq Known',
         refresh'.at # "idle" => refresh.at # "idle" /\ refresh'.read = refresh.read /\ refresh'.inv = refresh.inv,
         sweep'.active => /\ sweep.active /\ Targets(sweep') = Targets(sweep)
                          /\ Evidence(sweep') \subseteq Evidence(sweep)
                          /\ history.witnesses \subseteq history'.witnesses
  PROVE  Witnessed'
<1>1. refresh'.at # "idle" => refresh'.read \subseteq Known' /\ refresh'.read \subseteq refresh'.inv
  BY DEF Witnessed
<1>2. refresh'.at # "idle" /\ sweep'.active => refresh'.read \subseteq Targets(sweep')
  BY DEF Witnessed
<1>3. sweep'.active => Evidence(sweep') \subseteq history'.witnesses
  BY DEF Witnessed
<1> QED BY <1>1, <1>2, <1>3 DEF Witnessed

\* A quorum grows with those it is of.
LEMMA QuorumGrows ==
  ASSUME NEW m \in Nat, NEW n \in Nat, m <= n
  PROVE  Quorum(m) <= Quorum(n) /\ Quorum(m) \in Nat /\ Quorum(n) \in Nat
<1>1. Half(m) \in Nat /\ Half(n) \in Nat /\ Half(m) <= Half(n)
  BY DEF Half
<1>2. n > 1 => Half(n) >= 1
  BY DEF Half
<1> QED BY <1>1, <1>2 DEF Quorum

\* Evidence of a quorum of the targets is seen of a quorum of those that were read.
LEMMA QuorumSeen ==
  ASSUME Types, NEW sw \in SweepType, NEW R, R \subseteq Targets(sw) \/ R = {},
         Evidence(sw) \subseteq Witnesses, Cardinality(Evidence(sw)) >= Required(sw)
  PROVE  Cardinality(Witnesses) >= Quorum(Cardinality(R))
<1>1. Witnesses \subseteq Credential
  BY DEF Types, HistoryType, Witnesses, NewCycles
<1>2. Targets(sw) \subseteq Credential
  BY DEF Targets
<1>3. R \subseteq Targets(sw)
  OBVIOUS
<1>4. /\ Cardinality(Witnesses) \in Nat /\ Cardinality(Evidence(sw)) \in Nat
      /\ Cardinality(Targets(sw)) \in Nat /\ Cardinality(R) \in Nat
      /\ IsFiniteSet(Witnesses) /\ IsFiniteSet(Targets(sw))
  BY <1>1, <1>2, <1>3, Finite
<1>5. Cardinality(Evidence(sw)) <= Cardinality(Witnesses) /\ Cardinality(R) <= Cardinality(Targets(sw))
  BY <1>3, <1>4, FS_Subset
<1>6. /\ Quorum(Cardinality(R)) <= Required(sw)
      /\ Quorum(Cardinality(R)) \in Nat /\ Required(sw) \in Nat
  BY <1>4, <1>5, QuorumGrows DEF Required
<1> QED BY <1>4, <1>5, <1>6

\* A step of the worker that finalizes a sweep whose targets include what it read, and whose
\* evidence was seen.
LEMMA FinalizedWitnessed ==
  ASSUME Types, quotas' \in QuotaType, NEW e, NEW sw, NEW unserved, NEW w, NEW then,
         Finalized(e, sw, unserved, w, then),
         w.read \subseteq Known' /\ w.read \subseteq w.inv,
         sw.active => w.read \subseteq Targets(sw) \/ w.read = {},
         sw.active => Evidence(sw) \subseteq Witnesses
  PROVE  Witnessed' /\ (ResetConfirmed => Cardinality(Witnesses) >= Quorum(Cardinality(refresh'.read)))
<1>1. /\ e \in EpochType /\ sw \in SweepType /\ unserved \in SUBSET Credential /\ e.id = epoch.id
      /\ Finalize(e, sw) /\ Note(unserved, sw)
  BY DEF Finalized
<1>2. refresh'.read = w.read /\ refresh'.inv = w.inv
  BY FinalizedTypes
<1>3. /\ \/ epoch'.id = e.id
         \/ ~sweep'.active
      /\ sweep'.active => sw.active /\ Targets(sweep') = Targets(sw) /\ Evidence(sweep') = Evidence(sw)
      /\ epoch'.id # e.id /\ epoch'.reason = "reset" =>
            sw.active /\ Cardinality(Evidence(sw)) >= Required(sw)
  BY <1>1, FinalizeFacts
<1>4. history'.witnesses = IF Confirms THEN Witnesses \ Evidence(sw) ELSE Witnesses
  BY <1>1, NoteFacts DEF Types
<1>5. sweep'.active => ~Confirms
  BY <1>1, <1>3 DEF Confirms
<1>6. Witnessed'
  <2>1. sweep'.active => Evidence(sweep') \subseteq history'.witnesses
    BY <1>3, <1>4, <1>5
  <2>2. sweep'.active => refresh'.read \subseteq Targets(sweep')
    BY <1>2, <1>3
  <2>3. refresh'.read \subseteq Known' /\ refresh'.read \subseteq refresh'.inv
    BY <1>2
  <2> QED BY <2>1, <2>2, <2>3 DEF Witnessed
<1>7. ASSUME ResetConfirmed PROVE Cardinality(Witnesses) >= Quorum(Cardinality(refresh'.read))
  <2>1. sw.active /\ Cardinality(Evidence(sw)) >= Required(sw)
    BY <1>1, <1>3, <1>7 DEF ResetConfirmed, Confirms
  <2>2. refresh'.read \subseteq Targets(sw) \/ refresh'.read = {}
    BY <2>1, <1>2
  <2>3. Evidence(sw) \subseteq Witnesses
    BY <2>1
  <2> QED BY <1>1, <2>1, <2>2, <2>3, QuorumSeen
<1> QED BY <1>6, <1>7

\* No step loses sight of what the worker read, or takes evidence that was not seen; and a
\* reset is confirmed by a quorum only.
LEMMA WitnessedStep ==
  ASSUME Types, Witnessed, [Next]_vars
  PROVE  Witnessed' /\ (ResetConfirmed => Cardinality(Witnesses) >= Quorum(Cardinality(refresh'.read)))
<1> DEFINE Good == Witnessed' /\ (ResetConfirmed => Cardinality(Witnesses) >= Quorum(Cardinality(refresh'.read)))
<1>0. /\ epoch \in EpochType /\ sweep \in SweepType /\ refresh \in RefreshType /\ host \in SUBSET Credential
      /\ quotas \in QuotaType
  BY DEF Types
<1> SUFFICES Good
  OBVIOUS
<1>q. ASSUME Witnessed', epoch'.id = epoch.id PROVE Good
  BY <1>q DEF ResetConfirmed, Confirms
<1> HIDE DEF Good
<1>1. CASE UNCHANGED vars
  <2>1. Witnessed'
    BY <1>1 DEF vars, Witnessed, Known
  <2> QED BY <1>1, <2>1, <1>q DEF vars
<1>2. CASE \/ \E S \in SUBSET Credential : ProviderResets(S)
           \/ EpochAges({}) \/ EpochAges(Credential)
           \/ \E c \in Credential : HostChanges(c)
           \/ DeadlinePasses \/ RoundStarts
  <2>1. /\ epoch'.id = epoch.id /\ sweep'.active = sweep.active
        /\ Targets(sweep') = Targets(sweep) /\ Evidence(sweep') = Evidence(sweep)
        /\ UNCHANGED <<quotas, refresh, history>>
    BY <1>2, QuietEffects
  <2>2. Known' = Known
    BY <2>1 DEF Known
  <2>3. Witnessed'
    BY <2>1, <2>2, SameTargets
  <2> QED BY <2>1, <2>3, <1>q
<1>3. ASSUME NEW c \in Credential, NEW h \in BOOLEAN, Use(c, h) PROVE Good
  <2>1. /\ epoch'.id = epoch.id /\ Known' = Known
        /\ refresh'.at = refresh.at /\ refresh'.read = refresh.read /\ refresh'.inv = refresh.inv
        /\ history'.witnesses = Witnesses
        /\ sweep'.active => (sweep.active /\ Targets(sweep') = Targets(sweep)) \/ Targets(sweep') = Known
        /\ sweep'.active => Evidence(sweep') \subseteq (IF sweep.active THEN Evidence(sweep) ELSE {}) \cup NewCycles
    BY <1>3, UseEffects
  <2>2. refresh'.at # "idle" => refresh'.read \subseteq Known' /\ refresh'.read \subseteq refresh'.inv
    BY <2>1 DEF Witnessed
  <2>3. refresh'.at # "idle" /\ sweep'.active => refresh'.read \subseteq Targets(sweep')
    BY <2>1 DEF Witnessed
  <2>4. sweep'.active => Evidence(sweep') \subseteq history'.witnesses
    BY <2>1 DEF Witnessed, Witnesses
  <2>5. Witnessed'
    BY <2>2, <2>3, <2>4 DEF Witnessed
  <2> QED BY <2>1, <2>5, <1>q
<1>4. CASE Start
  <2> DEFINE e == Accounts(epoch, host)
             sw == Prepare(e, sweep, host)
  <2>1. /\ quotas' \in QuotaType /\ Finalized(e, sw, history.unserved \cap host, Beginning, "ready")
        /\ Beginning.inv = host /\ Beginning.read = Known' /\ Known' \subseteq host
    BY <1>4, StartEffects
  <2>2. e \in EpochType
    BY <1>0, AccountsFacts
  <2> HIDE DEF e
  <2>3. /\ sw.active /\ host # {} => Targets(sw) = host
        /\ sweep.active => Evidence(sw) \subseteq Evidence(sweep)
        /\ ~sweep.active /\ sw.active => Evidence(sw) = {}
    BY <1>0, <2>2, PrepareFacts
  <2> HIDE DEF sw
  <2>4. sw.active => Evidence(sw) \subseteq Witnesses
    BY <2>3 DEF Witnessed, Witnesses
  <2>5. sw.active => Beginning.read \subseteq Targets(sw) \/ Beginning.read = {}
    BY <2>1, <2>3
  <2>6. Beginning.read \subseteq Known' /\ Beginning.read \subseteq Beginning.inv
    BY <2>1
  <2> QED BY <2>1, <2>4, <2>5, <2>6, FinalizedWitnessed DEF Good
<1>5. ASSUME NEW r \in Reading, Answer(r) PROVE Good
  <2>1. /\ quotas' \in QuotaType /\ Known \subseteq Known' /\ refresh.at = "asking"
        /\ \E e, sw :
              /\ Finalized(e, sw, history.unserved, refresh, "ready")
              /\ sw.active => (sweep.active /\ Targets(sw) = Targets(sweep)) \/ Targets(sw) = refresh.inv
              /\ sw.active => Evidence(sw) \subseteq (IF sweep.active THEN Evidence(sweep) ELSE {}) \cup NewCycles
    BY <1>5, AnswerEffects
  <2>2. PICK e, sw :
              /\ Finalized(e, sw, history.unserved, refresh, "ready")
              /\ sw.active => (sweep.active /\ Targets(sw) = Targets(sweep)) \/ Targets(sw) = refresh.inv
              /\ sw.active => Evidence(sw) \subseteq (IF sweep.active THEN Evidence(sweep) ELSE {}) \cup NewCycles
    BY <2>1
  <2>3. refresh.read \subseteq Known' /\ refresh.read \subseteq refresh.inv
    BY <2>1 DEF Witnessed
  <2>4. sw.active => refresh.read \subseteq Targets(sw) \/ refresh.read = {}
    BY <2>1, <2>2 DEF Witnessed
  <2>5. sw.active => Evidence(sw) \subseteq Witnesses
    BY <2>2 DEF Witnessed, Witnesses
  <2> QED BY <2>1, <2>2, <2>3, <2>4, <2>5, FinalizedWitnessed DEF Good
<1>6. CASE Fail \/ Finish
  <2>1. /\ quotas' = quotas /\ refresh.at # "idle"
        /\ \E then : Finalized(epoch, sweep, history.unserved, refresh, then)
    BY <1>6, EndEffects
  <2>2. PICK then : Finalized(epoch, sweep, history.unserved, refresh, then)
    BY <2>1
  <2>3. quotas' \in QuotaType /\ Known' = Known
    BY <2>1, <1>0 DEF Known
  <2>4. refresh.read \subseteq Known' /\ refresh.read \subseteq refresh.inv
    BY <2>1, <2>3 DEF Witnessed
  <2>5. sweep.active => refresh.read \subseteq Targets(sweep) \/ refresh.read = {}
    BY <2>1 DEF Witnessed
  <2>6. sweep.active => Evidence(sweep) \subseteq Witnesses
    BY DEF Witnessed, Witnesses
  <2> QED BY <2>2, <2>3, <2>4, <2>5, <2>6, FinalizedWitnessed DEF Good
<1>7. CASE Cancel
  <2>1. /\ refresh' = Resting /\ history'.witnesses = history.witnesses
        /\ UNCHANGED <<quotas, epoch, sweep>>
    BY <1>7, CancelEffects
  <2>2. Known' = Known
    BY <2>1 DEF Known
  <2>3. Witnessed'
    BY <2>1, <2>2, Empties, SameTargets
  <2> QED BY <2>1, <2>3, <1>q
<1>8. CASE Apply
  <2>1. /\ refresh.at = "apply" /\ refresh'.read = refresh.read /\ refresh'.inv = refresh.inv
        /\ UNCHANGED <<quotas, epoch, sweep, history>>
    BY <1>8, ApplyEffects
  <2>2. Known' = Known
    BY <2>1 DEF Known
  <2>3. Witnessed'
    BY <2>1, <2>2, SameTargets
  <2> QED BY <2>1, <2>3, <1>q
<1>9. CASE Block
  <2>1. /\ refresh.at = "block" /\ refresh'.read = refresh.read /\ refresh'.inv = refresh.inv
        /\ epoch'.id = epoch.id /\ UNCHANGED <<quotas, sweep, history>>
    BY <1>9, BlockEffects
  <2>2. Known' = Known
    BY <2>1 DEF Known
  <2>3. Witnessed'
    BY <2>1, <2>2, SameTargets
  <2> QED BY <2>1, <2>3, <1>q
<1>10. CASE Rest
  <2>1. refresh' = Resting /\ UNCHANGED <<quotas, epoch, sweep, history>>
    BY <1>10 DEF Rest
  <2>2. Known' = Known
    BY <2>1 DEF Known
  <2>3. Witnessed'
    BY <2>1, <2>2, Empties, SameTargets
  <2> QED BY <2>1, <2>3, <1>q
<1>11. ASSUME NEW c \in Credential, Ask(c) PROVE Good
  <2>1. /\ epoch'.id = epoch.id /\ sweep'.active = sweep.active /\ Targets(sweep') = Targets(sweep)
        /\ Evidence(sweep') \subseteq Evidence(sweep) /\ refresh.at = "ready"
        /\ refresh'.read = refresh.read /\ refresh'.inv = refresh.inv
        /\ history'.witnesses = history.witnesses /\ quotas' = quotas
    BY <1>11, AskEffects
  <2>2. Known' = Known
    BY <2>1 DEF Known
  <2>3. Witnessed'
    BY <2>1, <2>2, SameTargets
  <2> QED BY <2>1, <2>3, <1>q
<1>12. ASSUME NEW c \in Credential, Admit(c) PROVE Good
  <2>1. refresh' = Resting /\ UNCHANGED <<quotas, epoch, sweep, history>>
    BY <1>12, AdmitEffects
  <2>2. Known' = Known
    BY <2>1 DEF Known
  <2>3. Witnessed'
    BY <2>1, <2>2, Empties, SameTargets
  <2> QED BY <2>1, <2>3, <1>q
<1>13. ASSUME NEW o \in {"done", "failed", "hard"}, Return(o) PROVE Good
  <2>1. UNCHANGED <<quotas, epoch, sweep, refresh, history>>
    BY <1>13, ReturnEffects
  <2>2. Known' = Known
    BY <2>1 DEF Known
  <2>3. Witnessed'
    BY <2>1, <2>2, SameTargets
  <2> QED BY <2>1, <2>3, <1>q
<1>14. CASE Send
  <2>1. UNCHANGED <<quotas, epoch, sweep, refresh, history>>
    BY <1>14, SendEffects
  <2>2. Known' = Known
    BY <2>1 DEF Known
  <2>3. Witnessed'
    BY <2>1, <2>2, SameTargets
  <2> QED BY <2>1, <2>3, <1>q
<1>15. CASE Record
  <2>1. /\ epoch'.id = epoch.id /\ refresh'.at = refresh.at /\ refresh'.read = refresh.read
        /\ refresh'.inv = refresh.inv /\ history'.witnesses = history.witnesses
        /\ UNCHANGED <<quotas, sweep>>
    BY <1>15, RecordEffects
  <2>2. Known' = Known
    BY <2>1 DEF Known
  <2>3. Witnessed'
    BY <2>1, <2>2, SameTargets
  <2> QED BY <2>1, <2>3, <1>q
<1>16. CASE Next
  BY <1>16, OneStep, <1>2, <1>3, <1>4, <1>5, <1>6, <1>7, <1>8, <1>9, <1>10, <1>11, <1>12, <1>13, <1>14, <1>15
<1> QED BY <1>1, <1>16

\* At the start there is no sweep.
LEMMA WitnessedInit ==
  ASSUME Init
  PROVE  Witnessed
<1>1. refresh = Resting /\ sweep = NoSweep
  BY DEF Init
<1> QED BY <1>1, Empties DEF Witnessed

(* The invariant and what follows from it.                                  *)

Inv == Types /\ DemandSurvives /\ Activated /\ Witnessed

\* The invariant holds throughout.
THEOREM InvHolds == Spec => []Inv
<1>1. Init => Inv
  <2>1. Init => DemandSurvives
    BY DEF Init, DemandSurvives
  <2> QED BY <2>1, TypesInit, ActivatedInit, WitnessedInit DEF Inv
<1>2. Inv /\ [Next]_vars => Inv'
  BY TypesStep, DemandStep, ActivatedStep, WitnessedStep DEF Inv
<1> QED BY <1>1, <1>2, PTL DEF Spec

\* Every variable keeps its shape, whatever the size of the pool and the batch; in particular
\* no account gets more than one probe over its limit (quotaEpochProbeReasonLocked).
THEOREM TypeCorrect == Spec => []TypeOK
<1>1. Inv => TypeOK
  BY TypesImply DEF Inv
<1> QED BY <1>1, InvHolds, PTL

\* Demand that a usage event raised is not lost to a probe that is answered, fails, or is
\* cancelled while the event comes (refreshOnce).
THEOREM DemandIsKept == Spec => []DemandSurvives
<1>1. Inv => DemandSurvives
  BY DEF Inv
<1> QED BY <1>1, InvHolds, PTL

\* A credential is activated successfully at most once in an epoch, in spite of outcomes that
\* come after the epoch has changed (recordQuotaEpochWarmupOutcome).
THEOREM ActivatedOnce == Spec => []OneActivationPerEpoch
<1>1. Inv => OneActivationPerEpoch
  <2>1. ASSUME Inv PROVE OneActivationPerEpoch
    <3>1. Types /\ Activated
      BY <2>1 DEF Inv
    <3>2. warmup.at = "sent" => /\ warmup.c \in Credential /\ warmup.epoch \in Nat
                                /\ history.warmed[warmup.c] \subseteq Nat
                                /\ \A n \in history.warmed[warmup.c] : n < warmup.epoch
      BY <3>1 DEF Types, Activated, WarmupType, HistoryType
    <3>3. warmup.at = "sent" => warmup.epoch \notin history.warmed[warmup.c]
      BY <3>2
    <3> QED BY <3>1, <3>3 DEF OneActivationPerEpoch, Activated
  <2> QED BY <2>1
<1> QED BY <1>1, InvHolds, PTL

\* A new epoch is taken for a reset only if a quorum of the credentials with a reading was
\* seen to pass into a new cycle (finalizeQuotaEpochSweepLocked).
THEOREM QuorumConfirms == Spec => ConfirmedByQuorum
<1> DEFINE Q == ResetConfirmed => Cardinality(Witnesses) >= Quorum(Cardinality(refresh'.read))
<1>1. ASSUME Inv, [Next]_vars PROVE Q
  BY <1>1, WitnessedStep DEF Inv
<1> HIDE DEF Q
<1>2. Inv /\ [Next]_vars => [Q]_vars
  BY <1>1
<1>3. [][Q]_vars => ConfirmedByQuorum
  BY PTL DEF ConfirmedByQuorum, Q
<1> QED BY <1>2, <1>3, InvHolds, PTL DEF Spec
=============================================================================
