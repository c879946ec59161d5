----------------------- MODULE ContinuityPacing_proofs -----------------------
(***************************************************************************)
(* Proofs about ContinuityPacing for any executions, credentials, pools    *)
(* and intervals: permits lie apart, used ones are owned, none is granted  *)
(* too soon after a use, and nobody who comes back in time is postponed.   *)
(*                                                                         *)
(* First the earliest time the gate may promise, then what one assessment  *)
(* does to a table of permits, then the steps.                             *)
(***************************************************************************)
EXTENDS ContinuityPacing, TLAPS, FiniteSetTheorems, WellFoundedInduction

(* Greatest and least numbers.                                              *)

SmallerThan == {p \in Nat \X Nat : p[1] < p[2]}

\* Numbers have no infinite descent.
LEMMA SmallerIsWellFounded == IsWellFoundedOn(SmallerThan, Nat)
<1>1. OpToRel(<, Nat) = SmallerThan
  BY Zenon DEF OpToRel, SmallerThan
<1> QED BY <1>1, NatLessThanWellFounded

\* A set of natural numbers with a member has a least one.
LEMMA LeastExists ==
  ASSUME NEW S, S \subseteq Nat, S # {}
  PROVE  \E m \in S : \A n \in S : m <= n
<1>1. PICK m \in S : \A n \in S : <<n, m>> \notin SmallerThan
  BY SmallerIsWellFounded, WFMin
<1>2. ASSUME NEW n \in S PROVE m <= n
  <2> DEFINE p == <<n, m>>
  <2>1. p \in Nat \X Nat /\ p[1] = n /\ p[2] = m
    BY Zenon
  <2> HIDE DEF p
  <2>2. ~(p[1] < p[2])
    BY <1>1, <2>1 DEF p, SmallerThan
  <2>3. n \in Nat /\ m \in Nat
    OBVIOUS
  <2> QED BY <2>1, <2>2, <2>3
<1> QED BY <1>2

\* Max of a bounded set is its greatest member.
LEMMA MaxFacts ==
  ASSUME NEW S, S \subseteq Int, S # {}, NEW u \in Int, \A x \in S : x <= u
  PROVE  Max(S) \in S /\ \A x \in S : x <= Max(S)
<1> DEFINE D == {u - x : x \in S}
<1>1. D \subseteq Nat /\ D # {}
  <2>1. \A x \in S : u - x \in Nat
    OBVIOUS
  <2> QED BY <2>1
<1>2. PICK m \in D : \A n \in D : m <= n
  <2> HIDE DEF D
  <2> QED BY <1>1, LeastExists
<1>3. PICK y \in S : m = u - y
  OBVIOUS
<1>4. ASSUME NEW x \in S PROVE y >= x
  <2>1. u - x \in D
    OBVIOUS
  <2>2. u - y <= u - x
    BY <1>2, <1>3, <2>1
  <2> QED BY <2>2
<1>5. \A x \in S : Max(S) >= x /\ Max(S) \in S
  BY <1>4 DEF Max
<1> QED BY <1>5

\* Min of a set of natural numbers is its least member.
LEMMA MinFacts ==
  ASSUME NEW S, S \subseteq Nat, S # {}
  PROVE  Min(S) \in S /\ \A x \in S : Min(S) <= x
  BY LeastExists DEF Min

\* Max and Min of two numbers.
LEMMA PairFacts ==
  ASSUME NEW a \in Int, NEW b \in Int
  PROVE  /\ Max({a, b}) = IF a >= b THEN a ELSE b
         /\ Min({a, b}) = IF a <= b THEN a ELSE b
<1>1. Max({a, b}) = IF a >= b THEN a ELSE b
  <2> DEFINE m == IF a >= b THEN a ELSE b
  <2>1. \A x \in {a, b} : (\A y \in {a, b} : x >= y) <=> x = m
    OBVIOUS
  <2>2. m \in {a, b}
    OBVIOUS
  <2> HIDE DEF m
  <2>3. Max({a, b}) = m
    BY <2>1, <2>2 DEF Max
  <2> QED BY <2>3 DEF m
<1>2. Min({a, b}) = IF a <= b THEN a ELSE b
  <2> DEFINE m == IF a <= b THEN a ELSE b
  <2>1. \A x \in {a, b} : (\A y \in {a, b} : x <= y) <=> x = m
    OBVIOUS
  <2>2. m \in {a, b}
    OBVIOUS
  <2> HIDE DEF m
  <2>3. Min({a, b}) = m
    BY <2>1, <2>2 DEF Min
  <2> QED BY <2>3 DEF m
<1> QED BY <1>1, <1>2

\* The numbers of the gate.
LEMMA Numbers ==
  /\ MaxWait \in Nat /\ MaxSkew \in Nat /\ Jitter \in Nat /\ MaxReservations \in Nat
  /\ Intervals \subseteq Nat /\ \A n \in Intervals : 1 <= n /\ n <= MaxWait
  /\ Max(Intervals) \in Intervals /\ Min(Intervals) \in Intervals
  /\ Old \in Nat /\ Overdue \in Int /\ Overdue = -(MaxWait + MaxSkew + 1)
  /\ NoDeadline = MaxWait + 1
<1>1. /\ MaxWait \in Nat /\ MaxSkew \in Nat /\ Jitter \in Nat /\ MaxReservations \in Nat
      /\ Intervals \subseteq 1..MaxWait /\ Intervals # {}
  BY PacingAssumption
<1>2. Intervals \subseteq Nat /\ \A n \in Intervals : 1 <= n /\ n <= MaxWait
  BY <1>1
<1>3. Intervals \subseteq Int /\ MaxWait \in Int
  BY <1>1, <1>2
<1>4. Max(Intervals) \in Intervals /\ Min(Intervals) \in Intervals
  BY <1>1, <1>2, <1>3, MaxFacts, MinFacts
<1>5. Max(Intervals) \in Nat
  BY <1>2, <1>4
<1>6. Old \in Nat
  BY <1>1, <1>5 DEF Old
<1>7. Overdue \in Int /\ Overdue = -(MaxWait + MaxSkew + 1) /\ NoDeadline = MaxWait + 1
  BY <1>1 DEF Overdue, NoDeadline
<1> QED BY <1>1, <1>2, <1>4, <1>6, <1>7
-----------------------------------------------------------------------------
(* The earliest time to promise.                                            *)

Scopes == UNION {[C -> Cycles] : C \in SUBSET Credential}

\* The parts of a permit.
LEMMA PermitFacts ==
  ASSUME NEW p \in Permit
  PROVE  /\ p.left \in Int /\ Overdue <= p.left /\ p.left <= MaxWait
         /\ p.interval \in Intervals /\ p.interval \in Nat /\ p.scope \in Scopes
         /\ p.dispatched \in BOOLEAN
<1>1. p.left \in Overdue..MaxWait /\ p.interval \in Intervals /\ p.scope \in Scopes
      /\ p.dispatched \in BOOLEAN
  BY DEF Permit, Scopes
<1>2. Overdue \in Int /\ MaxWait \in Int /\ Intervals \subseteq Nat
  BY Numbers
<1>3. p.left \in Int /\ Overdue <= p.left /\ p.left <= MaxWait
  BY <1>1, <1>2
<1> QED BY <1>1, <1>2, <1>3

\* The time the gate promises is not past, an interval after every use, and an interval
\* after every permit that waits for a common credential.
LEMMA EarliestFacts ==
  ASSUME NEW f, \A q \in DOMAIN f : f[q] \in Permit, NEW ages \in [Credential -> 0..Old],
         NEW scope \in Scopes, NEW interval \in Intervals, NEW d \in 0..MaxSkew
  PROVE  LET at == Earliest(f, ages, scope, interval, d)
         IN  /\ at \in Int /\ at >= -d
             /\ \A c \in DOMAIN scope : at >= interval - ages[c]
             /\ \A q \in Waiting(f) : Overlap(f[q].scope, scope) =>
                    at >= f[q].left + Max({interval, f[q].interval})
<1> DEFINE A == {interval - ages[c] : c \in DOMAIN scope}
           Q == {p \in Waiting(f) : Overlap(f[p].scope, scope)}
           B == {f[q].left + Max({interval, f[q].interval}) : q \in Q}
           S == {-d} \cup A \cup B
           u == MaxWait + MaxWait
<1>1. interval \in Nat /\ interval <= MaxWait /\ d \in Nat /\ MaxWait \in Nat /\ u \in Int
  BY Numbers
<1>2. \A x \in A : x \in Int /\ x <= u
  <2>1. DOMAIN scope \subseteq Credential
    BY DEF Scopes
  <2>2. \A c \in DOMAIN scope : ages[c] \in Nat
    BY <2>1, Numbers
  <2> QED BY <1>1, <2>2
<1>3. \A x \in B : x \in Int /\ x <= u
  <2> SUFFICES ASSUME NEW q \in Q
               PROVE  /\ f[q].left + Max({interval, f[q].interval}) \in Int
                      /\ f[q].left + Max({interval, f[q].interval}) <= u
    OBVIOUS
  <2>1. f[q] \in Permit
    BY DEF Waiting
  <2>2. f[q].left \in Int /\ f[q].left <= MaxWait /\ f[q].interval \in Nat
        /\ f[q].interval <= MaxWait
    BY <2>1, PermitFacts, Numbers
  <2>3. Max({interval, f[q].interval}) \in Nat /\ Max({interval, f[q].interval}) <= MaxWait
    BY <1>1, <2>2, PairFacts
  <2> HIDE DEF Q
  <2> QED BY <1>1, <2>2, <2>3
<1> HIDE DEF A, B
<1>4. S \subseteq Int /\ S # {} /\ \A x \in S : x <= u
  BY <1>1, <1>2, <1>3
<1> HIDE DEF u
<1>5. Max(S) \in S /\ \A x \in S : x <= Max(S)
  <2> HIDE DEF S
  <2> QED BY <1>1, <1>4, MaxFacts
<1>6. Earliest(f, ages, scope, interval, d) = Max(S)
  BY DEF Earliest, A, B
<1>7. Max(S) \in Int
  BY <1>4, <1>5
<1> DEFINE at == Max(S)
<1> HIDE DEF at
<1>8. at \in Int /\ -d \in Int /\ at >= -d
  BY <1>1, <1>5, <1>7 DEF at
<1>9. \A c \in DOMAIN scope : at >= interval - ages[c]
  <2> TAKE c \in DOMAIN scope
  <2>1. interval - ages[c] \in A
    BY DEF A
  <2> QED BY <1>2, <1>5, <1>8, <2>1 DEF at
<1>10. \A q \in Waiting(f) : Overlap(f[q].scope, scope) =>
                    at >= f[q].left + Max({interval, f[q].interval})
  <2> SUFFICES ASSUME NEW q \in Q
               PROVE  at >= f[q].left + Max({interval, f[q].interval})
    OBVIOUS
  <2>1. f[q].left + Max({interval, f[q].interval}) \in B
    BY DEF B
  <2> QED BY <1>3, <1>5, <1>8, <2>1 DEF at
<1> QED BY <1>6, <1>8, <1>9, <1>10 DEF at
-----------------------------------------------------------------------------
(* Tables of permits.                                                       *)

Table(f) ==
    /\ DOMAIN f \subseteq Request /\ Cardinality(DOMAIN f) <= MaxReservations
    /\ \A r \in DOMAIN f : f[r] \in Permit

\* The waiting permits of a table lie apart.
Spaced(f) ==
    \A r, q \in {p \in Waiting(f) : f[p].left > Overdue} :
        r # q /\ Overlap(f[r].scope, f[q].scope)
            => Abs(f[r].left - f[q].left) >= Max({f[r].interval, f[q].interval})

\* g is f without some permits.
Part(g, f) == DOMAIN g \subseteq DOMAIN f /\ \A r \in DOMAIN g : g[r] = f[r]

\* Leaving permits out does that.
LEMMA WithoutFacts ==
  ASSUME NEW f, NEW S
  PROVE  /\ DOMAIN Without(f, S) = DOMAIN f \ S
         /\ \A r \in DOMAIN f \ S : Without(f, S)[r] = f[r]
         /\ Part(Without(f, S), f)
  BY DEF Without, Part

\* What is left of a table of permits that lie apart is one.
LEMMA PartKept ==
  ASSUME NEW f, NEW g, Table(f), Spaced(f), Part(g, f)
  PROVE  Table(g) /\ Spaced(g)
<1>1. Cardinality(DOMAIN g) <= MaxReservations
  <2>1. IsFiniteSet(DOMAIN f)
    BY PacingAssumption, FS_Subset DEF Table
  <2>2. IsFiniteSet(DOMAIN g) /\ Cardinality(DOMAIN g) <= Cardinality(DOMAIN f)
    BY <2>1, FS_Subset DEF Part
  <2>3. Cardinality(DOMAIN f) \in Nat /\ Cardinality(DOMAIN g) \in Nat
    BY <2>1, <2>2, FS_CardinalityType
  <2> QED BY <2>2, <2>3, Numbers DEF Table
<1>2. Table(g)
  BY <1>1 DEF Table, Part
<1>3. Spaced(g)
  BY DEF Spaced, Part, Waiting
<1> QED BY <1>2, <1>3

\* A table with one more permit, apart from those that wait for a common credential, is
\* still one whose permits lie apart.
LEMMA AddedKept ==
  ASSUME NEW f, Table(f), Spaced(f), Cardinality(DOMAIN f) < MaxReservations,
         NEW r \in Request \ DOMAIN f, NEW p \in Permit,
         \A q \in Waiting(f) : Overlap(f[q].scope, p.scope) =>
             p.left >= f[q].left + Max({p.interval, f[q].interval}),
         NEW g, g = [q \in DOMAIN f \cup {r} |-> IF q = r THEN p ELSE f[q]]
  PROVE  Table(g) /\ Spaced(g)
<1>1. DOMAIN g = DOMAIN f \cup {r} /\ g[r] = p /\ \A q \in DOMAIN f : g[q] = f[q]
  OBVIOUS
<1>2. Table(g)
  <2>1. IsFiniteSet(DOMAIN f)
    BY PacingAssumption, FS_Subset DEF Table
  <2>2. Cardinality(DOMAIN g) = Cardinality(DOMAIN f) + 1
    BY <1>1, <2>1, FS_AddElement
  <2>3. Cardinality(DOMAIN f) \in Nat
    BY <2>1, FS_CardinalityType
  <2>4. Cardinality(DOMAIN g) <= MaxReservations
    BY <2>2, <2>3, Numbers
  <2> QED BY <1>1, <2>4 DEF Table
<1>3. ASSUME NEW q \in Waiting(f), Overlap(f[q].scope, p.scope) \/ Overlap(p.scope, f[q].scope)
      PROVE  /\ Abs(p.left - f[q].left) >= Max({p.interval, f[q].interval})
             /\ Abs(f[q].left - p.left) >= Max({f[q].interval, p.interval})
  <2>1. Overlap(f[q].scope, p.scope)
    BY <1>3 DEF Overlap
  <2>2. f[q] \in Permit
    BY DEF Table, Waiting
  <2>3. /\ p.left \in Int /\ p.interval \in Nat /\ f[q].left \in Int /\ f[q].interval \in Nat
    BY <2>2, PermitFacts
  <2> DEFINE a == p.left
             b == f[q].left
             m == Max({p.interval, f[q].interval})
  <2>4. m \in Nat /\ m = Max({f[q].interval, p.interval})
    BY <2>3, PairFacts
  <2>5. a \in Int /\ b \in Int /\ a >= b + m
    BY <2>1, <2>3
  <2> HIDE DEF a, b, m
  <2>6. Abs(a - b) >= m /\ Abs(b - a) >= m
    BY <2>4, <2>5 DEF Abs
  <2>7. m = Max({p.interval, f[q].interval})
    BY DEF m
  <2> QED BY <2>4, <2>6, <2>7 DEF a, b
<1>4. ASSUME NEW a \in Waiting(g), NEW b \in Waiting(g), a # b, Overlap(g[a].scope, g[b].scope),
             g[a].left > Overdue, g[b].left > Overdue
      PROVE  Abs(g[a].left - g[b].left) >= Max({g[a].interval, g[b].interval})
  <2>1. CASE a = r
    <3>1. b \in Waiting(f) /\ g[b] = f[b]
      BY <1>1, <1>4, <2>1 DEF Waiting
    <3> QED BY <1>1, <1>3, <1>4, <2>1, <3>1
  <2>2. CASE b = r
    <3>1. a \in Waiting(f) /\ g[a] = f[a]
      BY <1>1, <1>4, <2>2 DEF Waiting
    <3> QED BY <1>1, <1>3, <1>4, <2>2, <3>1
  <2>3. CASE a # r /\ b # r
    <3>1. a \in Waiting(f) /\ g[a] = f[a] /\ b \in Waiting(f) /\ g[b] = f[b]
      BY <1>1, <2>3 DEF Waiting
    <3> QED BY <1>4, <3>1 DEF Spaced
  <2> QED BY <2>1, <2>2, <2>3
<1> QED BY <1>2, <1>4 DEF Spaced

\* r's permit in g is the one it had, still in time for the clock d ago.
Stands(f, g, r, d) == r \in DOMAIN f \ Expired(f, d) /\ g[r] = f[r]

\* r's permit in g is new, and keeps its distance to what was used.
Promised(f, g, ages, r, scope, interval, d) ==
    /\ r \notin DOMAIN f \ Expired(f, d) \/ ~SameScope(f[r].scope, scope)
    /\ g[r].scope = scope /\ g[r].dispatched = FALSE /\ g[r].left >= -d
    /\ \A c \in DOMAIN scope : g[r].left >= interval - ages[c]
    /\ g[r].interval = interval

\* Only r's permit differs.
OthersLeft(f, g, r) == \A q \in DOMAIN g : q # r => q \in DOMAIN f /\ g[q] = f[q]

\* What the gate answers: the table stays one whose permits lie apart, only r's permit may
\* be new, and who is told to wait for its permit has one ahead.
LEMMA PacedFacts ==
  ASSUME NEW f, Table(f), Spaced(f), NEW ages \in [Credential -> 0..Old], NEW r \in Request,
         NEW scope \in Scopes, NEW interval \in Intervals, NEW d \in 0..MaxSkew,
         NEW g, g = Paced(f, ages, r, scope, interval, d).permits
  PROVE  /\ Table(g) /\ Spaced(g) /\ OthersLeft(f, g, r)
         /\ r \in DOMAIN g => Stands(f, g, r, d) \/ Promised(f, g, ages, r, scope, interval, d)
         /\ r \in DOMAIN g /\ ~Paced(f, ages, r, scope, interval, d).go => g[r].left > -d
<1> DEFINE live == Without(f, Expired(f, d))
           rest == Without(live, {r})
           at == Earliest(rest, ages, scope, interval, d)
           new == NewPermit(at, scope, interval)
           with == [q \in DOMAIN rest \cup {r} |-> IF q = r THEN new ELSE rest[q]]
           paced == Paced(f, ages, r, scope, interval, d)
<1>1. /\ DOMAIN live = DOMAIN f \ Expired(f, d) /\ Part(live, f)
      /\ DOMAIN rest = DOMAIN live \ {r} /\ Part(rest, live) /\ Part(rest, f)
  <2>1. DOMAIN live = DOMAIN f \ Expired(f, d) /\ Part(live, f)
    BY WithoutFacts
  <2> HIDE DEF live
  <2>2. DOMAIN rest = DOMAIN live \ {r} /\ Part(rest, live)
    BY WithoutFacts
  <2> QED BY <2>1, <2>2 DEF Part
<1>2. Table(live) /\ Spaced(live) /\ Table(rest) /\ Spaced(rest)
  <2> HIDE DEF live, rest
  <2> QED BY <1>1, PartKept
<1>3. /\ at \in Int /\ at >= -d
      /\ \A c \in DOMAIN scope : at >= interval - ages[c]
      /\ \A q \in Waiting(rest) : Overlap(rest[q].scope, scope) =>
             at >= rest[q].left + Max({interval, rest[q].interval})
  <2> HIDE DEF rest
  <2> QED BY <1>2, EarliestFacts DEF Table
<1>4. d \in Nat /\ d <= MaxSkew /\ MaxSkew \in Nat /\ MaxWait \in Nat
  BY Numbers
<1>5. \/ /\ Keeps(live, r, scope) /\ paced = [permits |-> live, go |-> Due(live, r, d)]
      \/ /\ ~Keeps(live, r, scope) /\ paced = [permits |-> rest, go |-> FALSE]
      \/ /\ ~Keeps(live, r, scope) /\ Cardinality(DOMAIN rest) < MaxReservations
         /\ at + d <= MaxWait /\ paced = [permits |-> with, go |-> Due(with, r, d)]
  <2>1. Cardinality(DOMAIN rest) \in Nat
    <3> HIDE DEF rest
    <3>1. IsFiniteSet(DOMAIN rest)
      BY <1>2, PacingAssumption, FS_Subset DEF Table
    <3> QED BY <3>1, FS_CardinalityType
  <2>2. paced = IF Keeps(live, r, scope) THEN [permits |-> live, go |-> Due(live, r, d)]
                ELSE IF Cardinality(DOMAIN rest) >= MaxReservations \/ at + d > MaxWait
                     THEN [permits |-> rest, go |-> FALSE]
                     ELSE [permits |-> with, go |-> Due(with, r, d)]
    BY Zenon DEF Paced
  <2> HIDE DEF live, rest, at, with, paced
  <2> QED BY <1>3, <1>4, <2>1, <2>2, Numbers
<1> HIDE DEF live, paced
<1>6. CASE Keeps(live, r, scope) /\ paced = [permits |-> live, go |-> Due(live, r, d)]
  <2>1. g = live /\ paced.go = Due(live, r, d)
    BY <1>6 DEF paced
  <2>2. r \in DOMAIN live /\ (~paced.go => live[r].left > -d)
    <3>1. r \in DOMAIN live
      BY <1>6 DEF Keeps
    <3>2. live[r].left \in Int
      BY <1>2, <3>1, PermitFacts DEF Table
    <3>3. ~paced.go => ~Due(live, r, d)
      BY <2>1, Zenon
    <3> QED BY <1>4, <3>1, <3>2, <3>3 DEF Due
  <2> QED BY <1>1, <1>2, <2>1, <2>2 DEF Part, paced, Stands, OthersLeft
<1>7. CASE ~Keeps(live, r, scope) /\ paced = [permits |-> rest, go |-> FALSE]
  <2>1. g = rest
    BY <1>7 DEF paced
  <2>2. r \notin DOMAIN rest
    BY <1>1
  <2> HIDE DEF rest
  <2> QED BY <1>1, <1>2, <2>1, <2>2 DEF Part, OthersLeft
<1>8. CASE /\ ~Keeps(live, r, scope) /\ Cardinality(DOMAIN rest) < MaxReservations
           /\ at + d <= MaxWait /\ paced = [permits |-> with, go |-> Due(with, r, d)]
  <2>1. g = with /\ paced.go = Due(with, r, d)
    BY <1>8 DEF paced
  <2>2. at \in Overdue..MaxWait
    <3> HIDE DEF at
    <3> QED BY <1>3, <1>4, <1>8, Numbers
  <2>3. r \in Request \ DOMAIN rest
    BY <1>1
  <2> HIDE DEF at, rest
  <2>4. new \in Permit /\ new.left = at /\ new.scope = scope /\ new.interval = interval
        /\ new.dispatched = FALSE
    <3>1. scope \in Scopes /\ interval \in Intervals
      OBVIOUS
    <3> QED BY <2>2, <3>1 DEF NewPermit, Permit, Scopes
  <2> HIDE DEF new
  <2>5. Table(with) /\ Spaced(with)
    <3>1. \A q \in Waiting(rest) : Overlap(rest[q].scope, new.scope) =>
             new.left >= rest[q].left + Max({new.interval, rest[q].interval})
      BY <1>3, <2>4
    <3> QED BY <1>2, <1>8, <2>3, <2>4, <3>1, AddedKept
  <2>6. DOMAIN with = DOMAIN rest \cup {r} /\ with[r] = new /\ \A q \in DOMAIN rest : with[q] = rest[q]
    BY <2>3
  <2> HIDE DEF with
  <2>7. r \notin DOMAIN f \ Expired(f, d) \/ ~SameScope(f[r].scope, scope)
    BY <1>1, <1>8 DEF Keeps, Part
  <2>8. ~paced.go => with[r].left > -d
    <3>1. ~paced.go => ~Due(with, r, d)
      BY <2>1, Zenon
    <3> QED BY <1>3, <1>4, <2>4, <2>6, <3>1 DEF Due
  <2>9. \A q \in DOMAIN g : q # r => q \in DOMAIN f /\ g[q] = f[q]
    BY <1>1, <2>1, <2>6 DEF Part
  <2> QED BY <1>3, <2>1, <2>4, <2>5, <2>6, <2>7, <2>8, <2>9 DEF paced, Promised, OthersLeft
<1> QED BY <1>5, <1>6, <1>7, <1>8
-----------------------------------------------------------------------------
(* The invariant of the gate.                                               *)

Phases == {"new", "assessing", "waiting", "ready", "sent", "late", "over"}

\* The state besides the permits has its types.
Rest ==
    /\ DOMAIN cycles \subseteq Credential /\ \A c \in DOMAIN cycles : cycles[c] \in Cycles
    /\ since \in [Credential -> 0..Old]
    /\ observed \in [Credential -> Cycles]
    /\ phase \in [Request -> Phases]
    /\ skew \in [Request -> 0..MaxSkew]
    /\ deadline \in [Request -> 0..NoDeadline]

Inv == Table(permits) /\ Rest /\ Spaced(permits) /\ UsedPermitsAreOwned

\* It says that types are right and permits lie apart.
LEMMA InvFacts == Inv => TypeOK /\ PermitsApart
  BY DEF Inv, Table, Rest, TypeOK, Holders, Phases, Spaced, PermitsApart

\* A credential's observation makes a scope; anchors and ages stay what they are.
LEMMA ScopeFacts ==
  ASSUME Rest, NEW C \in Pools
  PROVE  /\ ScopeOf(C) \in Scopes /\ DOMAIN ScopeOf(C) = C /\ C \subseteq Credential
         /\ Forgotten(Changed(ScopeOf(C))) \in [Credential -> 0..Old]
         /\ DOMAIN Anchored(ScopeOf(C)) \subseteq Credential
         /\ \A c \in DOMAIN Anchored(ScopeOf(C)) : Anchored(ScopeOf(C))[c] \in Cycles
<1>1. C \subseteq Credential
  BY PacingAssumption
<1>2. ScopeOf(C) \in [C -> Cycles]
  BY <1>1 DEF ScopeOf, Rest
<1> DEFINE s == ScopeOf(C)
<1> HIDE DEF s
<1>3. s \in [C -> Cycles]
  BY <1>2 DEF s
<1>4. s \in Scopes /\ DOMAIN s = C
  BY <1>1, <1>3 DEF Scopes
<1>5. Forgotten(Changed(s)) \in [Credential -> 0..Old]
  BY Numbers DEF Forgotten, Rest
<1>6. /\ DOMAIN Anchored(s) \subseteq Credential
      /\ \A c \in DOMAIN Anchored(s) : Anchored(s)[c] \in Cycles
  BY <1>1, <1>3 DEF Anchored, Rest
<1> QED BY <1>1, <1>4, <1>5, <1>6 DEF s

\* The host's part of an assessment of r.
LEMMA AnswerFacts ==
  ASSUME Rest, NEW r \in Request, Assessing(r), NEW go, Answer(r, go)
  PROVE  /\ phase' \in [Request -> Phases] /\ skew' \in [Request -> 0..MaxSkew]
         /\ deadline' \in [Request -> 0..NoDeadline]
         /\ \A q \in Request \ {r} :
                phase'[q] = phase[q] /\ skew'[q] = skew[q] /\ deadline'[q] = deadline[q]
         /\ skew'[r] = 0
         /\ phase[r] = "late" => phase'[r] = "over"
         /\ phase[r] = "assessing" => phase'[r] \in {"ready", "waiting"}
         /\ phase'[r] = "waiting" =>
                ~go /\ deadline'[r] = IF deadline[r] = NoDeadline THEN MaxWait ELSE deadline[r]
<1>1. 0 \in 0..MaxSkew /\ MaxWait \in 0..NoDeadline
  BY Numbers
<1>2. skew' \in [Request -> 0..MaxSkew] /\ skew'[r] = 0
      /\ \A q \in Request \ {r} : skew'[q] = skew[q]
  BY <1>1 DEF Answer, Rest
<1>3. /\ phase' \in [Request -> Phases]
      /\ \A q \in Request \ {r} : phase'[q] = phase[q]
      /\ phase[r] = "late" => phase'[r] = "over"
      /\ phase[r] = "assessing" => phase'[r] \in {"ready", "waiting"}
      /\ phase'[r] = "waiting" => ~go /\ phase[r] = "assessing"
  BY DEF Answer, Rest, Phases, Assessing
<1>4. /\ deadline' \in [Request -> 0..NoDeadline]
      /\ \A q \in Request \ {r} : deadline'[q] = deadline[q]
      /\ phase'[r] = "waiting" =>
             deadline'[r] = IF deadline[r] = NoDeadline THEN MaxWait ELSE deadline[r]
  BY <1>1, <1>3 DEF Answer, Rest
<1> QED BY <1>2, <1>3, <1>4

\* Permits of others are left alone, a permit of r is no older use, and nothing else is
\* disturbed by an assessment.
LEMMA AssessKept ==
  ASSUME Inv, NEW r \in Request, Assessing(r), NEW go, Answer(r, go),
         Table(permits'), Spaced(permits'),
         \A q \in DOMAIN permits' : q # r => q \in Holders /\ permits'[q] = permits[q],
         r \in DOMAIN permits' /\ permits'[r].dispatched
            => r \in Holders /\ permits[r].dispatched,
         DOMAIN cycles' \subseteq Credential, \A c \in DOMAIN cycles' : cycles'[c] \in Cycles,
         since' \in [Credential -> 0..Old], observed' = observed
  PROVE  Inv'
<1>1. /\ phase' \in [Request -> Phases] /\ skew' \in [Request -> 0..MaxSkew]
      /\ deadline' \in [Request -> 0..NoDeadline]
      /\ \A q \in Request \ {r} : phase'[q] = phase[q]
      /\ phase[r] = "late" => phase'[r] = "over"
      /\ phase[r] = "assessing" => phase'[r] \in {"ready", "waiting"}
  BY AnswerFacts DEF Inv
<1>2. Rest'
  BY <1>1 DEF Rest, Inv
<1>3. UsedPermitsAreOwned'
  BY <1>1 DEF UsedPermitsAreOwned, Inv, Table, Holders, Assessing
<1> QED BY <1>2, <1>3 DEF Inv

\* An answer that only takes permits away keeps the invariant.
LEMMA AssessPart ==
  ASSUME Inv, NEW r \in Request, Assessing(r), NEW go, Answer(r, go), Part(permits', permits),
         DOMAIN cycles' \subseteq Credential, \A c \in DOMAIN cycles' : cycles'[c] \in Cycles,
         since' \in [Credential -> 0..Old], observed' = observed
  PROVE  Inv'
<1>1. Table(permits') /\ Spaced(permits')
  BY PartKept DEF Inv
<1> QED BY <1>1, AssessKept DEF Part, Holders

\* A promise keeps the invariant.
LEMMA InvAssessPaced ==
  ASSUME Inv, NEW r \in Request, AssessPaced(r)
  PROVE  Inv'
<1>1. PICK C \in Pools, interval \in Intervals :
         LET scope == ScopeOf(C)
             kept  == Without(permits, Voided(permits, scope))
             ages  == Forgotten(Changed(scope))
             paced == Paced(kept, ages, r, scope, interval, skew[r])
         IN  /\ cycles' = Anchored(scope) /\ since' = ages
             /\ permits' = paced.permits /\ Answer(r, paced.go)
  BY DEF AssessPaced
<1> DEFINE scope == ScopeOf(C)
           kept == Without(permits, Voided(permits, scope))
           ages == Forgotten(Changed(scope))
           paced == Paced(kept, ages, r, scope, interval, skew[r])
<1>2. Assessing(r) /\ observed' = observed /\ skew[r] \in 0..MaxSkew
  BY DEF AssessPaced, Inv, Rest
<1>3. /\ scope \in Scopes /\ ages \in [Credential -> 0..Old]
      /\ DOMAIN cycles' \subseteq Credential /\ \A c \in DOMAIN cycles' : cycles'[c] \in Cycles
  BY <1>1, ScopeFacts DEF Inv
<1>4. Part(kept, permits)
  <2> HIDE DEF scope
  <2> QED BY WithoutFacts
<1>5. permits' = paced.permits /\ Answer(r, paced.go) /\ since' = ages
  BY <1>1
<1> HIDE DEF scope, kept, ages
<1>6. Table(kept) /\ Spaced(kept)
  BY <1>4, PartKept DEF Inv
<1>7. /\ Table(permits') /\ Spaced(permits') /\ OthersLeft(kept, permits', r)
      /\ r \in DOMAIN permits' => \/ Stands(kept, permits', r, skew[r])
                                 \/ Promised(kept, permits', ages, r, scope, interval, skew[r])
  BY <1>2, <1>3, <1>5, <1>6, PacedFacts
<1>8. /\ \A q \in DOMAIN permits' : q # r => q \in Holders /\ permits'[q] = permits[q]
      /\ r \in DOMAIN permits' /\ permits'[r].dispatched
            => r \in Holders /\ permits[r].dispatched
  BY <1>4, <1>7 DEF Part, Holders, Stands, Promised, OthersLeft
<1> HIDE DEF paced
<1> QED BY <1>2, <1>3, <1>5, <1>7, <1>8, AssessKept

\* So does an answer without a promise.
LEMMA InvAssessOther ==
  ASSUME Inv, NEW r \in Request, AssessUnpaced(r) \/ AssessRecheck(r)
  PROVE  Inv'
<1>1. PICK C \in Pools, go \in BOOLEAN :
        /\ Answer(r, go) /\ cycles' = Anchored(ScopeOf(C)) /\ since' = Forgotten(Changed(ScopeOf(C)))
        /\ \E S : permits' = Without(Without(permits, Voided(permits, ScopeOf(C))), S)
  <2>1. CASE AssessUnpaced(r)
    BY <2>1 DEF AssessUnpaced
  <2>2. CASE AssessRecheck(r)
    <3>1. PICK C \in Pools :
             /\ cycles' = Anchored(ScopeOf(C)) /\ since' = Forgotten(Changed(ScopeOf(C)))
             /\ permits' = Without(permits, Voided(permits, ScopeOf(C)))
      BY <2>2 DEF AssessRecheck
    <3> DEFINE f == Without(permits, Voided(permits, ScopeOf(C)))
    <3>2. f = Without(f, {})
      BY DEF Without
    <3> HIDE DEF f
    <3>3. \E S : permits' = Without(f, S)
      BY <3>1, <3>2 DEF f
    <3> QED BY <2>2, <3>1, <3>3 DEF AssessRecheck, f
  <2> QED BY <2>1, <2>2
<1>2. Assessing(r) /\ observed' = observed
  BY DEF AssessUnpaced, AssessRecheck
<1>3. Part(permits', permits)
  <2>1. PICK S : permits' = Without(Without(permits, Voided(permits, ScopeOf(C))), S)
    BY <1>1
  <2> DEFINE f == Without(permits, Voided(permits, ScopeOf(C)))
  <2>2. Part(f, permits)
    BY WithoutFacts
  <2>3. permits' = Without(f, S)
    BY <2>1
  <2> HIDE DEF f
  <2>4. Part(permits', f)
    BY <2>3, WithoutFacts
  <2> QED BY <2>2, <2>4 DEF Part
<1>4. /\ since' \in [Credential -> 0..Old]
      /\ DOMAIN cycles' \subseteq Credential /\ \A c \in DOMAIN cycles' : cycles'[c] \in Cycles
  BY <1>1, ScopeFacts DEF Inv
<1> QED BY <1>1, <1>2, <1>3, <1>4, AssessPart

\* Nothing of a cleared gate is left but what was used.
LEMMA ClearedFacts ==
  ASSUME Inv, Cleared
  PROVE  /\ Part(permits', permits) /\ since' \in [Credential -> 0..Old]
         /\ DOMAIN cycles' \subseteq Credential /\ \A c \in DOMAIN cycles' : cycles'[c] \in Cycles
<1>1. Part(permits', permits)
  BY WithoutFacts DEF Cleared
<1>2. since' \in [Credential -> 0..Old]
  BY Numbers DEF Cleared, Forgotten, Inv, Rest
<1>3. DOMAIN cycles' = {}
  BY DEF Cleared
<1> QED BY <1>1, <1>2, <1>3

\* The gate is off, or no candidate is ready.
LEMMA InvAssessNone ==
  ASSUME Inv, NEW r \in Request, AssessOff(r) \/ AssessBlocked(r)
  PROVE  Inv'
<1>1. CASE AssessOff(r)
  <2>1. Assessing(r) /\ observed' = observed /\ Cleared /\ Answer(r, TRUE)
    BY <1>1 DEF AssessOff
  <2> QED BY <2>1, ClearedFacts, AssessPart
<1>2. CASE AssessBlocked(r)
  <2>1. PICK go \in BOOLEAN : Answer(r, go)
    BY <1>2 DEF AssessBlocked
  <2>2. Assessing(r) /\ UNCHANGED <<permits, cycles, since, observed>>
    BY <1>2 DEF AssessBlocked
  <2>3. Part(permits', permits) /\ DOMAIN cycles' \subseteq Credential
        /\ (\A c \in DOMAIN cycles' : cycles'[c] \in Cycles) /\ since' \in [Credential -> 0..Old]
    BY <2>2 DEF Part, Inv, Rest
  <2> QED BY <2>1, <2>2, <2>3, AssessPart
<1> QED BY <1>1, <1>2

\* A call reads its clock, an execution ends, quota is observed, anchors are pruned, and
\* the gate is configured.
LEMMA InvQuiet ==
  ASSUME Inv,
         \/ \E r \in Request : Call(r) \/ Complete(r)
         \/ \E c \in Credential : Observe(c)
         \/ Configure \/ Prune
  PROVE  Inv'
<1>1. ASSUME NEW r \in Request, Call(r) PROVE Inv'
  BY <1>1 DEF Call, Inv, Rest, Phases, UsedPermitsAreOwned, Holders, Table
<1>2. ASSUME NEW r \in Request, Complete(r) PROVE Inv'
  <2>1. Part(permits', permits) /\ DOMAIN permits' = DOMAIN permits \ {r}
    BY <1>2, WithoutFacts DEF Complete, Freed
  <2>2. Table(permits') /\ Spaced(permits')
    BY <2>1, PartKept DEF Inv
  <2>3. NoDeadline \in 0..NoDeadline
    BY Numbers
  <2>4. Rest'
    BY <1>2, <2>3 DEF Complete, Inv, Rest, Phases
  <2>5. UsedPermitsAreOwned'
    BY <1>2, <2>1 DEF Complete, Inv, Rest, UsedPermitsAreOwned, Holders, Table, Part
  <2> QED BY <2>2, <2>4, <2>5 DEF Inv
<1>3. ASSUME NEW c \in Credential, Observe(c) PROVE Inv'
  <2>1. PICK y \in CyclesOf[c] : observed' = [observed EXCEPT ![c] = y]
    BY <1>3 DEF Observe
  <2>2. y \in Cycles
    BY DEF Cycles
  <2>3. UNCHANGED <<permits, cycles, since, phase, skew, deadline>>
    BY <1>3 DEF Observe
  <2> QED BY <2>1, <2>2, <2>3 DEF Inv, Rest, UsedPermitsAreOwned, Holders
<1>4. CASE Configure
  <2>1. Cleared /\ UNCHANGED <<observed, phase, skew, deadline>>
    BY <1>4 DEF Configure
  <2>2. Table(permits') /\ Spaced(permits')
    BY <2>1, ClearedFacts, PartKept DEF Inv
  <2>3. Rest'
    BY <2>1, ClearedFacts DEF Inv, Rest
  <2>4. UsedPermitsAreOwned'
    BY <2>1, ClearedFacts DEF Inv, UsedPermitsAreOwned, Holders, Part
  <2> QED BY <2>2, <2>3, <2>4 DEF Inv
<1>5. CASE Prune
  <2>1. UNCHANGED <<permits, observed, phase, skew, deadline>>
        /\ \E gone \in SUBSET DOMAIN cycles :
               cycles' = Without(cycles, gone) /\ since' = Forgotten(gone)
    BY <1>5 DEF Prune
  <2>2. since' \in [Credential -> 0..Old]
    BY <2>1, Numbers DEF Forgotten, Inv, Rest
  <2>3. Part(cycles', cycles)
    BY <2>1, WithoutFacts
  <2> QED BY <2>1, <2>2, <2>3 DEF Inv, Rest, Part, UsedPermitsAreOwned, Holders
<1> QED BY <1>1, <1>2, <1>3, <1>4, <1>5

\* A used permit is a permit.
LEMMA UsedFacts ==
  ASSUME NEW p \in Permit
  PROVE  Used(p) \in Permit /\ Used(p).dispatched /\ Used(p).left = p.left
<1>1. <<>> \in Scopes
  <2>1. <<>> = [c \in {} |-> c]
    OBVIOUS
  <2>2. [c \in {} |-> c] \in [{} -> Cycles]
    OBVIOUS
  <2>3. {} \in SUBSET Credential
    OBVIOUS
  <2> QED BY <2>1, <2>2, <2>3 DEF Scopes
<1>2. Min(Intervals) \in Intervals
  BY Numbers
<1> DEFINE m == Min(Intervals)
<1> HIDE DEF m
<1>3. /\ p \in [left : Overdue..MaxWait, interval : Intervals, dispatched : BOOLEAN, scope : Scopes]
      /\ m \in Intervals
  BY <1>2 DEF Permit, Scopes, m
<1>4. Used(p) = [p EXCEPT !.dispatched = TRUE, !.scope = <<>>, !.interval = m]
  BY DEF Used, m
<1>5. Used(p) \in [left : Overdue..MaxWait, interval : Intervals, dispatched : BOOLEAN,
                   scope : Scopes]
      /\ Used(p).dispatched /\ Used(p).left = p.left
  BY <1>1, <1>3, <1>4
<1> QED BY <1>5 DEF Permit, Scopes

\* A dispatch uses the permit up, which then waits for nothing.
LEMMA InvDispatch ==
  ASSUME Inv, NEW r \in Request, Dispatch(r)
  PROVE  Inv'
<1>1. phase[r] = "ready" /\ phase' = [phase EXCEPT ![r] = "sent"]
      /\ UNCHANGED <<cycles, observed, skew, deadline>>
  BY DEF Dispatch
<1>2. CASE Uses(r)
  <2>1. permits' = [permits EXCEPT ![r] = Used(@)] /\ r \in DOMAIN permits
    BY <1>2 DEF Dispatch, Uses, Holders
  <2>2. \E C : since' = [c \in Credential |-> IF c \in C THEN 0 ELSE since[c]]
    BY <1>2 DEF Dispatch
  <2>3. since' \in [Credential -> 0..Old]
    BY <2>2, Numbers DEF Inv, Rest
  <2>4. Used(permits[r]) \in Permit /\ Used(permits[r]).dispatched
    BY <2>1, UsedFacts DEF Inv, Table
  <2>5. DOMAIN permits' = DOMAIN permits /\ permits'[r] = Used(permits[r])
        /\ \A q \in DOMAIN permits \ {r} : permits'[q] = permits[q]
    BY <2>1
  <2>6. Table(permits')
    BY <2>4, <2>5 DEF Inv, Table
  <2>7. Spaced(permits')
    <3>1. \A q \in Waiting(permits') : q \in Waiting(permits) /\ permits'[q] = permits[q]
      BY <2>4, <2>5 DEF Waiting
    <3> QED BY <3>1 DEF Inv, Spaced
  <2>8. Rest' /\ UsedPermitsAreOwned'
    BY <1>1, <2>3, <2>5 DEF Inv, Rest, Phases, UsedPermitsAreOwned, Holders, Table
  <2> QED BY <2>6, <2>7, <2>8 DEF Inv
<1>3. CASE ~Uses(r)
  <2>1. UNCHANGED <<permits, since>>
    BY <1>3 DEF Dispatch
  <2> QED BY <1>1, <2>1 DEF Inv, Rest, Phases, UsedPermitsAreOwned, Holders, Table
<1> QED BY <1>2, <1>3

\* What is left of a permit after one unit of time.
Later(p) == [p EXCEPT !.left = Max({@ - 1, IF p.dispatched THEN -MaxSkew ELSE Overdue})]

\* Time takes one from what is left, down to where it is folded away.
LEMMA LaterFacts ==
  ASSUME NEW p \in Permit
  PROVE  /\ Later(p) \in Permit /\ Later(p).scope = p.scope /\ Later(p).interval = p.interval
         /\ Later(p).dispatched = p.dispatched
         /\ ~p.dispatched => /\ Later(p).left > Overdue => Later(p).left = p.left - 1
                             /\ Later(p).left >= p.left - 1 /\ Later(p).left <= p.left
<1>1. /\ p.left \in Int /\ Overdue <= p.left /\ p.left <= MaxWait
      /\ MaxSkew \in Nat /\ MaxWait \in Nat /\ Overdue \in Int
      /\ Overdue = -(MaxWait + MaxSkew + 1)
  BY PermitFacts, Numbers
<1> DEFINE floor == IF p.dispatched THEN -MaxSkew ELSE Overdue
           left == Max({p.left - 1, floor})
<1>2. floor \in Int /\ Overdue <= floor /\ floor <= 0 /\ (~p.dispatched => floor = Overdue)
  BY <1>1
<1> HIDE DEF floor
<1>3. left = IF p.left - 1 >= floor THEN p.left - 1 ELSE floor
  <2> DEFINE n == p.left - 1
  <2>1. n \in Int
    BY <1>1
  <2> HIDE DEF n
  <2>2. Max({n, floor}) = IF n >= floor THEN n ELSE floor
    BY <1>2, <2>1, PairFacts
  <2> QED BY <2>2 DEF n
<1>4. Later(p) = [p EXCEPT !.left = left]
  BY DEF Later, floor
<1> HIDE DEF left
<1>5. left \in Overdue..MaxWait
  BY <1>1, <1>2, <1>3
<1>6. ~p.dispatched => (left > Overdue => left = p.left - 1) /\ left >= p.left - 1 /\ left <= p.left
  BY <1>1, <1>2, <1>3
<1>7. p \in [left : Overdue..MaxWait, interval : Intervals, dispatched : BOOLEAN, scope : Scopes]
  BY DEF Permit, Scopes
<1>8. /\ Later(p) \in [left : Overdue..MaxWait, interval : Intervals, dispatched : BOOLEAN,
                       scope : Scopes]
      /\ Later(p).left = left /\ Later(p).scope = p.scope /\ Later(p).interval = p.interval
      /\ Later(p).dispatched = p.dispatched
  BY <1>4, <1>5, <1>7
<1> QED BY <1>6, <1>8 DEF Permit, Scopes

\* Time keeps the distance of permits.
LEMMA InvTick ==
  ASSUME Inv, Tick
  PROVE  Inv'
<1>1. /\ DOMAIN permits' = DOMAIN permits /\ \A q \in DOMAIN permits : permits'[q] = Later(permits[q])
      /\ UNCHANGED <<cycles, observed, phase>>
  BY DEF Tick, Later, Holders
<1>2. \A q \in DOMAIN permits : permits[q] \in Permit
  BY DEF Inv, Table
<1>3. Table(permits')
  BY <1>1, <1>2, LaterFacts DEF Inv, Table
<1>4. Spaced(permits')
  <2> SUFFICES ASSUME NEW a \in Waiting(permits'), NEW b \in Waiting(permits'), a # b,
                      permits'[a].left > Overdue, permits'[b].left > Overdue,
                      Overlap(permits'[a].scope, permits'[b].scope)
               PROVE  Abs(permits'[a].left - permits'[b].left)
                        >= Max({permits'[a].interval, permits'[b].interval})
    BY DEF Spaced
  <2>1. a \in DOMAIN permits /\ b \in DOMAIN permits
        /\ permits'[a] = Later(permits[a]) /\ permits'[b] = Later(permits[b])
    BY <1>1 DEF Waiting
  <2>2. permits[a] \in Permit /\ permits[b] \in Permit
    BY <1>2, <2>1
  <2>3. /\ ~permits[a].dispatched /\ permits'[a].left = permits[a].left - 1
        /\ permits'[a].scope = permits[a].scope /\ permits'[a].interval = permits[a].interval
    BY <2>1, <2>2, LaterFacts DEF Waiting
  <2>4. /\ ~permits[b].dispatched /\ permits'[b].left = permits[b].left - 1
        /\ permits'[b].scope = permits[b].scope /\ permits'[b].interval = permits[b].interval
    BY <2>1, <2>2, LaterFacts DEF Waiting
  <2>5. permits[a].left \in Int /\ permits[b].left \in Int /\ Overdue \in Int
    BY <2>2, PermitFacts, Numbers
  <2>6. permits[a].left > Overdue /\ permits[b].left > Overdue
    BY <2>3, <2>4, <2>5
  <2>7. a \in Waiting(permits) /\ b \in Waiting(permits)
    BY <2>1, <2>3, <2>4 DEF Waiting
  <2>8. Overlap(permits[a].scope, permits[b].scope)
    BY <2>3, <2>4
  <2>9. Abs(permits[a].left - permits[b].left) >= Max({permits[a].interval, permits[b].interval})
    BY <2>6, <2>7, <2>8 DEF Inv, Spaced
  <2>10. permits'[a].left - permits'[b].left = permits[a].left - permits[b].left
    BY <2>3, <2>4, <2>5
  <2> QED BY <2>3, <2>4, <2>9, <2>10
<1>5. since' \in [Credential -> 0..Old]
  <2> SUFFICES ASSUME NEW c \in Credential PROVE Min({since[c] + 1, Old}) \in 0..Old
    BY DEF Tick
  <2>1. since[c] \in Nat /\ since[c] + 1 \in Int /\ Old \in Int /\ Old \in Nat
    BY Numbers DEF Inv, Rest
  <2> DEFINE n == since[c] + 1
  <2>2. n \in Nat
    BY <2>1
  <2> HIDE DEF n
  <2>3. Min({n, Old}) \in 0..Old
    BY <2>1, <2>2, PairFacts
  <2> QED BY <2>3 DEF n
<1>6. skew' \in [Request -> 0..MaxSkew]
  BY Numbers DEF Tick, Inv, Rest
<1>7. deadline' \in [Request -> 0..NoDeadline]
  <2>0. NoDeadline \in Nat
    BY Numbers
  <2> SUFFICES ASSUME NEW r \in Request, deadline[r] # NoDeadline
               PROVE  Max({deadline[r] - 1, 0}) \in 0..NoDeadline
    BY <2>0 DEF Tick
  <2>1. deadline[r] \in Int /\ 0 <= deadline[r] /\ deadline[r] <= NoDeadline
    BY <2>0 DEF Inv, Rest
  <2> DEFINE n == deadline[r] - 1
  <2>2. n \in Int /\ n <= NoDeadline
    BY <2>0, <2>1
  <2> HIDE DEF n
  <2>3. Max({n, 0}) \in 0..NoDeadline
    BY <2>0, <2>2, PairFacts
  <2> QED BY <2>3 DEF n
<1>8. Rest'
  BY <1>1, <1>5, <1>6, <1>7 DEF Inv, Rest
<1>9. UsedPermitsAreOwned'
  BY <1>1, <1>2, LaterFacts DEF Inv, UsedPermitsAreOwned, Holders
<1> QED BY <1>3, <1>4, <1>8, <1>9 DEF Inv

\* It holds of a gate that has promised nothing.
LEMMA InvInit == Init => Inv
<1> SUFFICES ASSUME Init PROVE Inv
  OBVIOUS
<1>1. DOMAIN permits = {} /\ DOMAIN cycles = {}
  BY DEF Init
<1>2. Table(permits)
  BY <1>1, FS_EmptySet, Numbers DEF Table
<1>3. 0 \in 0..MaxSkew /\ NoDeadline \in 0..NoDeadline /\ Old \in 0..Old
  BY Numbers
<1>4. Rest
  BY <1>1, <1>3 DEF Init, Rest, Phases
<1>5. Spaced(permits) /\ UsedPermitsAreOwned
  BY <1>1 DEF Spaced, Waiting, UsedPermitsAreOwned, Holders
<1> QED BY <1>2, <1>4, <1>5 DEF Inv

\* Every step keeps it.
LEMMA InvStep == Inv /\ [Next]_vars => Inv'
<1> SUFFICES ASSUME Inv, [Next]_vars PROVE Inv'
  OBVIOUS
<1>1. CASE UNCHANGED vars
  BY <1>1 DEF vars, Inv, Table, Rest, Spaced, Waiting, UsedPermitsAreOwned, Holders
<1>2. CASE Next
  BY <1>2, InvAssessPaced, InvAssessOther, InvAssessNone, InvDispatch, InvQuiet, InvTick DEF Next
<1> QED BY <1>1, <1>2

\* The invariant holds of every behaviour.
LEMMA InvHolds == Spec => []Inv
  BY InvInit, InvStep, PTL DEF Spec

\* Types: a permit lies at most one maximum wait ahead, and the table is bounded by
\* continuityMaxReservations.
THEOREM TypeCorrect == Spec => []TypeOK
  BY InvHolds, InvFacts, PTL

\* Two permits that wait for a common credential lie apart by the longer of their
\* intervals: nextPermitForScope looks at every overlapping reservation, and pruning,
\* cancelling and clearing only take permits away.
THEOREM PermitsStayApart == Spec => []PermitsApart
  BY InvHolds, InvFacts, PTL

\* A permit that was used up belongs to an execution that still runs: only a dispatch
\* marks one, and continuityComplete removes it whatever the execution is doing.
THEOREM UsedOnesAreOwned == Spec => []UsedPermitsAreOwned
<1>1. Inv => UsedPermitsAreOwned
  BY DEF Inv
<1> QED BY <1>1, InvHolds, PTL
-----------------------------------------------------------------------------
(* Grants.                                                                  *)

\* A step that is no promise grants nothing to the assessment it ends: what a table has
\* left is not granted.
LEMMA NoGrant ==
  ASSUME NEW r \in Request, Part(permits', permits)
  PROVE  ~Granted(r)
  BY DEF Part, Granted, Waiting, Holders

\* One assessment, of one execution, at a time.
LEMMA OneAnswer ==
  ASSUME Inv, NEW r \in Request, NEW q \in Request, r # q, NEW go, Assessing(q), Answer(q, go)
  PROVE  phase'[r] = phase[r]
  BY AnswerFacts DEF Inv

\* A permit the gate has just given an execution keeps its interval to every use that
\* still counts.
LEMMA GrantPaced ==
  ASSUME Inv, NEW r \in Request, NEW q \in Request, AssessPaced(q), phase'[r] # phase[r],
         Granted(r), NEW c \in DOMAIN permits'[r].scope, c \notin Changed(permits'[r].scope)
  PROVE  permits'[r].left + since[c] >= permits'[r].interval
<1>1. PICK C \in Pools, interval \in Intervals :
         LET scope == ScopeOf(C)
             kept  == Without(permits, Voided(permits, scope))
             ages  == Forgotten(Changed(scope))
             paced == Paced(kept, ages, q, scope, interval, skew[q])
         IN  permits' = paced.permits /\ Answer(q, paced.go)
  BY DEF AssessPaced
<1> DEFINE scope == ScopeOf(C)
           kept == Without(permits, Voided(permits, scope))
           ages == Forgotten(Changed(scope))
           paced == Paced(kept, ages, q, scope, interval, skew[q])
<1>2. Assessing(q) /\ skew[q] \in 0..MaxSkew
  BY DEF AssessPaced, Inv, Rest
<1>3. scope \in Scopes /\ ages \in [Credential -> 0..Old]
  BY ScopeFacts DEF Inv
<1>4. Part(kept, permits)
  <2> HIDE DEF scope
  <2> QED BY WithoutFacts
<1>5. permits' = paced.permits /\ Answer(q, paced.go)
  BY <1>1
<1>6. \A x \in Credential : x \notin Changed(scope) => ages[x] = since[x]
  <2> HIDE DEF scope
  <2> QED BY DEF Forgotten
<1> HIDE DEF scope, kept, ages
<1>7. r = q
  <2> HIDE DEF paced
  <2> QED BY <1>2, <1>5, OneAnswer
<1>8. Table(kept) /\ Spaced(kept)
  BY <1>4, PartKept DEF Inv
<1>9. /\ Table(permits')
      /\ r \in DOMAIN permits' => \/ Stands(kept, permits', r, skew[r])
                                 \/ Promised(kept, permits', ages, r, scope, interval, skew[r])
  BY <1>2, <1>3, <1>5, <1>7, <1>8, PacedFacts
<1>10. r \in DOMAIN permits' /\ ~Stands(kept, permits', r, skew[r])
  BY <1>4 DEF Granted, Stands, Part, Waiting, Holders
<1>11. permits'[r].scope = scope /\ permits'[r].interval = interval
       /\ \A x \in DOMAIN scope : permits'[r].left >= interval - ages[x]
  BY <1>9, <1>10 DEF Promised
<1>12. c \in Credential /\ ages[c] = since[c] /\ permits'[r].left >= interval - since[c]
  BY <1>3, <1>6, <1>11 DEF Scopes
<1>13. permits'[r].left \in Int /\ since[c] \in Int /\ interval \in Int
  BY <1>9, <1>10, <1>12, PermitFacts, Numbers DEF Table, Inv, Rest
<1> QED BY <1>11, <1>12, <1>13

\* A phase that an assessment ends was not ended by another step.
LEMMA GrantStep ==
  ASSUME Inv, [Next]_vars, NEW r \in Request, Assessing(r), phase'[r] # phase[r], Granted(r)
  PROVE  \E q \in Request : AssessPaced(q)
<1>1. CASE UNCHANGED vars
  BY <1>1 DEF vars
<1>2. ASSUME NEW q \in Request, AssessUnpaced(q) \/ AssessRecheck(q) PROVE FALSE
  <2>1. PICK C, S : permits' = Without(Without(permits, Voided(permits, ScopeOf(C))), S)
                    \/ permits' = Without(permits, Voided(permits, ScopeOf(C)))
    BY <1>2 DEF AssessUnpaced, AssessRecheck
  <2> DEFINE f == Without(permits, Voided(permits, ScopeOf(C)))
  <2>2. Part(f, permits)
    BY WithoutFacts
  <2>3. permits' = Without(f, S) \/ permits' = f
    BY <2>1
  <2> HIDE DEF f
  <2>4. Part(Without(f, S), f)
    BY WithoutFacts
  <2>5. Part(permits', permits)
    BY <2>2, <2>3, <2>4 DEF Part
  <2> QED BY <2>5, NoGrant
<1>3. ASSUME NEW q \in Request, AssessOff(q) \/ AssessBlocked(q) \/ Call(q) \/ Complete(q)
      PROVE  FALSE
  <2>1. CASE AssessOff(q)
    <3>1. Cleared
      BY <2>1 DEF AssessOff
    <3> QED BY <3>1, ClearedFacts, NoGrant
  <2>2. CASE AssessBlocked(q) \/ Call(q)
    <3>1. permits' = permits
      BY <2>2 DEF AssessBlocked, Call
    <3> QED BY <3>1 DEF Granted, Waiting, Holders
  <2>3. CASE Complete(q)
    <3>1. permits' = Without(permits, {q})
      BY <2>3 DEF Complete, Freed
    <3>2. Part(permits', permits)
      BY <3>1, WithoutFacts
    <3> QED BY <3>2, NoGrant
  <2> QED BY <1>3, <2>1, <2>2, <2>3
<1>4. ASSUME NEW q \in Request, Dispatch(q) PROVE FALSE
  BY <1>4 DEF Dispatch, Assessing, Inv, Rest
<1>5. CASE (\E c \in Credential : Observe(c)) \/ Configure \/ Prune \/ Tick
  BY <1>5 DEF Observe, Configure, Prune, Tick
<1> QED BY <1>1, <1>2, <1>3, <1>4, <1>5 DEF Next

\* No permit is granted on a credential that was used less than the permit's interval
\* before it, while its cycle goes on: nextPermitForScope starts from the last use of
\* every credential in the scope, and setPacingCycle only forgets those whose cycle changed.
THEOREM GrantsStayApart == Spec => GrantsKeepDistance
<1> DEFINE Kept(r) ==
      Assessing(r) /\ phase'[r] # phase[r] /\ Granted(r) =>
          \A c \in DOMAIN permits'[r].scope :
              c \notin Changed(permits'[r].scope)
                  => permits'[r].left + since[c] >= permits'[r].interval
<1>1. ASSUME Inv, [Next]_vars, NEW r \in Request PROVE Kept(r)
  BY <1>1, GrantStep, GrantPaced
<1>2. Inv /\ [Next]_vars => [\A r \in Request : Kept(r)]_vars
  BY <1>1
<1> QED BY <1>2, InvHolds, PTL DEF Spec, GrantsKeepDistance
-----------------------------------------------------------------------------
(* Nobody is postponed.                                                     *)
(*                                                                          *)
(* A permit that stands is found again unless it has expired.  The wait     *)
(* budget of the host ends a maximum wait after the answer, a permit a      *)
(* maximum wait after it was due, and it is due no earlier than the clock   *)
(* reading of the call that got it: so whoever comes back within his budget *)
(* finds his permit, as long as calls do not wait long for s.mu.            *)

\* A host with this budget comes back before a permit with this time left expires.
Budgeted(left, budget) ==
    budget # NoDeadline /\ (budget > 0 => left + MaxWait + MaxSkew > budget)

Timely(r) ==
    /\ phase[r] = "new" => r \notin Holders
    /\ phase[r] = "sent" => r \notin Waiting(permits)
    /\ ~Assessing(r) => skew[r] = 0
    /\ r \in Waiting(permits) /\ phase[r] \in {"waiting", "assessing"}
           => Budgeted(permits[r].left, deadline[r])
    /\ r \in Waiting(permits) /\ phase[r] = "assessing"
           => permits[r].left + MaxWait + skew[r] >= 0

AllTimely == \A r \in Request : Timely(r)

\* The numbers of a waiting permit.
LEMMA WaitingFacts ==
  ASSUME Inv, NEW r \in Request
  PROVE  /\ deadline[r] \in Nat /\ deadline[r] <= MaxWait + 1
         /\ skew[r] \in Nat /\ skew[r] <= MaxSkew /\ MaxSkew \in Nat /\ MaxWait \in Nat
         /\ r \in Waiting(permits) => permits[r].left \in Int
<1>1. deadline[r] \in 0..NoDeadline /\ skew[r] \in 0..MaxSkew
  BY DEF Inv, Rest
<1>2. r \in Waiting(permits) => permits[r].left \in Int
  BY PermitFacts DEF Inv, Table, Waiting
<1> QED BY <1>1, <1>2, Numbers

\* An answer leaves everybody timely if the permit it leaves r, who is to wait, is the one
\* r had or lies ahead of the clock r read.
LEMMA TimelyAnswer ==
  ASSUME Inv, AllTimely, NEW r \in Request, Assessing(r), NEW go, Answer(r, go),
         OthersLeft(permits, permits', r),
         r \in Waiting(permits') /\ ~go =>
             \/ r \in Waiting(permits) /\ permits'[r] = permits[r]
             \/ permits'[r].left \in Int /\ permits'[r].left + MaxSkew > 0
  PROVE  AllTimely'
<1>1. /\ \A q \in Request \ {r} :
             phase'[q] = phase[q] /\ skew'[q] = skew[q] /\ deadline'[q] = deadline[q]
      /\ skew'[r] = 0
      /\ phase[r] = "late" => phase'[r] = "over"
      /\ phase[r] = "assessing" => phase'[r] \in {"ready", "waiting"}
      /\ phase'[r] = "waiting" =>
             ~go /\ deadline'[r] = IF deadline[r] = NoDeadline THEN MaxWait ELSE deadline[r]
  BY AnswerFacts DEF Inv
<1>2. phase[r] = "assessing" \/ phase[r] = "late"
  BY DEF Assessing
<1>3. ASSUME NEW q \in Request \ {r} PROVE Timely(q)'
  <2>1. q \in DOMAIN permits' => q \in DOMAIN permits /\ permits'[q] = permits[q]
    BY DEF OthersLeft
  <2>2. Timely(q)
    BY DEF AllTimely
  <2>3. phase'[q] = phase[q] /\ skew'[q] = skew[q] /\ deadline'[q] = deadline[q]
    BY <1>1
  <2> QED BY <2>1, <2>2, <2>3 DEF Timely, Waiting, Holders, Assessing
<1>4. ASSUME phase'[r] = "waiting", r \in Waiting(permits')
      PROVE  Budgeted(permits'[r].left, deadline'[r])
  <2>1. phase[r] = "assessing" /\ ~go
        /\ deadline'[r] = IF deadline[r] = NoDeadline THEN MaxWait ELSE deadline[r]
    BY <1>1, <1>2, <1>4
  <2>2. CASE r \in Waiting(permits) /\ permits'[r] = permits[r]
    <3>1. Budgeted(permits[r].left, deadline[r])
      BY <2>1, <2>2 DEF AllTimely, Timely
    <3> QED BY <2>1, <2>2, <3>1 DEF Budgeted
  <2>3. CASE permits'[r].left \in Int /\ permits'[r].left + MaxSkew > 0
    <3> DEFINE left == permits'[r].left
               budget == deadline'[r]
    <3>1. budget \in Nat /\ budget <= MaxWait
      BY <2>1, WaitingFacts DEF NoDeadline
    <3>2. left \in Int /\ left + MaxSkew > 0
      BY <2>3
    <3> HIDE DEF left, budget
    <3>3. Budgeted(left, budget)
      BY <3>1, <3>2, WaitingFacts DEF Budgeted, NoDeadline
    <3> QED BY <3>3 DEF left, budget
  <2> QED BY <1>4, <2>1, <2>2, <2>3
<1>5. Timely(r)'
  BY <1>1, <1>2, <1>4 DEF Timely, Assessing
<1> QED BY <1>3, <1>5 DEF AllTimely

\* A step that only takes permits away is not what TimelyAnswer asks about.
LEMMA TimelyPart ==
  ASSUME Inv, AllTimely, NEW r \in Request, Assessing(r), NEW go, Answer(r, go),
         Part(permits', permits)
  PROVE  AllTimely'
<1>1. OthersLeft(permits, permits', r)
  BY DEF OthersLeft, Part
<1>2. r \in Waiting(permits') => r \in Waiting(permits) /\ permits'[r] = permits[r]
  BY DEF Part, Waiting
<1> QED BY <1>1, <1>2, TimelyAnswer

\* Unpaced answers and those that tell to look again only take permits away.
LEMMA OtherParts ==
  ASSUME NEW r \in Request, AssessUnpaced(r) \/ AssessRecheck(r)
  PROVE  Part(permits', permits) /\ Assessing(r) /\ \E go : Answer(r, go)
<1>1. PICK C, S : permits' = Without(Without(permits, Voided(permits, ScopeOf(C))), S)
                  \/ permits' = Without(permits, Voided(permits, ScopeOf(C)))
  BY DEF AssessUnpaced, AssessRecheck
<1> DEFINE f == Without(permits, Voided(permits, ScopeOf(C)))
<1>2. Part(f, permits)
  BY WithoutFacts
<1>3. permits' = Without(f, S) \/ permits' = f
  BY <1>1
<1> HIDE DEF f
<1>4. Part(Without(f, S), f)
  BY WithoutFacts
<1>5. Part(permits', permits)
  BY <1>2, <1>3, <1>4 DEF Part
<1>6. Assessing(r) /\ \E go : Answer(r, go)
  BY DEF AssessUnpaced, AssessRecheck
<1> QED BY <1>5, <1>6

\* What a promise does to the table, told of the table before it.
PromiseTo(r, scope, d) ==
    \/ r \notin Waiting(permits) \/ r \in Voided(permits, scope) \/ r \in Expired(permits, d)
    \/ ~SameScope(permits[r].scope, scope)

\* r keeps its permit or is given a new one for a scope it had none for; who is to wait
\* has a permit ahead of the clock reading.
LEMMA PacedAnswer ==
  ASSUME Inv, NEW r \in Request, AssessPaced(r)
  PROVE  /\ Assessing(r) /\ OthersLeft(permits, permits', r)
         /\ \E go : /\ Answer(r, go)
                    /\ r \in DOMAIN permits' /\ ~go =>
                           permits'[r].left \in Int /\ permits'[r].left + MaxSkew > 0
         /\ r \in Waiting(permits') =>
                \/ r \in Waiting(permits) /\ permits'[r] = permits[r]
                \/ PromiseTo(r, permits'[r].scope, skew[r])
<1>1. PICK C \in Pools, interval \in Intervals :
         LET scope == ScopeOf(C)
             kept  == Without(permits, Voided(permits, scope))
             ages  == Forgotten(Changed(scope))
             paced == Paced(kept, ages, r, scope, interval, skew[r])
         IN  permits' = paced.permits /\ Answer(r, paced.go)
  BY DEF AssessPaced
<1> DEFINE scope == ScopeOf(C)
           kept == Without(permits, Voided(permits, scope))
           ages == Forgotten(Changed(scope))
           paced == Paced(kept, ages, r, scope, interval, skew[r])
<1>2. Assessing(r) /\ skew[r] \in 0..MaxSkew
  BY DEF AssessPaced, Inv, Rest
<1>3. scope \in Scopes /\ ages \in [Credential -> 0..Old]
  BY ScopeFacts DEF Inv
<1>4. Part(kept, permits) /\ DOMAIN kept = DOMAIN permits \ Voided(permits, scope)
  <2> HIDE DEF scope
  <2> QED BY WithoutFacts
<1>5. permits' = paced.permits /\ Answer(r, paced.go)
  BY <1>1
<1> HIDE DEF scope, kept, ages
<1>6. Table(kept) /\ Spaced(kept)
  BY <1>4, PartKept DEF Inv
<1>7. /\ Table(permits') /\ OthersLeft(kept, permits', r)
      /\ r \in DOMAIN permits' => \/ Stands(kept, permits', r, skew[r])
                                 \/ Promised(kept, permits', ages, r, scope, interval, skew[r])
      /\ r \in DOMAIN permits' /\ ~paced.go => permits'[r].left > -skew[r]
  BY <1>2, <1>3, <1>5, <1>6, PacedFacts
<1>8. OthersLeft(permits, permits', r)
  BY <1>4, <1>7 DEF OthersLeft, Part
<1> HIDE DEF paced
<1>9. r \in DOMAIN permits' /\ ~paced.go =>
          permits'[r].left \in Int /\ permits'[r].left + MaxSkew > 0
  <2> SUFFICES ASSUME r \in DOMAIN permits', ~paced.go
               PROVE  permits'[r].left \in Int /\ permits'[r].left + MaxSkew > 0
    OBVIOUS
  <2> DEFINE left == permits'[r].left
  <2>1. left \in Int /\ left > -skew[r]
    BY <1>7, PermitFacts DEF Table
  <2> HIDE DEF left
  <2>2. left \in Int /\ left + MaxSkew > 0
    BY <2>1, WaitingFacts
  <2> QED BY <2>2 DEF left
<1>10. ASSUME r \in Waiting(permits')
       PROVE  \/ r \in Waiting(permits) /\ permits'[r] = permits[r]
              \/ PromiseTo(r, permits'[r].scope, skew[r])
  <2>1. CASE Stands(kept, permits', r, skew[r])
    BY <1>4, <1>10, <2>1 DEF Stands, Part, Waiting
  <2>2. CASE Promised(kept, permits', ages, r, scope, interval, skew[r])
    <3>1. permits'[r].scope = scope
          /\ (r \notin DOMAIN kept \/ r \in Expired(kept, skew[r]) \/ ~SameScope(kept[r].scope, scope))
      BY <2>2 DEF Promised
    <3>2. r \in DOMAIN kept => kept[r] = permits[r]
      BY <1>4 DEF Part
    <3>3. r \in Expired(kept, skew[r]) => r \in Expired(permits, skew[r])
      BY <1>4, <3>2 DEF Expired, Waiting
    <3>4. r \notin DOMAIN kept => r \notin Waiting(permits) \/ r \in Voided(permits, scope)
      BY <1>4 DEF Waiting
    <3>5. r \in DOMAIN kept => (~SameScope(kept[r].scope, scope) => ~SameScope(permits[r].scope, scope))
      BY <3>2
    <3>6. PromiseTo(r, scope, skew[r])
      BY <3>1, <3>3, <3>4, <3>5 DEF PromiseTo
    <3> QED BY <3>1, <3>6
  <2> QED BY <1>7, <1>10, <2>1, <2>2 DEF Waiting
<1> QED BY <1>2, <1>5, <1>8, <1>9, <1>10

\* Every answer leaves everybody timely.
LEMMA TimelyAssess ==
  ASSUME Inv, AllTimely, NEW r \in Request,
         \/ AssessPaced(r) \/ AssessUnpaced(r) \/ AssessRecheck(r) \/ AssessBlocked(r)
         \/ AssessOff(r)
  PROVE  AllTimely'
<1>1. CASE AssessPaced(r)
  <2>1. PICK go : /\ Answer(r, go)
                  /\ r \in DOMAIN permits' /\ ~go =>
                         permits'[r].left \in Int /\ permits'[r].left + MaxSkew > 0
    BY <1>1, PacedAnswer
  <2>2. r \in Waiting(permits') => r \in DOMAIN permits'
    BY DEF Waiting
  <2>3. Assessing(r) /\ OthersLeft(permits, permits', r)
    BY <1>1, PacedAnswer
  <2> QED BY <2>1, <2>2, <2>3, TimelyAnswer
<1>2. CASE AssessUnpaced(r) \/ AssessRecheck(r)
  BY <1>2, OtherParts, TimelyPart
<1>3. CASE AssessBlocked(r)
  <2>1. Assessing(r) /\ permits' = permits /\ \E go : Answer(r, go)
    BY <1>3 DEF AssessBlocked
  <2>2. Part(permits', permits)
    BY <2>1 DEF Part
  <2> QED BY <2>1, <2>2, TimelyPart
<1>4. CASE AssessOff(r)
  <2>1. Assessing(r) /\ Cleared /\ Answer(r, TRUE)
    BY <1>4 DEF AssessOff
  <2> QED BY <2>1, ClearedFacts, TimelyPart
<1> QED BY <1>1, <1>2, <1>3, <1>4

\* A call within its budget finds its permit unexpired.
LEMMA TimelyCall ==
  ASSUME Inv, AllTimely, MaxSkew <= 2, NEW r \in Request, Call(r)
  PROVE  AllTimely'
<1>1. /\ phase[r] \in {"new", "waiting", "sent"} /\ deadline[r] > 0
      /\ phase' = [phase EXCEPT ![r] = "assessing"]
      /\ UNCHANGED <<permits, skew, deadline>>
  BY DEF Call
<1>2. /\ phase'[r] = "assessing" /\ \A q \in Request \ {r} : phase'[q] = phase[q]
  BY <1>1 DEF Inv, Rest
<1>3. ASSUME NEW q \in Request \ {r} PROVE Timely(q)'
  <2>1. phase'[q] = phase[q] /\ Timely(q)
    BY <1>2 DEF AllTimely
  <2> QED BY <1>1, <2>1 DEF Timely, Waiting, Holders, Assessing
<1>4. ASSUME r \in Waiting(permits)
      PROVE  Budgeted(permits[r].left, deadline[r]) /\ permits[r].left + MaxWait + skew[r] >= 0
  <2>1. Timely(r)
    BY DEF AllTimely
  <2>2. phase[r] = "waiting" /\ Budgeted(permits[r].left, deadline[r]) /\ skew[r] = 0
    BY <1>1, <1>4, <2>1 DEF Timely, Waiting, Holders, Assessing
  <2>3. permits[r].left \in Int /\ permits[r].left + MaxWait + MaxSkew > deadline[r]
    BY <1>1, <1>4, <2>2, WaitingFacts DEF Budgeted
  <2>4. permits[r].left + MaxWait + skew[r] >= 0
    BY <1>1, <2>2, <2>3, WaitingFacts
  <2> QED BY <2>2, <2>4
<1>5. Timely(r)'
  BY <1>1, <1>2, <1>4 DEF Timely, Waiting, Assessing
<1> QED BY <1>3, <1>5 DEF AllTimely

\* A dispatch uses the permit up, a completed execution has none.
LEMMA TimelyEnd ==
  ASSUME Inv, AllTimely, NEW r \in Request, Dispatch(r) \/ Complete(r)
  PROVE  AllTimely'
<1>1. /\ phase'[r] \in {"sent", "late", "over"} /\ (phase'[r] = "late" => phase[r] = "assessing")
      /\ (phase'[r] # "late" => ~Assessing(r))
      /\ \A q \in Request \ {r} : phase'[q] = phase[q]
      /\ \A q \in Request \ {r} : deadline'[q] = deadline[q]
      /\ UNCHANGED skew /\ (phase'[r] = "sent" => Dispatch(r))
  BY DEF Dispatch, Complete, Inv, Rest, Assessing
<1>2. OthersLeft(permits, permits', r) /\ (Dispatch(r) => r \notin Waiting(permits'))
  <2>1. CASE Dispatch(r)
    <3>1. CASE Uses(r)
      <4>1. permits' = [permits EXCEPT ![r] = Used(@)] /\ r \in DOMAIN permits
        BY <2>1, <3>1 DEF Dispatch, Uses, Holders
      <4>2. Used(permits[r]).dispatched
        BY <4>1, UsedFacts DEF Inv, Table
      <4> QED BY <4>1, <4>2 DEF OthersLeft, Waiting
    <3>2. CASE ~Uses(r)
      BY <2>1, <3>2 DEF Dispatch, Uses, OthersLeft, Waiting, Holders
    <3> QED BY <3>1, <3>2
  <2>2. CASE Complete(r)
    <3>1. Part(permits', permits)
      BY <2>2, WithoutFacts DEF Complete, Freed
    <3>2. ~Dispatch(r)
      BY <2>2 DEF Complete, Dispatch, Inv, Rest
    <3> QED BY <3>1, <3>2 DEF Part, OthersLeft
  <2> QED BY <2>1, <2>2
<1>3. ASSUME NEW q \in Request \ {r} PROVE Timely(q)'
  <2>1. q \in DOMAIN permits' => q \in DOMAIN permits /\ permits'[q] = permits[q]
    BY <1>2 DEF OthersLeft
  <2>2. Timely(q)
    BY DEF AllTimely
  <2>3. phase'[q] = phase[q] /\ skew'[q] = skew[q] /\ deadline'[q] = deadline[q]
    BY <1>1
  <2> QED BY <2>1, <2>2, <2>3 DEF Timely, Waiting, Holders, Assessing
<1>4. Timely(r)'
  <2>1. Timely(r)
    BY DEF AllTimely
  <2> QED BY <1>1, <1>2, <2>1 DEF Timely, Assessing
<1> QED BY <1>3, <1>4 DEF AllTimely

\* Time runs for the permit, the budget and the call alike.
LEMMA TimelyTick ==
  ASSUME Inv, AllTimely, Tick
  PROVE  AllTimely'
<1>1. /\ DOMAIN permits' = DOMAIN permits /\ \A q \in DOMAIN permits : permits'[q] = Later(permits[q])
      /\ UNCHANGED phase
      /\ skew' = [r \in Request |-> IF Assessing(r) THEN skew[r] + 1 ELSE 0]
      /\ deadline' = [r \in Request |->
            IF deadline[r] = NoDeadline THEN NoDeadline ELSE Max({deadline[r] - 1, 0})]
  BY DEF Tick, Later, Holders
<1> SUFFICES ASSUME NEW r \in Request PROVE Timely(r)'
  BY DEF AllTimely
<1>2. Timely(r)
  BY DEF AllTimely
<1>3. ASSUME r \in Waiting(permits')
      PROVE  /\ r \in Waiting(permits)
             /\ permits[r].left \in Int /\ permits'[r].left \in Int
             /\ permits'[r].left >= permits[r].left - 1
  <2>1. permits[r] \in Permit /\ permits'[r] = Later(permits[r])
    BY <1>1, <1>3 DEF Waiting, Inv, Table
  <2>2. Later(permits[r]) \in Permit
    BY <2>1, LaterFacts
  <2> QED BY <1>1, <1>3, <2>1, <2>2, LaterFacts, PermitFacts DEF Waiting
<1>4. deadline[r] # NoDeadline => deadline'[r] \in Nat /\ deadline'[r] # NoDeadline
                                 /\ (deadline'[r] > 0 => deadline'[r] = deadline[r] - 1)
  <2> SUFFICES ASSUME deadline[r] # NoDeadline
               PROVE  deadline'[r] \in Nat /\ deadline'[r] # NoDeadline
                      /\ (deadline'[r] > 0 => deadline'[r] = deadline[r] - 1)
    OBVIOUS
  <2>1. deadline[r] \in Nat /\ NoDeadline \in Nat /\ deadline[r] <= NoDeadline /\ NoDeadline > 0
    BY WaitingFacts DEF NoDeadline
  <2>2. deadline'[r] = Max({deadline[r] - 1, 0})
    BY <1>1
  <2> DEFINE n == deadline[r] - 1
  <2>3. n \in Int /\ n < NoDeadline
    BY <2>1
  <2>4. deadline'[r] = IF n >= 0 THEN n ELSE 0
    <3> HIDE DEF n
    <3>1. Max({n, 0}) = IF n >= 0 THEN n ELSE 0
      BY <2>3, PairFacts
    <3> QED BY <2>2, <3>1 DEF n
  <2> QED BY <2>1, <2>3, <2>4
<1>5. ASSUME r \in Waiting(permits'), phase[r] \in {"waiting", "assessing"}
      PROVE  Budgeted(permits'[r].left, deadline'[r])
  <2>1. Budgeted(permits[r].left, deadline[r])
    BY <1>2, <1>3, <1>5 DEF Timely
  <2> QED BY <1>3, <1>4, <1>5, <2>1, WaitingFacts DEF Budgeted
<1>6. ASSUME r \in Waiting(permits'), phase[r] = "assessing"
      PROVE  permits'[r].left + MaxWait + skew'[r] >= 0
  <2>1. permits[r].left + MaxWait + skew[r] >= 0
    BY <1>2, <1>3, <1>6 DEF Timely
  <2>2. skew'[r] = skew[r] + 1
    BY <1>1, <1>6 DEF Assessing
  <2> QED BY <1>3, <1>6, <2>1, <2>2, WaitingFacts
<1> QED BY <1>1, <1>2, <1>3, <1>5, <1>6 DEF Timely, Assessing, Holders

\* The remaining steps take no permit's time.
LEMMA TimelyQuiet ==
  ASSUME Inv, AllTimely,
         (\E c \in Credential : Observe(c)) \/ Configure \/ Prune \/ UNCHANGED vars
  PROVE  AllTimely'
<1>1. UNCHANGED <<phase, skew, deadline>>
  BY DEF Observe, Configure, Prune, vars
<1>2. Part(permits', permits)
  <2>1. CASE Configure
    BY <2>1, ClearedFacts DEF Configure
  <2>2. CASE ~Configure
    BY <2>2 DEF Observe, Prune, vars, Part
  <2> QED BY <2>1, <2>2
<1>3. ASSUME NEW r \in Request PROVE Timely(r)'
  <2>1. Timely(r)
    BY DEF AllTimely
  <2> QED BY <1>1, <1>2, <2>1 DEF Timely, Part, Waiting, Holders, Assessing
<1> QED BY <1>3 DEF AllTimely

\* Together the invariants are kept.
LEMMA TimelyStep ==
  ASSUME MaxSkew <= 2, Inv, AllTimely, [Next]_vars
  PROVE  AllTimely'
<1>1. CASE UNCHANGED vars
  BY <1>1, TimelyQuiet
<1>2. CASE Next
  BY <1>2, TimelyAssess, TimelyCall, TimelyEnd, TimelyTick, TimelyQuiet DEF Next
<1> QED BY <1>1, <1>2

\* Nobody waits for anything at first.
LEMMA TimelyInit == Init => AllTimely
<1> SUFFICES ASSUME Init PROVE AllTimely
  OBVIOUS
<1>1. Holders = {} /\ Waiting(permits) = {}
  BY DEF Init, Holders, Waiting
<1> QED BY <1>1 DEF Init, AllTimely, Timely

\* A waiting permit that stays waiting is not moved to a later time, but by a promise.
LEMMA LeftKept ==
  ASSUME Inv, [Next]_vars, NEW r \in Request, r \in Waiting(permits), r \in Waiting(permits'),
         permits'[r].left > permits[r].left
  PROVE  AssessPaced(r)
<1>1. permits[r].left \in Int
  BY WaitingFacts
<1>2. ~Part(permits', permits) /\ \A q \in Request : q # r => ~OthersLeft(permits, permits', q)
  BY <1>1 DEF Part, OthersLeft, Waiting
<1>3. CASE UNCHANGED vars
  BY <1>2, <1>3 DEF vars, Part
<1>4. ASSUME NEW q \in Request, AssessPaced(q), ~AssessPaced(r) PROVE FALSE
  BY <1>2, <1>4, PacedAnswer
<1>5. ASSUME NEW q \in Request, AssessUnpaced(q) \/ AssessRecheck(q) PROVE FALSE
  BY <1>2, <1>5, OtherParts
<1>6. ASSUME NEW q \in Request, Call(q) \/ AssessBlocked(q) PROVE FALSE
  BY <1>2, <1>6 DEF Call, AssessBlocked, Part
<1>7. ASSUME (\E q \in Request : AssessOff(q)) \/ Configure PROVE FALSE
  BY <1>2, <1>7, ClearedFacts DEF AssessOff, Configure
<1>8. ASSUME NEW q \in Request, Complete(q) PROVE FALSE
  BY <1>2, <1>8, WithoutFacts DEF Complete, Freed
<1>9. ASSUME NEW q \in Request, Dispatch(q) PROVE FALSE
  <2>1. CASE Uses(q)
    <3>1. permits' = [permits EXCEPT ![q] = Used(@)] /\ q \in DOMAIN permits
      BY <1>9, <2>1 DEF Dispatch, Uses, Holders
    <3>2. Used(permits[q]).dispatched
      BY <3>1, UsedFacts DEF Inv, Table
    <3>3. q # r
      BY <3>1, <3>2 DEF Waiting
    <3> QED BY <1>2, <3>1, <3>3 DEF OthersLeft
  <2>2. CASE ~Uses(q)
    BY <1>2, <1>9, <2>2 DEF Dispatch, Part
  <2> QED BY <2>1, <2>2
<1>10. ASSUME (\E c \in Credential : Observe(c)) \/ Prune PROVE FALSE
  BY <1>2, <1>10 DEF Observe, Prune, Part
<1>11. ASSUME Tick PROVE FALSE
  <2>1. permits'[r] = Later(permits[r])
    BY <1>11 DEF Tick, Later, Holders, Waiting
  <2>2. permits[r] \in Permit /\ ~permits[r].dispatched
    BY DEF Inv, Table, Waiting
  <2>3. Later(permits[r]).left <= permits[r].left /\ Later(permits[r]) \in Permit
    BY <2>2, LaterFacts
  <2> QED BY <1>1, <2>1, <2>3, PermitFacts
<1> QED BY <1>3, <1>4, <1>5, <1>6, <1>7, <1>8, <1>9, <1>10, <1>11 DEF Next

\* An execution that comes back in time, to the pool it has a permit for, finds that permit:
\* pace keeps a reservation that matches, and pruneExpiredReservations leaves it alone for a
\* maximum wait, which is what the host's budget lasts.  Between the clock reading and the
\* answer the lock must be given within two units of time: a longer hold moves the start of
\* the budget, not that of the expiry.
THEOREM NobodyLosesHisPlace == ASSUME MaxSkew <= 2 PROVE Spec => NobodyIsPostponed
<1>1. ASSUME Inv, AllTimely, [Next]_vars, NEW r \in Request PROVE ~Postponed(r)
  <2> SUFFICES ASSUME Postponed(r) PROVE FALSE
    OBVIOUS
  <2>1. /\ phase[r] = "assessing" /\ r \in Waiting(permits) /\ r \in Waiting(permits')
        /\ SameScope(permits[r].scope, permits'[r].scope)
        /\ DOMAIN permits[r].scope \cap Changed(permits'[r].scope) = {}
        /\ permits'[r].left > permits[r].left
    BY DEF Postponed
  <2>2. AssessPaced(r)
    BY <1>1, <2>1, LeftKept
  <2>3. permits'[r] # permits[r]
    BY <1>1, <2>1, WaitingFacts
  <2>4. PromiseTo(r, permits'[r].scope, skew[r])
    BY <1>1, <2>1, <2>2, <2>3, PacedAnswer
  <2>5. r \notin Voided(permits, permits'[r].scope)
    BY <2>1 DEF Voided
  <2>6. permits[r].left + MaxWait < -skew[r]
    BY <2>1, <2>4, <2>5 DEF PromiseTo, Expired
  <2>7. permits[r].left + MaxWait + skew[r] >= 0
    BY <1>1, <2>1 DEF AllTimely, Timely
  <2> QED BY <1>1, <2>1, <2>6, <2>7, WaitingFacts
<1>2. Inv /\ AllTimely /\ [Next]_vars => [\A r \in Request : ~Postponed(r)]_vars
  BY <1>1
<1>3. Inv /\ AllTimely /\ [Next]_vars => AllTimely'
  BY TimelyStep
<1> QED BY <1>2, <1>3, InvHolds, TimelyInit, PTL DEF Spec, NobodyIsPostponed
=============================================================================
