---------------------------- MODULE Warmup_proofs ----------------------------
(***************************************************************************)
(* Proofs about Warmup for any instances, windows, delays and budgets:     *)
(* types, that the budget is kept, that requests keep their distance, and  *)
(* that no outcome is lost.                                                *)
(*                                                                         *)
(* The invariant has five parts.  Base is types and the numbering of       *)
(* attempts.  Locking says who may hold the lock.  Ledgers follows every   *)
(* attempt that may have been sent into the ledger of the file and of the  *)
(* owner.  Remembered says that the rows of file and journal, and those of *)
(* the owner's memory and journal, stand in the way of a repetition.       *)
(* InFlight says what is told of the attempt a worker has under way, so    *)
(* that its outcome is remembered wherever it is written.                  *)
(***************************************************************************)
EXTENDS Warmup, TLAPS, FiniteSetTheorems, WellFoundedInduction

(* Least and greatest numbers.                                              *)

SmallerThan == {p \in Nat \X Nat : p[1] < p[2]}

\* Numbers have no infinite descent.
LEMMA SmallerIsWellFounded == IsWellFoundedOn(SmallerThan, Nat)
<1>1. OpToRel(<, Nat) = SmallerThan
  BY Zenon DEF OpToRel, SmallerThan
<1> QED BY <1>1, NatLessThanWellFounded

\* A set of natural numbers with a member has a least one.
LEMMA LeastExists ==
  ASSUME NEW S, S \subseteq Nat, S # {}
  PROVE  \E m \in S : \A n \in S : m <= n
<1>1. PICK m \in S : \A n \in S : <<n, m>> \notin SmallerThan
  BY SmallerIsWellFounded, WFMin
<1>2. ASSUME NEW n \in S PROVE m <= n
  <2> DEFINE p == <<n, m>>
  <2>1. p \in Nat \X Nat /\ p[1] = n /\ p[2] = m
    BY Zenon
  <2> HIDE DEF p
  <2>2. ~(p[1] < p[2])
    BY <1>1, <2>1 DEF p, SmallerThan
  <2>3. n \in Nat /\ m \in Nat
    OBVIOUS
  <2> QED BY <2>1, <2>2, <2>3
<1> QED BY <1>2

\* A bounded one has a greatest.
LEMMA GreatestExists ==
  ASSUME NEW u \in Nat, NEW S, S \subseteq 0..u, S # {}
  PROVE  \E m \in S : \A n \in S : n <= m
<1> DEFINE D == {u - x : x \in S}
<1>1. D \subseteq Nat /\ D # {}
  <2>1. \A x \in S : u - x \in Nat
    OBVIOUS
  <2> QED BY <2>1
<1>2. PICK m \in D : \A n \in D : m <= n
  <2> HIDE DEF D
  <2> QED BY <1>1, LeastExists
<1>3. PICK y \in S : m = u - y
  OBVIOUS
<1>4. ASSUME NEW x \in S PROVE x <= y
  <2>1. u - x \in D
    OBVIOUS
  <2>2. u - y <= u - x
    BY <1>2, <1>3, <2>1
  <2> QED BY <2>2
<1> QED BY <1>4

\* The numbers of the policy.
LEMMA Numbers ==
  /\ Horizon \in Nat /\ MaxAttempt \in Nat /\ MaxPerDay \in Nat /\ FailureLimit \in Nat
  /\ FailureLimit >= 1 /\ Uncertain \in Nat /\ Uncertain >= 1 /\ Uncertain <= Horizon
  /\ Retry \in Nat /\ Interval \in Nat /\ Day \in Nat
  /\ \A v \in Window : Length[v] \in Nat /\ Length[v] >= 1 /\ Length[v] <= Horizon
  /\ \A v \in Window : Rank[v] \in Nat
  /\ NoInstance \notin Instance
<1>1. /\ Horizon \in Nat /\ MaxAttempt \in Nat /\ MaxPerDay \in Nat \ {0}
      /\ FailureLimit \in Nat \ {0} /\ Uncertain \in 1..Horizon /\ Retry \in 1..Uncertain
      /\ Interval \in 0..Horizon /\ Day \in 1..Horizon /\ Length \in [Window -> 1..Horizon]
      /\ Rank \in [Window -> Nat] /\ NoInstance \notin Instance
  BY WarmupAssumption
<1> QED BY <1>1
-----------------------------------------------------------------------------
(* Rows and documents.                                                      *)

Row == [attempt : 0..MaxAttempt, state : State, until : 0..Horizon, failures : 0..FailureLimit]

\* The parts of a row; a phase is one of three.
LEMMA RowFacts ==
  /\ Rows = [Window -> Row]
  /\ Documents = [rows : Rows, ledger : SUBSET Attempt]
  /\ NoRow \in Row /\ NoRow.attempt = 0 /\ NoRow.state = "pending" /\ ~Blocked(NoRow)
  /\ Empty \in Documents /\ Empty.ledger = {} /\ \A v \in Window : Empty.rows[v] = NoRow
  /\ \A r \in Row : /\ r.attempt \in Nat /\ r.attempt <= MaxAttempt /\ r.until \in Nat
                    /\ r.until <= Horizon /\ r.failures \in Nat /\ r.failures <= FailureLimit
                    /\ r.state \in State /\ Phase(r) \in 0..2
                    /\ (r.attempt # 0 => r.attempt \in Attempt)
<1>1. Rows = [Window -> Row] /\ Documents = [rows : Rows, ledger : SUBSET Attempt]
  BY DEF Rows, Row, Documents
<1>2. NoRow \in Row /\ NoRow.attempt = 0 /\ NoRow.state = "pending" /\ ~Blocked(NoRow)
  BY Numbers DEF NoRow, Row, State, Blocked
<1>3. Empty \in Documents /\ Empty.ledger = {} /\ \A v \in Window : Empty.rows[v] = NoRow
  BY <1>1, <1>2 DEF Empty
<1>4. ASSUME NEW r \in Row
      PROVE  /\ r.attempt \in Nat /\ r.attempt <= MaxAttempt /\ r.until \in Nat
             /\ r.until <= Horizon /\ r.failures \in Nat /\ r.failures <= FailureLimit
             /\ r.state \in State /\ Phase(r) \in 0..2
             /\ (r.attempt # 0 => r.attempt \in Attempt)
  BY Numbers DEF Row, Phase, Attempt
<1> QED BY <1>1, <1>2, <1>3, <1>4

\* A document's known attempts are attempts; its ledger may be extended by them.
LEMMA LedgerFacts ==
  ASSUME NEW m \in Documents, NEW more \in SUBSET Attempt
  PROVE  /\ Known(m) \subseteq Attempt
         /\ WithLedger(m, more) \in Documents /\ WithLedger(m, more).rows = m.rows
         /\ WithLedger(m, more).ledger = m.ledger \cup more \cup Known(m)
<1>1. m \in [rows : Rows, ledger : SUBSET Attempt] /\ m.rows \in [Window -> Row]
  BY RowFacts
<1>2. Known(m) \subseteq Attempt
  BY <1>1, RowFacts DEF Known, Fresh
<1> DEFINE l == m.ledger \cup more \cup Known(m)
<1>3. l \in SUBSET Attempt
  BY <1>1, <1>2
<1>4. WithLedger(m, more) = [m EXCEPT !.ledger = l]
  BY DEF WithLedger
<1> HIDE DEF l
<1>5. [m EXCEPT !.ledger = l] \in [rows : Rows, ledger : SUBSET Attempt]
      /\ [m EXCEPT !.ledger = l].rows = m.rows /\ [m EXCEPT !.ledger = l].ledger = l
  BY <1>1, <1>3
<1> QED BY <1>2, <1>4, <1>5, RowFacts DEF l

\* Merging takes for each window a row of one of the maps, and none is newer.
LEMMA MergedFacts ==
  ASSUME NEW S, S \subseteq Rows, S # {}
  PROVE  /\ Merged(S) \in Rows
         /\ \A v \in Window : /\ \E R \in S : Merged(S)[v] = R[v]
                              /\ \A R \in S : ~Newer(R[v], Merged(S)[v])
<1>1. ASSUME NEW v \in Window
      PROVE  /\ \E R \in S : Merged(S)[v] = R[v]
             /\ \A R \in S : ~Newer(R[v], Merged(S)[v])
  <2> DEFINE X == {R[v] : R \in S}
  <2>1. X \subseteq Row /\ X # {}
    BY RowFacts
  <2> HIDE DEF X
  <2>2. PICK n1 \in {r.attempt : r \in X} : \A n \in {r.attempt : r \in X} : n <= n1
    <3>1. {r.attempt : r \in X} \subseteq 0..MaxAttempt /\ {r.attempt : r \in X} # {}
      BY <2>1, RowFacts, Numbers
    <3> QED BY <3>1, Numbers, GreatestExists
  <2> DEFINE X1 == {r \in X : r.attempt = n1}
  <2>3. X1 # {} /\ X1 \subseteq X
    BY <2>2
  <2> HIDE DEF X1
  <2>4. PICK n2 \in {Phase(r) : r \in X1} : \A n \in {Phase(r) : r \in X1} : n <= n2
    <3>1. {Phase(r) : r \in X1} \subseteq 0..2 /\ {Phase(r) : r \in X1} # {} /\ 2 \in Nat
      BY <2>1, <2>3, RowFacts
    <3> QED BY <3>1, GreatestExists
  <2> DEFINE X2 == {r \in X1 : Phase(r) = n2}
  <2>5. X2 # {} /\ X2 \subseteq X1
    BY <2>4
  <2> HIDE DEF X2
  <2>6. PICK n3 \in {r.failures : r \in X2} : \A n \in {r.failures : r \in X2} : n <= n3
    <3>1. {r.failures : r \in X2} \subseteq 0..FailureLimit /\ {r.failures : r \in X2} # {}
      BY <2>1, <2>3, <2>5, RowFacts, Numbers
    <3> QED BY <3>1, Numbers, GreatestExists
  <2>7. PICK r \in X2 : r.failures = n3
    BY <2>6
  <2>8. r \in X /\ r.attempt = n1 /\ Phase(r) = n2
    BY <2>3, <2>5, <2>7 DEF X1, X2
  <2>9. ASSUME NEW s \in X PROVE ~Newer(s, r)
    <3>1. s \in Row /\ r \in Row
      BY <2>1, <2>8
    <3>2. s.attempt <= r.attempt
      BY <2>2, <2>8
    <3>3. s.attempt = r.attempt => Phase(s) <= Phase(r)
      BY <2>4, <2>8 DEF X1
    <3>4. s.attempt = r.attempt /\ Phase(s) = Phase(r) => s.failures <= r.failures
      BY <2>6, <2>7, <2>8 DEF X1, X2
    <3> QED BY <3>1, <3>2, <3>3, <3>4, RowFacts DEF Newer
  <2>10. \E x \in X : \A R \in S : ~Newer(R[v], x)
    BY <2>8, <2>9 DEF X
  <2>11. Merged(S)[v] = CHOOSE x \in X : \A R \in S : ~Newer(R[v], x)
    BY DEF Merged, X
  <2>12. Merged(S)[v] \in X /\ \A R \in S : ~Newer(R[v], Merged(S)[v])
    BY <2>10, <2>11
  <2> QED BY <2>12 DEF X
<1>2. Merged(S) \in Rows
  <2>1. \A v \in Window : Merged(S)[v] \in Row
    BY <1>1, RowFacts
  <2>2. Merged(S) = [v \in Window |-> Merged(S)[v]]
    BY DEF Merged
  <2> QED BY <2>1, <2>2, RowFacts
<1> QED BY <1>1, <1>2

\* Pruning replaces rows that expired.
LEMMA PrunedFacts ==
  ASSUME NEW m \in Documents
  PROVE  /\ Pruned(m) \in Documents /\ Pruned(m).ledger = m.ledger
         /\ \A v \in Window : Pruned(m).rows[v] = IF Expired(m.rows[v]) THEN NoRow ELSE m.rows[v]
<1>1. m \in [rows : Rows, ledger : SUBSET Attempt] /\ m.rows \in [Window -> Row]
  BY RowFacts
<1> DEFINE rows == [v \in Window |-> IF Expired(m.rows[v]) THEN NoRow ELSE m.rows[v]]
<1>2. rows \in Rows /\ \A v \in Window : rows[v] = IF Expired(m.rows[v]) THEN NoRow ELSE m.rows[v]
  BY <1>1, RowFacts
<1>3. Pruned(m) = [m EXCEPT !.rows = rows]
  BY DEF Pruned
<1> HIDE DEF rows
<1>4. [m EXCEPT !.rows = rows] \in [rows : Rows, ledger : SUBSET Attempt]
      /\ [m EXCEPT !.rows = rows].rows = rows /\ [m EXCEPT !.rows = rows].ledger = m.ledger
  BY <1>1, <1>2
<1> QED BY <1>2, <1>3, <1>4, RowFacts

\* Loading takes the rows of the file where it has one.
LEMMA LoadedFacts ==
  ASSUME file \in Documents, NEW m \in Documents
  PROVE  /\ Loaded(m) \in Documents
         /\ \A v \in Window : Loaded(m).rows[v] =
                IF file.rows[v].attempt # 0 THEN file.rows[v] ELSE m.rows[v]
         /\ m.ledger \cup file.ledger \subseteq Loaded(m).ledger
         /\ Loaded(m).ledger \subseteq m.ledger \cup file.ledger \cup Known(m) \cup Known(file)
         /\ Known(Loaded(m)) \subseteq Loaded(m).ledger
<1>1. /\ m \in [rows : Rows, ledger : SUBSET Attempt] /\ m.rows \in [Window -> Row]
      /\ file \in [rows : Rows, ledger : SUBSET Attempt] /\ file.rows \in [Window -> Row]
  BY RowFacts
<1> DEFINE rows == [v \in Window |-> IF v \in Fresh(file) THEN file.rows[v] ELSE m.rows[v]]
           d == [m EXCEPT !.rows = rows]
<1>2. rows \in Rows
      /\ \A v \in Window : rows[v] = IF file.rows[v].attempt # 0 THEN file.rows[v] ELSE m.rows[v]
  BY <1>1, RowFacts DEF Fresh
<1>3. Loaded(m) = WithLedger(d, file.ledger)
  BY DEF Loaded
<1> HIDE DEF rows
<1>4. d \in Documents /\ d.rows = rows /\ d.ledger = m.ledger
  BY <1>1, <1>2, RowFacts
<1> HIDE DEF d
<1>5. file.ledger \in SUBSET Attempt
  BY <1>1
<1>6. /\ Loaded(m) \in Documents /\ Loaded(m).rows = rows
      /\ Loaded(m).ledger = m.ledger \cup file.ledger \cup Known(d)
  BY <1>3, <1>4, <1>5, LedgerFacts
<1>7. Known(d) \subseteq Known(m) \cup Known(file) /\ Known(Loaded(m)) = Known(d)
  BY <1>2, <1>4, <1>6 DEF Known, Fresh
<1> QED BY <1>2, <1>6, <1>7

\* A set of windows has a first.
LEMMA FirstFacts ==
  ASSUME NEW need \in Needs
  PROVE  First(need) \in need /\ need \subseteq Window
<1>1. need \subseteq Window /\ need # {}
  BY DEF Needs
<1>2. {Rank[w] : w \in need} \subseteq Nat /\ {Rank[w] : w \in need} # {}
  BY <1>1, Numbers
<1>3. PICK m \in {Rank[w] : w \in need} : \A n \in {Rank[w] : w \in need} : m <= n
  BY <1>2, LeastExists
<1>4. \E w \in need : \A v \in need : Rank[w] <= Rank[v]
  BY <1>3
<1> QED BY <1>1, <1>4 DEF First

\* What a failure delays.
LEMMA DelayFacts ==
  ASSUME NEW state, NEW n
  PROVE  DelayAfter(state, n) \in 0..Horizon
         /\ (state = "uncertain" => DelayAfter(state, n) >= Uncertain)
<1>1. Delay(n) \in 0..Horizon
  <2> DEFINE d == Retry * (2 ^ (n - 1))
  <2> HIDE DEF d
  <2>1. Delay(n) = IF d \in 1..Horizon THEN d ELSE Horizon
    BY DEF Delay, d
  <2> QED BY <2>1, Numbers
<1> QED BY <1>1, Numbers DEF DelayAfter

\* A failure is recorded in the row of the window it was sent for.
LEMMA AfterFailureFacts ==
  ASSUME NEW m \in Documents, NEW w, w.window \in Window, w.attempt \in Attempt,
         NEW state \in State, NEW final \in BOOLEAN
  PROVE  LET n == AfterFailure(m, w, state, final)
         IN  /\ n \in Documents /\ n.ledger = m.ledger
             /\ n.rows[w.window].attempt = w.attempt /\ n.rows[w.window].state = state
             /\ state = "uncertain" => n.rows[w.window].until >= Uncertain
             /\ \A v \in Window \ {w.window} : n.rows[v] = m.rows[v]
<1>1. m \in [rows : Rows, ledger : SUBSET Attempt] /\ m.rows \in [Window -> Row]
  BY RowFacts
<1> DEFINE k == FailuresAfter(m, w.window)
           f == IF final \/ k > FailureLimit THEN FailureLimit ELSE k
           row == [attempt |-> w.attempt, state |-> state, until |-> DelayAfter(state, k), failures |-> f]
<1>2. k \in Nat
  <2> DEFINE S == {m.rows[v].failures + 1 : v \in Window}
  <2>1. S \subseteq 0..(FailureLimit + 1) /\ S # {} /\ FailureLimit + 1 \in Nat
    BY <1>1, RowFacts, Numbers
  <2>2. \E x \in S : \A y \in S : y <= x
    <3> HIDE DEF S
    <3> QED BY <2>1, GreatestExists
  <2>3. \E x \in S : \A v \in Window : m.rows[v].failures + 1 <= x
    BY <2>2
  <2>4. k \in S
    BY <2>3 DEF FailuresAfter
  <2> QED BY <2>1, <2>4, Numbers
<1>3. f \in 0..FailureLimit
  BY <1>2, Numbers
<1> HIDE DEF k, f
<1>4. row \in Row /\ (state = "uncertain" => row.until >= Uncertain)
      /\ row.attempt = w.attempt /\ row.state = state
  <2>1. w.attempt \in 0..MaxAttempt
    BY DEF Attempt
  <2> QED BY <1>3, <2>1, DelayFacts DEF Row
<1>5. AfterFailure(m, w, state, final) = [m EXCEPT !.rows[w.window] = row]
  BY DEF AfterFailure, row, k, f
<1> HIDE DEF row
<1> DEFINE rows == [m.rows EXCEPT ![w.window] = row]
<1>6. rows \in Rows /\ rows[w.window] = row /\ \A v \in Window \ {w.window} : rows[v] = m.rows[v]
  BY <1>1, <1>4, RowFacts
<1>7. AfterFailure(m, w, state, final) = [m EXCEPT !.rows = rows]
  BY <1>1, <1>5
<1> HIDE DEF rows
<1>8. [m EXCEPT !.rows = rows] \in Documents /\ [m EXCEPT !.rows = rows].rows = rows
      /\ [m EXCEPT !.rows = rows].ledger = m.ledger
  BY <1>1, <1>6, RowFacts
<1> QED BY <1>4, <1>6, <1>7, <1>8

\* A success is recorded in the rows it covers; others lose their failures, unless blocked.
LEMMA AfterSuccessFacts ==
  ASSUME NEW m \in Documents, NEW w, w.window \in Window, w.attempt \in Attempt,
         w.need \subseteq Window
  PROVE  LET n == AfterSuccess(m, w)
         IN  /\ n \in Documents /\ n.ledger = m.ledger
             /\ Covers(m, w) \subseteq Window /\ w.window \in Covers(m, w)
             /\ \A v \in Covers(m, w) :
                    /\ n.rows[v].attempt = w.attempt /\ n.rows[v].state = "completed"
                    /\ n.rows[v].until = Length[v] /\ ~Blocked(n.rows[v])
             /\ \A v \in Window \ Covers(m, w) :
                    /\ n.rows[v].attempt = m.rows[v].attempt /\ n.rows[v].state = m.rows[v].state
                    /\ n.rows[v].until = m.rows[v].until
                    /\ ~Blocked(m.rows[v]) => ~Blocked(n.rows[v])
                    /\ m.rows[v] = NoRow => n.rows[v] = NoRow
<1>1. m \in [rows : Rows, ledger : SUBSET Attempt] /\ m.rows \in [Window -> Row]
  BY RowFacts
<1> DEFINE covers == Covers(m, w)
           row(v) == IF v \in covers
                     THEN [attempt |-> w.attempt, state |-> "completed", until |-> Length[v], failures |-> 0]
                     ELSE IF Blocked(m.rows[v]) THEN m.rows[v] ELSE [m.rows[v] EXCEPT !.failures = 0]
           rows == [v \in Window |-> row(v)]
<1>2. AfterSuccess(m, w) = [m EXCEPT !.rows = rows]
  BY DEF AfterSuccess
<1>3. covers \subseteq Window /\ w.window \in covers
  BY DEF Covers
<1> HIDE DEF covers
<1>4. ASSUME NEW v \in Window
      PROVE  /\ row(v) \in Row
             /\ v \in covers => /\ row(v).attempt = w.attempt /\ row(v).state = "completed"
                                /\ row(v).until = Length[v] /\ ~Blocked(row(v))
             /\ v \notin covers => /\ row(v).attempt = m.rows[v].attempt
                                   /\ row(v).state = m.rows[v].state
                                   /\ row(v).until = m.rows[v].until
                                   /\ ~Blocked(m.rows[v]) => ~Blocked(row(v))
                                   /\ m.rows[v] = NoRow => row(v) = NoRow
  <2>1. m.rows[v] \in Row /\ w.attempt \in 0..MaxAttempt
    BY <1>1 DEF Attempt
  <2>2. CASE v \in covers
    BY <2>1, <2>2, Numbers DEF Row, State, Blocked
  <2>3. CASE v \notin covers /\ Blocked(m.rows[v])
    BY <2>1, <2>3
  <2>4. CASE v \notin covers /\ ~Blocked(m.rows[v])
    <3>1. row(v) = [m.rows[v] EXCEPT !.failures = 0]
      BY <2>4
    <3>2. m.rows[v] = NoRow => row(v) = NoRow
      BY <3>1 DEF NoRow
    <3> QED BY <2>1, <2>4, <3>1, <3>2, Numbers DEF Row, Blocked
  <2> QED BY <2>2, <2>3, <2>4
<1> HIDE DEF row
<1>5. rows \in Rows /\ \A v \in Window : rows[v] = row(v)
  BY <1>4, RowFacts
<1> HIDE DEF rows
<1>6. [m EXCEPT !.rows = rows] \in Documents /\ [m EXCEPT !.rows = rows].rows = rows
      /\ [m EXCEPT !.rows = rows].ledger = m.ledger
  BY <1>1, <1>5, RowFacts
<1> QED BY <1>2, <1>3, <1>4, <1>5, <1>6 DEF covers

\* What clearing makes of a document: its ledger keeps what the rows told.
Without(m, gone) ==
    WithLedger([m EXCEPT !.rows = [w \in Window |-> IF w \in gone THEN NoRow ELSE m.rows[w]]],
               Known(m))

\* Clearing takes rows out and keeps the ledger.
LEMMA ClearFacts ==
  ASSUME NEW m \in Documents, NEW gone \in SUBSET Window, NEW n, n = Without(m, gone)
  PROVE  /\ n \in Documents /\ m.ledger \subseteq n.ledger /\ Known(n) \subseteq n.ledger
         /\ n.ledger \subseteq m.ledger \cup Known(m)
         /\ \A v \in Window : n.rows[v] = IF v \in gone THEN NoRow ELSE m.rows[v]
<1>1. m \in [rows : Rows, ledger : SUBSET Attempt] /\ m.rows \in [Window -> Row]
  BY RowFacts
<1> DEFINE rows == [w \in Window |-> IF w \in gone THEN NoRow ELSE m.rows[w]]
           d == [m EXCEPT !.rows = rows]
<1>2. rows \in Rows /\ \A v \in Window : rows[v] = IF v \in gone THEN NoRow ELSE m.rows[v]
  BY <1>1, RowFacts
<1>3. n = WithLedger(d, Known(m)) /\ Known(m) \in SUBSET Attempt
  <2>1. n = WithLedger(d, Known(m))
    BY DEF Without
  <2>2. {} \in SUBSET Attempt
    OBVIOUS
  <2> QED BY <2>1, <2>2, LedgerFacts
<1> HIDE DEF rows
<1>4. d \in Documents /\ d.rows = rows /\ d.ledger = m.ledger
  BY <1>1, <1>2, RowFacts
<1> HIDE DEF d
<1>5. n \in Documents /\ n.rows = rows /\ n.ledger = m.ledger \cup Known(m) \cup Known(d)
  BY <1>3, <1>4, LedgerFacts
<1>6. Known(n) = Known(d)
  BY <1>4, <1>5 DEF Known, Fresh
<1>7. Known(d) \subseteq Known(m)
  <2>1. \A v \in Window : d.rows[v].attempt # 0 => d.rows[v].attempt = m.rows[v].attempt
    BY <1>2, <1>4, RowFacts
  <2> QED BY <2>1 DEF Known, Fresh
<1> QED BY <1>2, <1>5, <1>6, <1>7

\* A pending row of attempt a that is not blocked.
PendingRow(r, a) == r.attempt = a /\ r.state = "pending" /\ r.until = Uncertain /\ ~Blocked(r)

\* What admission makes of a document: a pending row, and the ledger has it.
Admitted(m, w, a) ==
    [rows |-> [m.rows EXCEPT ![w] = [attempt |-> a, state |-> "pending", until |-> Uncertain,
                                     failures |-> m.rows[w].failures]],
     ledger |-> WithLedger(m, {a}).ledger]

\* Admission writes a pending row and the ledger.
LEMMA AdmitFacts ==
  ASSUME NEW m \in Documents, NEW w \in Window, NEW a \in Attempt, NEW n,
         m.rows[w].attempt # 0 => ~Blocked(m.rows[w]),
         m.rows[w].attempt = 0 => m.rows[w] = NoRow,
         n = Admitted(m, w, a)
  PROVE  /\ n \in Documents /\ PendingRow(n.rows[w], a)
         /\ \A v \in Window \ {w} : n.rows[v] = m.rows[v]
         /\ n.ledger = m.ledger \cup {a} \cup Known(m)
<1>1. m \in [rows : Rows, ledger : SUBSET Attempt] /\ m.rows \in [Window -> Row]
  BY RowFacts
<1> DEFINE row == [attempt |-> a, state |-> "pending", until |-> Uncertain,
                   failures |-> m.rows[w].failures]
<1>2. row \in Row /\ PendingRow(row, a)
  <2>1. ~Blocked(m.rows[w])
    BY RowFacts
  <2>2. m.rows[w] \in Row /\ a \in 0..MaxAttempt
    BY <1>1 DEF Attempt
  <2>3. row \in Row
    BY <2>2, Numbers DEF Row, State
  <2> QED BY <2>1, <2>3 DEF PendingRow, Blocked
<1> HIDE DEF row
<1>3. {a} \in SUBSET Attempt
  OBVIOUS
<1>4. /\ WithLedger(m, {a}).ledger \in SUBSET Attempt
      /\ WithLedger(m, {a}).ledger = m.ledger \cup {a} \cup Known(m)
  BY <1>3, LedgerFacts, RowFacts
<1> DEFINE rows == [m.rows EXCEPT ![w] = row]
<1>5. rows \in Rows /\ rows[w] = row /\ \A v \in Window \ {w} : rows[v] = m.rows[v]
  BY <1>1, <1>2, RowFacts
<1> DEFINE l == WithLedger(m, {a}).ledger
<1>6. n = [rows |-> rows, ledger |-> l]
  BY DEF row, Admitted
<1>7. l \in SUBSET Attempt
  BY <1>4
<1> HIDE DEF rows, l
<1>8. n \in [rows : Rows, ledger : SUBSET Attempt] /\ n.rows = rows /\ n.ledger = l
  BY <1>5, <1>6, <1>7
<1>9. n \in Documents
  BY <1>8, RowFacts
<1> QED BY <1>2, <1>4, <1>5, <1>8, <1>9 DEF l
-----------------------------------------------------------------------------
(* Types and numbering.                                                     *)

Flying == {"admitting", "admitted", "sent", "recorded"}
Steps == {"idle", "merged", "saved", "ready"} \cup Flying
Fates == {"none", "admitted", "sent", "rejected", "completed", "cleared"}
Worker == [at : Steps, attempt : 0..MaxAttempt, window : Window \cup {Idle.window},
           need : SUBSET Window]

Types ==
    /\ memory \in [Instance -> Documents] /\ file \in Documents /\ journal \subseteq Rows
    /\ up \subseteq Instance /\ owner \in up \cup {NoInstance}
    /\ worker \in [Instance -> Worker] /\ next \in 0..MaxAttempt
    /\ age \in [Attempt -> 0..Horizon] /\ fate \in [Attempt -> Fates]
    /\ covered \in [Attempt -> SUBSET Window] /\ volatile \subseteq Attempt
    /\ \A i \in Instance : worker[i].at \in Flying => /\ worker[i].window \in Window
                                                    /\ worker[i].attempt \in Attempt

\* A row tells of one of the first n attempts or is no row; a pending one is not blocked.
Good(r, n) == /\ r.attempt <= n
              /\ r.attempt = 0 => r = NoRow
              /\ r.state = "pending" => ~Blocked(r)
Sound(R, n) == \A v \in Window : Good(R[v], n)

Numbered ==
    /\ \A i \in Instance : Sound(memory[i].rows, next)
    /\ Sound(file.rows, next)
    /\ \A R \in journal : Sound(R, next)
    /\ \A i \in Instance : worker[i].attempt <= next
    /\ \A a \in Attempt : a > next => age[a] = 0 /\ fate[a] = "none"
    /\ \A a, b \in 1..next : a <= b => age[a] >= age[b]

Base == Types /\ Numbered

\* A worker that rests is one.
LEMMA IdleFacts == Idle \in Worker /\ Idle.at = "idle" /\ Idle.attempt = 0 /\ Idle.need = {}
<1> DEFINE c == CHOOSE w \in Window : TRUE
<1> HIDE DEF c
<1>1. Idle = [at |-> "idle", attempt |-> 0, window |-> c, need |-> {}]
  BY DEF Idle, c
<1> QED BY <1>1, Numbers DEF Worker, Steps, Flying

\* The end of a worker: who was superseded forgets what he knew.
LEMMA EndsFacts ==
  ASSUME Types, NEW i \in Instance, Ends(i)
  PROVE  /\ worker' = [worker EXCEPT ![i] = Idle]
         /\ memory' = memory \/ (owner # i /\ memory' = [memory EXCEPT ![i] = Empty])
         /\ up' \subseteq up /\ owner \in up' \cup {NoInstance}
         /\ worker' \in [Instance -> Worker] /\ worker'[i] = Idle
         /\ \A j \in Instance \ {i} : worker'[j] = worker[j]
         /\ memory' \in [Instance -> Documents]
         /\ \A j \in Instance : memory'[j] = memory[j] \/ (j = i /\ owner # i /\ memory'[j] = Empty)
<1>1. worker' = [worker EXCEPT ![i] = Idle]
  BY DEF Ends, GoTo
<1>2. (memory' = memory /\ up' = up) \/ (owner # i /\ memory' = [memory EXCEPT ![i] = Empty] /\ up' = up \ {i})
  BY DEF Ends, Learns
<1>3. /\ memory \in [Instance -> Documents] /\ worker \in [Instance -> Worker]
      /\ owner \in up \cup {NoInstance}
  BY DEF Types
<1>4. /\ worker' \in [Instance -> Worker] /\ worker'[i] = Idle
      /\ \A j \in Instance \ {i} : worker'[j] = worker[j]
  BY <1>1, <1>3, IdleFacts
<1>5. /\ memory' \in [Instance -> Documents]
      /\ \A j \in Instance : memory'[j] = memory[j] \/ (j = i /\ owner # i /\ memory'[j] = Empty)
  BY <1>2, <1>3, RowFacts
<1>6. up' \subseteq up /\ owner \in up' \cup {NoInstance}
  BY <1>2, <1>3
<1>7. memory' = memory \/ (owner # i /\ memory' = [memory EXCEPT ![i] = Empty])
  BY <1>2
<1> QED BY <1>1, <1>4, <1>5, <1>6, <1>7

\* A successful save writes rows and ledger of a document.
LEMMA SaveFacts ==
  ASSUME NEW i \in Instance, NEW m \in Documents, SaveOK(i, m)
  PROVE  /\ owner = i /\ file' \in Documents /\ file'.rows = m.rows
         /\ file'.ledger = m.ledger \cup Known(m) /\ volatile' = {}
<1>1. {} \in SUBSET Attempt
  OBVIOUS
<1> QED BY <1>1, LedgerFacts DEF SaveOK

\* What a success or failure makes of a document.
LEMMA BecomesFacts ==
  ASSUME fate \in [Attempt -> Fates], NEW a \in Attempt, NEW state \in State, Becomes(a, state)
  PROVE  /\ fate' \in [Attempt -> Fates] /\ \A b \in Attempt \ {a} : fate'[b] = fate[b]
         /\ fate'[a] = IF state \in {"completed", "confirmed"} THEN "completed"
                       ELSE IF state = "rejected" THEN "rejected"
                       ELSE IF state = "not_sent" THEN "admitted" ELSE "sent"
  BY DEF Becomes, Fates
-----------------------------------------------------------------------------
(* What each operation does.                                                *)

\* An instance learns a document; a worker moves.
LEMMA MoveFacts ==
  ASSUME Types, NEW i \in Instance
  PROVE  /\ \A d \in Documents : Learns(i, d) =>
                /\ memory' \in [Instance -> Documents] /\ memory'[i] = d
                /\ \A j \in Instance \ {i} : memory'[j] = memory[j]
         /\ \A w \in Worker : GoTo(i, w) =>
                /\ worker' \in [Instance -> Worker] /\ worker'[i] = w
                /\ \A j \in Instance \ {i} : worker'[j] = worker[j]
  BY DEF Types, Learns, GoTo

\* A worker between candidates.
LEMMA RestFacts ==
  ASSUME NEW at \in Steps
  PROVE  /\ [Idle EXCEPT !.at = at] \in Worker
         /\ [Idle EXCEPT !.at = at].at = at /\ [Idle EXCEPT !.at = at].attempt = 0
  BY IdleFacts DEF Worker

\* A worker in flight goes on.
LEMMA FlightFacts ==
  ASSUME NEW w \in Worker, NEW at \in Steps
  PROVE  /\ [w EXCEPT !.at = at] \in Worker /\ [w EXCEPT !.at = at].at = at
         /\ [w EXCEPT !.at = at].attempt = w.attempt /\ [w EXCEPT !.at = at].window = w.window
         /\ [w EXCEPT !.at = at].need = w.need
  BY DEF Worker

\* A worker in flight moves.
LEMMA GoesFacts ==
  ASSUME Types, NEW i \in Instance, NEW at \in Steps, GoTo(i, [worker[i] EXCEPT !.at = at])
  PROVE  /\ worker' \in [Instance -> Worker] /\ worker'[i].at = at
         /\ worker'[i].attempt = worker[i].attempt /\ worker'[i].window = worker[i].window
         /\ worker'[i].need = worker[i].need
         /\ \A j \in Instance \ {i} : worker'[j] = worker[j]
<1> DEFINE w == worker[i]
           x == [w EXCEPT !.at = at]
<1>1. w \in Worker
  BY DEF Types
<1> HIDE DEF w
<1>2. /\ x \in Worker /\ x.at = at /\ x.attempt = w.attempt /\ x.window = w.window
      /\ x.need = w.need
  BY <1>1, FlightFacts
<1>3. GoTo(i, x)
  BY DEF w
<1> HIDE DEF x
<1>4. /\ worker' \in [Instance -> Worker] /\ worker'[i] = x
      /\ \A j \in Instance \ {i} : worker'[j] = worker[j]
  BY <1>2, <1>3, MoveFacts
<1> QED BY <1>2, <1>4 DEF w

\* The rows that are merged.
Sources(i) == {memory[i].rows, file.rows} \cup journal

\* Acquire: the owner knows what file and journal tell.
LEMMA AcquireEffect ==
  ASSUME Types, NEW i \in Instance, Acquire(i)
  PROVE  /\ i \in up /\ owner = i /\ \A j \in Instance : worker[j].at = "idle"
         /\ memory' \in [Instance -> Documents]
         /\ \A j \in Instance \ {i} : memory'[j] = memory[j] /\ worker'[j] = worker[j]
         /\ memory'[i].rows = Merged(Sources(i))
         /\ memory'[i].ledger = memory[i].ledger \cup file.ledger \cup Known(memory'[i])
         /\ worker' \in [Instance -> Worker] /\ worker'[i].attempt = 0
         /\ worker'[i].at \in {"merged", "ready"}
<1>1. /\ memory[i] \in [rows : Rows, ledger : SUBSET Attempt]
      /\ file \in [rows : Rows, ledger : SUBSET Attempt] /\ journal \subseteq Rows
  BY RowFacts DEF Types
<1> DEFINE d == [memory[i] EXCEPT !.rows = Merged(Sources(i))]
<1>2. Sources(i) \subseteq Rows /\ Sources(i) # {}
  BY <1>1 DEF Sources
<1>3. d \in Documents /\ d.rows = Merged(Sources(i)) /\ d.ledger = memory[i].ledger
  BY <1>1, <1>2, MergedFacts, RowFacts
<1>4. Learns(i, WithLedger(d, file.ledger))
  BY DEF Acquire, Sources
<1> HIDE DEF d
<1>5. file.ledger \in SUBSET Attempt
  BY <1>1
<1> DEFINE n == WithLedger(d, file.ledger)
<1>6. n \in Documents /\ n.rows = d.rows /\ n.ledger = d.ledger \cup file.ledger \cup Known(d)
  BY <1>3, <1>5, LedgerFacts
<1>7. Known(n) = Known(d)
  BY <1>6 DEF Known, Fresh
<1> HIDE DEF n
<1>8. memory' \in [Instance -> Documents] /\ memory'[i] = n
      /\ \A j \in Instance \ {i} : memory'[j] = memory[j]
  BY <1>4, <1>6, MoveFacts DEF n
<1>9. PICK at \in {"merged", "ready"} : GoTo(i, [Idle EXCEPT !.at = at])
  BY DEF Acquire
<1>10. at \in Steps
  BY DEF Steps
<1>11. /\ worker' \in [Instance -> Worker] /\ worker'[i].attempt = 0 /\ worker'[i].at = at
       /\ \A j \in Instance \ {i} : worker'[j] = worker[j]
  BY <1>9, <1>10, RestFacts, MoveFacts
<1>12. i \in up /\ owner = i /\ \A j \in Instance : worker[j].at = "idle"
  BY DEF Acquire, LockFree
<1>13. /\ memory'[i].rows = Merged(Sources(i))
       /\ memory'[i].ledger = memory[i].ledger \cup file.ledger \cup Known(memory'[i])
  BY <1>3, <1>6, <1>7, <1>8
<1> QED BY <1>8, <1>9, <1>11, <1>12, <1>13

\* Admit: the window's row is pending, the others are pruned.
LEMMA AdmitEffect ==
  ASSUME Base, NEW i \in Instance, NEW need \in Needs, Admit(i, need)
  PROVE  /\ worker[i].at = "ready" /\ next' = next + 1 /\ next' \in Attempt
         /\ memory' \in [Instance -> Documents] /\ worker' \in [Instance -> Worker]
         /\ \A j \in Instance \ {i} : memory'[j] = memory[j] /\ worker'[j] = worker[j]
         /\ worker'[i].at = "admitting" /\ worker'[i].attempt = next' /\ worker'[i].window \in Window
         /\ Allowed(Pruned(memory[i]), worker'[i].window)
         /\ PendingRow(memory'[i].rows[worker'[i].window], next')
         /\ \A v \in Window \ {worker'[i].window} : memory'[i].rows[v] = Pruned(memory[i]).rows[v]
         /\ memory'[i].ledger = memory[i].ledger \cup {next'} \cup Known(Pruned(memory[i]))
<1>1. memory[i] \in Documents /\ next \in 0..MaxAttempt /\ Sound(memory[i].rows, next)
  BY DEF Base, Types, Numbered
<1> DEFINE m == Pruned(memory[i])
           w == First(need)
           a == next + 1
           row == [attempt |-> a, state |-> "pending", until |-> Uncertain,
                   failures |-> m.rows[w].failures]
           n == [rows |-> [m.rows EXCEPT ![w] = row], ledger |-> WithLedger(m, {a}).ledger]
           x == [at |-> "admitting", attempt |-> a, window |-> w, need |-> need]
<1>2. /\ worker[i].at = "ready" /\ next < MaxAttempt /\ Allowed(m, w) /\ next' = a
      /\ Learns(i, n) /\ GoTo(i, x)
  BY DEF Admit
<1>3. a \in Attempt
  BY <1>1, <1>2, Numbers DEF Attempt
<1>4. m \in Documents /\ m.ledger = memory[i].ledger
      /\ \A v \in Window : m.rows[v] = IF Expired(memory[i].rows[v]) THEN NoRow ELSE memory[i].rows[v]
  BY <1>1, PrunedFacts
<1>5. w \in Window
  BY FirstFacts
<1> HIDE DEF m, w
<1>6. m.rows[w].attempt # 0 => ~Blocked(m.rows[w])
  BY <1>2, <1>5 DEF Allowed, RowsFree
<1>7. m.rows[w].attempt = 0 => m.rows[w] = NoRow
  BY <1>1, <1>4, <1>5 DEF Sound, Good
<1>8. /\ n \in Documents /\ PendingRow(n.rows[w], a)
      /\ \A v \in Window \ {w} : n.rows[v] = m.rows[v]
      /\ n.ledger = m.ledger \cup {a} \cup Known(m)
  <2>1. n = Admitted(m, w, a)
    BY DEF Admitted
  <2> HIDE DEF n, row, x, a
  <2> QED BY <1>3, <1>4, <1>5, <1>6, <1>7, <2>1, AdmitFacts
<1>9. /\ x \in Worker /\ x.at = "admitting" /\ x.attempt = a /\ x.window = w
  <2>1. a \in 0..MaxAttempt /\ need \subseteq Window
    BY <1>3, FirstFacts DEF Attempt
  <2> HIDE DEF a
  <2> QED BY <1>5, <2>1 DEF Worker, Steps, Flying
<1> HIDE DEF n, x, a
<1>10. /\ memory' \in [Instance -> Documents] /\ memory'[i] = n
       /\ worker' \in [Instance -> Worker] /\ worker'[i] = x
       /\ \A j \in Instance \ {i} : memory'[j] = memory[j] /\ worker'[j] = worker[j]
  BY <1>2, <1>8, <1>9, MoveFacts DEF Base
<1> QED BY <1>2, <1>3, <1>4, <1>5, <1>8, <1>9, <1>10 DEF m, a

\* Record: the outcome is in the memory; other rows keep what they tell.
LEMMA RecordEffect ==
  ASSUME Types, NEW i \in Instance, NEW state \in State \ {"pending", "confirmed"},
         NEW final \in BOOLEAN, Record(i, state, final)
  PROVE  /\ worker[i].at \in {"admitted", "sent"} /\ (state = "not_sent" <=> worker[i].at = "admitted")
         /\ memory' \in [Instance -> Documents] /\ worker' \in [Instance -> Worker]
         /\ \A j \in Instance \ {i} : memory'[j] = memory[j] /\ worker'[j] = worker[j]
         /\ memory'[i].ledger = memory[i].ledger
         /\ worker'[i].at = "recorded" /\ worker'[i].attempt = worker[i].attempt
         /\ worker'[i].window = worker[i].window
         /\ covered' \in [Attempt -> SUBSET Window]
         /\ \A b \in Attempt \ {worker[i].attempt} : covered'[b] = covered[b]
         /\ state = "completed" =>
                /\ memory'[i] = AfterSuccess(memory[i], worker[i])
                /\ covered'[worker[i].attempt] = Covers(memory[i], worker[i])
         /\ state # "completed" => memory'[i] = AfterFailure(memory[i], worker[i], state, final)
         /\ \/ SaveOK(i, memory'[i]) /\ Becomes(worker[i].attempt, state)
            \/ /\ owner = i /\ Becomes(worker[i].attempt, state)
               /\ file' = file /\ volatile' = volatile \cup {worker[i].attempt}
            \/ owner # i /\ UNCHANGED <<fate, file, volatile>>
<1> DEFINE w == worker[i]
           m == IF state = "completed" THEN AfterSuccess(memory[i], w)
                ELSE AfterFailure(memory[i], w, state, final)
           c == IF state = "completed" THEN Covers(memory[i], w) ELSE {}
<1>1. /\ state \in Outcomes(w.at) /\ Learns(i, m) /\ GoTo(i, [w EXCEPT !.at = "recorded"])
      /\ covered' = [covered EXCEPT ![w.attempt] = c]
      /\ \/ SaveOK(i, m) /\ Becomes(w.attempt, state)
         \/ /\ owner = i /\ Becomes(w.attempt, state)
            /\ file' = file /\ volatile' = volatile \cup {w.attempt}
         \/ owner # i /\ UNCHANGED <<fate, file, volatile>>
  BY DEF Record
<1>2. w.at \in {"admitted", "sent"} /\ (state = "not_sent" <=> w.at = "admitted")
  BY <1>1 DEF Outcomes
<1>3. /\ memory[i] \in Documents /\ w \in Worker /\ w.window \in Window /\ w.attempt \in Attempt
      /\ w.need \subseteq Window /\ covered \in [Attempt -> SUBSET Window]
  <2>1. memory[i] \in Documents /\ w \in Worker /\ covered \in [Attempt -> SUBSET Window]
    BY DEF Types
  <2>2. w.window \in Window /\ w.attempt \in Attempt
    BY <1>2 DEF Types, Flying
  <2> QED BY <2>1, <2>2 DEF Worker
<1> HIDE DEF w
<1>4. m \in Documents /\ m.ledger = memory[i].ledger
  BY <1>3, AfterSuccessFacts, AfterFailureFacts
<1>5. c \in SUBSET Window
  BY <1>3 DEF Covers
<1>6. "recorded" \in Steps
  BY DEF Steps, Flying
<1> DEFINE x == [w EXCEPT !.at = "recorded"]
<1>7. x \in Worker /\ x.at = "recorded" /\ x.attempt = w.attempt /\ x.window = w.window
  BY <1>3, <1>6, FlightFacts
<1> HIDE DEF x, m, c
<1>8. /\ memory' \in [Instance -> Documents] /\ memory'[i] = m
      /\ \A j \in Instance \ {i} : memory'[j] = memory[j]
  BY <1>1, <1>4, MoveFacts
<1>9. /\ worker' \in [Instance -> Worker] /\ worker'[i] = x
      /\ \A j \in Instance \ {i} : worker'[j] = worker[j]
  BY <1>1, <1>7, MoveFacts DEF x
<1>10. /\ covered' \in [Attempt -> SUBSET Window] /\ covered'[w.attempt] = c
       /\ \A b \in Attempt \ {w.attempt} : covered'[b] = covered[b]
  BY <1>1, <1>3, <1>5
<1>11. /\ state = "completed" => m = AfterSuccess(memory[i], w) /\ c = Covers(memory[i], w)
       /\ state # "completed" => m = AfterFailure(memory[i], w, state, final)
  BY DEF m, c
<1> QED BY <1>1, <1>2, <1>4, <1>7, <1>8, <1>9, <1>10, <1>11 DEF w

\* Confirm: one row has its reset.
LEMMA ConfirmEffect ==
  ASSUME Types, NEW i \in Instance, NEW v \in Window, Confirm(i, v)
  PROVE  /\ owner = i /\ memory' \in [Instance -> Documents]
         /\ \A j \in Instance \ {i} : memory'[j] = memory[j]
         /\ memory'[i].ledger = memory[i].ledger
         /\ \A u \in Window \ {v} : memory'[i].rows[u] = memory[i].rows[u]
         /\ memory[i].rows[v].state = "completed" /\ memory'[i].rows[v].state = "confirmed"
         /\ memory'[i].rows[v].attempt = memory[i].rows[v].attempt
         /\ memory'[i].rows[v].until = memory[i].rows[v].until
         /\ Blocked(memory'[i].rows[v]) <=> Blocked(memory[i].rows[v])
         /\ memory[i].rows[v].attempt # 0
<1> DEFINE m == memory[i]
           row == [m.rows[v] EXCEPT !.state = "confirmed"]
           rows == [m.rows EXCEPT ![v] = row]
           n == [m EXCEPT !.rows = rows]
<1>1. memory[i] \in Documents
  BY DEF Types
<1>2. m \in [rows : Rows, ledger : SUBSET Attempt] /\ m.rows \in [Window -> Row] /\ m.rows[v] \in Row
  BY <1>1, RowFacts
<1>3. /\ row \in Row /\ row.state = "confirmed" /\ row.attempt = m.rows[v].attempt
      /\ row.until = m.rows[v].until /\ (Blocked(row) <=> Blocked(m.rows[v]))
  BY <1>2 DEF Row, State, Blocked
<1>4. owner = i /\ m.rows[v].state = "completed" /\ m.rows[v].attempt # 0
      /\ Learns(i, [memory[i] EXCEPT !.rows[v].state = "confirmed"])
  BY DEF Confirm, Suppresses
<1>5. [memory[i] EXCEPT !.rows[v].state = "confirmed"] = n
  BY <1>2
<1> HIDE DEF row
<1>6. rows \in Rows /\ rows[v] = row /\ \A u \in Window \ {v} : rows[u] = m.rows[u]
  BY <1>2, <1>3, RowFacts
<1> HIDE DEF rows
<1>7. n \in Documents /\ n.rows = rows /\ n.ledger = m.ledger
  BY <1>2, <1>6, RowFacts
<1> HIDE DEF n
<1>8. /\ memory' \in [Instance -> Documents] /\ memory'[i] = n
      /\ \A j \in Instance \ {i} : memory'[j] = memory[j]
  BY <1>4, <1>5, <1>7, MoveFacts
<1> QED BY <1>3, <1>4, <1>6, <1>7, <1>8

\* The windows whose rows are cleared.
Gone(i) == {w \in Window : Cleared(memory[i].rows[w])}

\* Clear: cleared rows go, and what was sent for them may be sent again.
LEMMA ClearEffect ==
  ASSUME Types, NEW i \in Instance, Clear(i)
  PROVE  /\ owner = i /\ memory' \in [Instance -> Documents]
         /\ \A j \in Instance \ {i} : memory'[j] = memory[j]
         /\ memory[i].ledger \subseteq memory'[i].ledger
         /\ memory'[i].ledger \subseteq memory[i].ledger \cup Known(memory[i])
         /\ Known(memory'[i]) \subseteq memory'[i].ledger
         /\ \A v \in Window : memory'[i].rows[v] = IF v \in Gone(i) THEN NoRow ELSE memory[i].rows[v]
         /\ fate' = [a \in Attempt |-> IF /\ fate[a] \in {"sent", "rejected"}
                                          /\ a \in {memory[i].rows[w].attempt : w \in Gone(i)}
                                       THEN "cleared" ELSE fate[a]]
<1> DEFINE m == memory[i]
           n == Without(m, Gone(i))
<1>1. /\ owner = i /\ Learns(i, n)
      /\ fate' = [a \in Attempt |-> IF /\ fate[a] \in {"sent", "rejected"}
                                       /\ a \in {memory[i].rows[w].attempt : w \in Gone(i)}
                                    THEN "cleared" ELSE fate[a]]
  BY DEF Clear, Gone, Without
<1>2. m \in Documents /\ Gone(i) \in SUBSET Window
  BY DEF Types, Gone
<1>3. /\ n \in Documents /\ m.ledger \subseteq n.ledger /\ Known(n) \subseteq n.ledger
      /\ n.ledger \subseteq m.ledger \cup Known(m)
      /\ \A v \in Window : n.rows[v] = IF v \in Gone(i) THEN NoRow ELSE m.rows[v]
  BY <1>2, ClearFacts
<1> HIDE DEF n
<1>4. /\ memory' \in [Instance -> Documents] /\ memory'[i] = n
      /\ \A j \in Instance \ {i} : memory'[j] = memory[j]
  BY <1>1, <1>3, MoveFacts
<1> QED BY <1>1, <1>3, <1>4

\* Claim: the new owner has read the file; who has no worker is gone.
LEMMA ClaimEffect ==
  ASSUME Types, NEW i \in Instance, Claim(i)
  PROVE  /\ i \notin up \/ owner = i
         /\ worker[i].at = "idle" /\ owner' = i /\ i \in up' /\ up' \subseteq Instance
         /\ \A j \in Instance \ {i} : j \in up' <=> j \in up /\ worker[j].at # "idle"
         /\ memory' \in [Instance -> Documents]
         /\ memory'[i] = Loaded(memory[i])
         /\ \A j \in Instance \ {i} : memory'[j] = IF j \in up' THEN memory[j] ELSE Empty
         /\ fate' = Forgotten /\ volatile' = {}
<1>1. /\ i \notin up \/ owner = i
      /\ worker[i].at = "idle" /\ owner' = i /\ fate' = Forgotten /\ volatile' = {}
      /\ up' = {i} \cup {j \in up : worker[j].at # "idle"}
      /\ memory' = [j \in Instance |-> IF j = i THEN Loaded(memory[i])
                                       ELSE IF j \in up' THEN memory[j] ELSE Empty]
  BY DEF Claim
<1>2. memory \in [Instance -> Documents] /\ file \in Documents /\ up \subseteq Instance
  BY DEF Types
<1>3. Loaded(memory[i]) \in Documents
  BY <1>2, LoadedFacts
<1> QED BY <1>1, <1>2, <1>3, RowFacts
-----------------------------------------------------------------------------
(* Types and numbering are invariant.                                       *)

\* The initial state.
LEMMA BaseInit == Init => Base
<1> SUFFICES ASSUME Init PROVE Base
  OBVIOUS
<1>1. Types
  BY RowFacts, IdleFacts, Numbers DEF Init, Types, Flying, Fates
<1>2. \A n \in Nat : Sound(Empty.rows, n)
  BY RowFacts DEF Sound, Good
<1>3. Numbered
  BY <1>2, RowFacts, IdleFacts, Numbers DEF Init, Numbered, Attempt
<1> QED BY <1>1, <1>3 DEF Base

\* Rows that are rows of sound maps are sound; so is an empty map.
LEMMA SoundFacts ==
  /\ \A n \in Nat : Sound(Empty.rows, n) /\ Good(NoRow, n)
  /\ \A R, n : Sound(R, n) => \A v \in Window : Good(R[v], n)
  /\ \A R, n : (\A v \in Window : Good(R[v], n)) => Sound(R, n)
  BY RowFacts DEF Sound, Good

\* A step of a worker or of its instance that admits nothing keeps the numbering.
LEMMA NumberedStep ==
  ASSUME Base, Types', next' = next, age' = age,
         \A j \in Instance : memory'[j] = memory[j] \/ Sound(memory'[j].rows, next),
         file' = file \/ Sound(file'.rows, next),
         \A R \in journal' : R \in journal \/ Sound(R, next),
         \A j \in Instance : worker'[j].attempt \in {0, worker[j].attempt},
         \A a \in Attempt : fate'[a] = fate[a] \/ a <= next
  PROVE  Base'
<1>1. \A a \in Attempt : a > next => fate'[a] = "none"
  <2>1. next \in Nat /\ \A a \in Attempt : a \in Nat
    BY Numbers DEF Base, Types, Attempt
  <2> QED BY <2>1 DEF Base, Numbered
<1>2. \A j \in Instance : worker'[j].attempt <= next
  <2>1. next \in Nat
    BY Numbers DEF Base, Types
  <2> QED BY <2>1 DEF Base, Numbered
<1> QED BY <1>1, <1>2 DEF Base, Numbered

\* A save writes a sound document.
LEMMA SaveSound ==
  ASSUME NEW i \in Instance, NEW m \in Documents, NEW n, Sound(m.rows, n), SaveOK(i, m)
  PROVE  file' \in Documents /\ Sound(file'.rows, n) /\ volatile' = {} /\ owner = i
  BY SaveFacts

\* Merging.
LEMMA AcquireBase == ASSUME Base, NEW i \in Instance, Acquire(i) PROVE Base'
<1>1. /\ memory' \in [Instance -> Documents] /\ worker' \in [Instance -> Worker]
      /\ \A j \in Instance \ {i} : memory'[j] = memory[j] /\ worker'[j] = worker[j]
      /\ memory'[i].rows = Merged(Sources(i)) /\ worker'[i].attempt = 0
      /\ worker'[i].at \in {"merged", "ready"}
  BY AcquireEffect DEF Base
<1>2. /\ up' = up /\ owner' = owner /\ file' = file /\ journal' = journal /\ next' = next
      /\ age' = age /\ fate' = fate /\ covered' = covered /\ volatile' = volatile
  BY DEF Acquire, history
<1>3. Types'
  BY <1>1, <1>2 DEF Base, Types, Flying
<1>4. \A R \in Sources(i) : Sound(R, next)
  BY DEF Base, Numbered, Sources
<1>5. Sources(i) \subseteq Rows /\ Sources(i) # {}
  BY RowFacts DEF Base, Types, Sources, Documents
<1>6. Sound(memory'[i].rows, next)
  <2>1. \A v \in Window : \E R \in Sources(i) : Merged(Sources(i))[v] = R[v]
    BY <1>5, MergedFacts
  <2>2. \A v \in Window : Good(Merged(Sources(i))[v], next)
    BY <1>4, <2>1, SoundFacts
  <2> QED BY <1>1, <2>2, SoundFacts
<1> QED BY <1>1, <1>2, <1>3, <1>6, NumberedStep

\* Saving what was merged.
LEMMA CompactBase == ASSUME Base, NEW i \in Instance, Compact(i) PROVE Base'
<1>1. PICK at \in {"saved", "ready"} : GoTo(i, [Idle EXCEPT !.at = at])
  BY DEF Compact
<1>2. /\ worker' \in [Instance -> Worker] /\ worker'[i].at = at /\ worker'[i].attempt = 0
      /\ \A j \in Instance \ {i} : worker'[j] = worker[j]
  <2>1. at \in Steps
    BY DEF Steps
  <2> QED BY <1>1, <2>1, MoveFacts, RestFacts DEF Base
<1>3. /\ up' = up /\ owner' = owner /\ memory' = memory /\ journal' = journal /\ next' = next
      /\ age' = age /\ fate' = fate /\ covered' = covered
      /\ (file' = file /\ volatile' = volatile) \/ SaveOK(i, memory[i])
  BY DEF Compact, SaveFails, history
<1>4. memory[i] \in Documents /\ Sound(memory[i].rows, next) /\ file \in Documents /\ volatile \subseteq Attempt
  BY DEF Base, Types, Numbered
<1>5. file' \in Documents /\ volatile' \subseteq Attempt /\ (file' = file \/ Sound(file'.rows, next))
  BY <1>3, <1>4, SaveSound
<1>6. Types'
  BY <1>1, <1>2, <1>3, <1>5 DEF Base, Types, Flying
<1> QED BY <1>2, <1>3, <1>5, <1>6, NumberedStep

\* Clearing the journal.
LEMMA ClearJournalBase == ASSUME Base, NEW i \in Instance, ClearJournal(i) PROVE Base'
<1>1. /\ GoTo(i, [Idle EXCEPT !.at = "ready"]) /\ journal' \subseteq journal
      /\ up' = up /\ owner' = owner /\ memory' = memory /\ file' = file /\ next' = next
      /\ age' = age /\ fate' = fate /\ covered' = covered /\ volatile' = volatile
  BY DEF ClearJournal, history
<1>2. /\ worker' \in [Instance -> Worker] /\ worker'[i].at = "ready" /\ worker'[i].attempt = 0
      /\ \A j \in Instance \ {i} : worker'[j] = worker[j]
  <2>1. "ready" \in Steps
    BY DEF Steps
  <2> QED BY <1>1, <2>1, MoveFacts, RestFacts DEF Base
<1>3. Types'
  BY <1>1, <1>2 DEF Base, Types, Flying
<1> QED BY <1>1, <1>2, <1>3, NumberedStep

\* Admission.
LEMMA AdmitBase ==
  ASSUME Base, NEW i \in Instance, NEW need \in Needs, Admit(i, need)
  PROVE  Base'
<1> DEFINE w == worker'[i].window
<1>1. /\ next' = next + 1 /\ next' \in Attempt
      /\ memory' \in [Instance -> Documents] /\ worker' \in [Instance -> Worker]
      /\ \A j \in Instance \ {i} : memory'[j] = memory[j] /\ worker'[j] = worker[j]
      /\ worker'[i].at = "admitting" /\ worker'[i].attempt = next' /\ w \in Window
      /\ PendingRow(memory'[i].rows[w], next')
      /\ \A v \in Window \ {w} : memory'[i].rows[v] = Pruned(memory[i]).rows[v]
  BY AdmitEffect
<1>2. /\ up' = up /\ owner' = owner /\ file' = file /\ journal' = journal
      /\ age' = age /\ covered' = covered /\ volatile' = volatile
      /\ fate' = [fate EXCEPT ![next'] = "admitted"]
  BY DEF Admit
<1>3. Types'
  <2>1. fate' \in [Attempt -> Fates]
    BY <1>2 DEF Base, Types, Fates
  <2>2. next' \in 0..MaxAttempt
    BY <1>1, Numbers DEF Attempt
  <2> HIDE DEF w
  <2> QED BY <1>1, <1>2, <2>1, <2>2 DEF Base, Types, w
<1>4. next \in Nat /\ next' \in Nat
  BY <1>1, Numbers DEF Base, Types, Attempt
<1>5. ASSUME NEW R, Sound(R, next), R \in Rows PROVE Sound(R, next')
  <2>1. \A v \in Window : R[v].attempt \in Nat
    BY <1>5, RowFacts
  <2> QED BY <1>1, <1>4, <1>5, <2>1 DEF Sound, Good
<1>6. Sound(memory'[i].rows, next')
  <2>1. ASSUME NEW v \in Window \ {w} PROVE Good(memory'[i].rows[v], next')
    <3>1. memory[i] \in Documents /\ Sound(memory[i].rows, next) /\ memory[i].rows \in Rows
      BY RowFacts DEF Base, Types, Numbered, Documents
    <3>2. memory'[i].rows[v] \in {NoRow, memory[i].rows[v]}
      BY <1>1, <3>1, PrunedFacts
    <3>3. Sound(memory[i].rows, next')
      BY <1>5, <3>1
    <3> QED BY <1>4, <3>2, <3>3, SoundFacts
  <2>2. Good(memory'[i].rows[w], next')
    BY <1>1, <1>4, Numbers DEF Good, PendingRow, Attempt
  <2> HIDE DEF w
  <2> QED BY <2>1, <2>2, SoundFacts
<1>7. \A j \in Instance : Sound(memory'[j].rows, next')
  <2>1. \A j \in Instance : memory[j].rows \in Rows /\ Sound(memory[j].rows, next)
    BY RowFacts DEF Base, Types, Numbered, Documents
  <2> QED BY <1>1, <1>5, <1>6, <2>1
<1>8. Sound(file.rows, next') /\ \A R \in journal : Sound(R, next')
  <2>1. file.rows \in Rows /\ Sound(file.rows, next) /\ \A R \in journal : R \in Rows /\ Sound(R, next)
    BY RowFacts DEF Base, Types, Numbered, Documents
  <2> QED BY <1>5, <2>1
<1>9. \A j \in Instance : worker'[j].attempt <= next'
  <2>1. \A j \in Instance : worker[j].attempt \in Nat /\ worker[j].attempt <= next
    BY DEF Base, Types, Numbered, Worker
  <2> QED BY <1>1, <1>4, <2>1
<1>10. \A a \in Attempt : a > next' => age'[a] = 0 /\ fate'[a] = "none"
  <2>1. \A a \in Attempt : a \in Nat
    BY Numbers DEF Attempt
  <2>2. fate \in [Attempt -> Fates] /\ \A a \in Attempt : a > next => age[a] = 0 /\ fate[a] = "none"
    BY DEF Base, Types, Numbered
  <2> QED BY <1>1, <1>2, <1>4, <2>1, <2>2
<1>11. \A a, b \in 1..next' : a <= b => age'[a] >= age'[b]
  <2> SUFFICES ASSUME NEW a \in 1..next', NEW b \in 1..next', a <= b PROVE age[a] >= age[b]
    BY <1>2
  <2>1. /\ \A x, y \in 1..next : x <= y => age[x] >= age[y]
        /\ \A x \in Attempt : x > next => age[x] = 0
        /\ \A x \in Attempt : age[x] \in Nat
    BY Numbers DEF Base, Types, Numbered
  <2>2. a \in Attempt /\ b \in Attempt
    BY <1>1, <1>4, Numbers DEF Attempt
  <2>3. CASE b <= next
    BY <2>1, <2>3, <1>4
  <2>4. CASE b > next
    <3>1. age[b] = 0 /\ age[a] \in Nat
      BY <2>1, <2>2, <2>4
    <3> QED BY <3>1
  <2> QED BY <2>3, <2>4, <1>4
<1> QED BY <1>2, <1>3, <1>7, <1>8, <1>9, <1>10, <1>11 DEF Base, Numbered

\* A worker that goes on or ends, and memory that does not grow.
LEMMA EndsBase ==
  ASSUME Base, NEW i \in Instance, Ends(i)
  PROVE  /\ worker' \in [Instance -> Worker] /\ memory' \in [Instance -> Documents]
         /\ up' \subseteq Instance /\ owner \in up' \cup {NoInstance}
         /\ \A j \in Instance : worker'[j].attempt \in {0, worker[j].attempt}
         /\ \A j \in Instance : worker'[j].at \in Flying => worker'[j] = worker[j]
         /\ \A j \in Instance : memory'[j] = memory[j] \/ Sound(memory'[j].rows, next)
<1>1. /\ worker' \in [Instance -> Worker] /\ worker'[i] = Idle
      /\ \A j \in Instance \ {i} : worker'[j] = worker[j]
      /\ memory' \in [Instance -> Documents]
      /\ \A j \in Instance : memory'[j] = memory[j] \/ (j = i /\ owner # i /\ memory'[j] = Empty)
      /\ up' \subseteq up /\ owner \in up' \cup {NoInstance}
  BY EndsFacts DEF Base
<1>2. next \in Nat /\ up \subseteq Instance
  BY Numbers DEF Base, Types
<1>3. \A j \in Instance : memory'[j] = memory[j] \/ Sound(memory'[j].rows, next)
  BY <1>1, <1>2, SoundFacts
<1>4. \A j \in Instance : worker'[j].attempt \in {0, worker[j].attempt}
  BY <1>1, IdleFacts
<1>5. \A j \in Instance : worker'[j].at \in Flying => worker'[j] = worker[j]
  BY <1>1, IdleFacts DEF Flying
<1> QED BY <1>1, <1>2, <1>3, <1>4, <1>5

\* Saving an admission.
LEMMA SaveAdmissionBase == ASSUME Base, NEW i \in Instance, SaveAdmission(i) PROVE Base'
<1>1. /\ owner' = owner /\ journal' = journal /\ next' = next
      /\ age' = age /\ fate' = fate /\ covered' = covered /\ worker[i].at = "admitting"
      /\ (file' = file /\ volatile' = volatile) \/ SaveOK(i, memory[i])
      /\ \/ GoTo(i, [worker[i] EXCEPT !.at = "admitted"]) /\ up' = up /\ memory' = memory
         \/ Ends(i)
  BY DEF SaveAdmission, SaveFails, history
<1>2. memory[i] \in Documents /\ Sound(memory[i].rows, next) /\ file \in Documents /\ volatile \subseteq Attempt
  BY DEF Base, Types, Numbered
<1>3. file' \in Documents /\ volatile' \subseteq Attempt /\ (file' = file \/ Sound(file'.rows, next))
  BY <1>1, <1>2, SaveSound
<1>4. CASE Ends(i)
  <2>1. Types'
    BY <1>1, <1>3, <1>4, EndsBase DEF Base, Types
  <2> QED BY <1>1, <1>3, <1>4, <2>1, EndsBase, NumberedStep
<1>5. CASE GoTo(i, [worker[i] EXCEPT !.at = "admitted"]) /\ up' = up /\ memory' = memory
  <2> DEFINE x == [worker[i] EXCEPT !.at = "admitted"]
  <2>1. "admitted" \in Steps /\ worker[i] \in Worker
    BY DEF Base, Types, Steps, Flying
  <2>2. x \in Worker /\ x.attempt = worker[i].attempt /\ x.window = worker[i].window
    BY <2>1, FlightFacts
  <2> HIDE DEF x
  <2>3. /\ worker' \in [Instance -> Worker] /\ worker'[i] = x
        /\ \A j \in Instance \ {i} : worker'[j] = worker[j]
    BY <1>5, <2>2, MoveFacts DEF Base, x
  <2>4. Types'
    <3>1. worker[i].at \in Flying
      BY <1>1 DEF Flying
    <3>2. worker[i].window \in Window /\ worker[i].attempt \in Attempt
      BY <3>1 DEF Base, Types
    <3> QED BY <1>1, <1>3, <1>5, <2>2, <2>3, <3>2 DEF Base, Types
  <2> QED BY <1>1, <1>3, <1>5, <2>2, <2>3, <2>4, NumberedStep
<1> QED BY <1>1, <1>4, <1>5

\* Sending.
LEMMA SendBase == ASSUME Base, NEW i \in Instance, Send(i) PROVE Base'
<1> DEFINE x == [worker[i] EXCEPT !.at = "sent"]
<1>1. /\ worker[i].at = "admitted" /\ GoTo(i, x) /\ fate' = [fate EXCEPT ![worker[i].attempt] = "sent"]
      /\ up' = up /\ owner' = owner /\ memory' = memory /\ file' = file /\ journal' = journal
      /\ next' = next /\ age' = age /\ covered' = covered /\ volatile' = volatile
  BY DEF Send
<1>2. worker[i] \in Worker /\ "sent" \in Steps /\ worker[i].at \in Flying
  BY <1>1 DEF Base, Types, Flying, Steps
<1>3. worker[i].window \in Window /\ worker[i].attempt \in Attempt /\ worker[i].attempt <= next
  BY <1>2 DEF Base, Types, Numbered
<1>4. x \in Worker /\ x.attempt = worker[i].attempt /\ x.window = worker[i].window
  BY <1>2, FlightFacts
<1> HIDE DEF x
<1>5. /\ worker' \in [Instance -> Worker] /\ worker'[i] = x
      /\ \A j \in Instance \ {i} : worker'[j] = worker[j]
  BY <1>1, <1>4, MoveFacts DEF Base
<1>6. fate' \in [Attempt -> Fates] /\ \A a \in Attempt : fate'[a] = fate[a] \/ a = worker[i].attempt
  BY <1>1 DEF Base, Types, Fates
<1>7. Types'
  BY <1>1, <1>3, <1>4, <1>5, <1>6 DEF Base, Types
<1> QED BY <1>1, <1>3, <1>4, <1>5, <1>6, <1>7, NumberedStep

\* Recording an outcome.
LEMMA RecordBase ==
  ASSUME Base, NEW i \in Instance, NEW state \in State \ {"pending", "confirmed"},
         NEW final \in BOOLEAN, Record(i, state, final)
  PROVE  Base'
<1> DEFINE w == worker[i]
           m == memory'[i]
<1>1. /\ w.at \in {"admitted", "sent"}
      /\ memory' \in [Instance -> Documents] /\ worker' \in [Instance -> Worker]
      /\ \A j \in Instance \ {i} : memory'[j] = memory[j] /\ worker'[j] = worker[j]
      /\ worker'[i].attempt = w.attempt /\ worker'[i].window = w.window
      /\ covered' \in [Attempt -> SUBSET Window]
      /\ state = "completed" => m = AfterSuccess(memory[i], w)
      /\ state # "completed" => m = AfterFailure(memory[i], w, state, final)
  BY RecordEffect DEF Base
<1>2. \/ SaveOK(i, m) /\ Becomes(w.attempt, state)
      \/ Becomes(w.attempt, state) /\ file' = file /\ volatile' = volatile \cup {w.attempt}
      \/ UNCHANGED <<fate, file, volatile>>
  BY RecordEffect DEF Base
<1>3. /\ w \in Worker /\ w.window \in Window /\ w.attempt \in Attempt /\ w.attempt <= next
      /\ memory[i] \in Documents /\ Sound(memory[i].rows, next) /\ file \in Documents
      /\ volatile \subseteq Attempt /\ fate \in [Attempt -> Fates] /\ w.need \subseteq Window
  <2>1. w \in Worker /\ w.at \in Flying /\ w.window \in Window /\ w.attempt \in Attempt
    BY <1>1 DEF Base, Types, Flying
  <2> QED BY <2>1 DEF Base, Types, Numbered, Worker
<1>4. m \in Documents /\ Sound(m.rows, next)
  <2>1. m \in Documents
    BY <1>1
  <2>2. next \in Nat /\ w.attempt # 0
    BY <1>3, Numbers DEF Base, Types, Attempt
  <2>3. CASE state = "completed"
    <3> HIDE DEF w, m
    <3>1. ASSUME NEW v \in Window PROVE Good(m.rows[v], next)
      <4>1. CASE v \in Covers(memory[i], w)
        <5>1. m.rows[v].attempt = w.attempt /\ m.rows[v].state = "completed"
          BY <1>1, <1>3, <2>3, <4>1, AfterSuccessFacts
        <5> QED BY <1>3, <2>2, <5>1 DEF Good
      <4>2. CASE v \notin Covers(memory[i], w)
        <5> DEFINE d == memory[i]
        <5>0. v \in Window \ Covers(d, w) /\ d \in Documents /\ m = AfterSuccess(d, w)
          BY <1>1, <1>3, <2>3, <4>2
        <5> HIDE DEF d
        <5>1. /\ m.rows[v].attempt = d.rows[v].attempt
              /\ m.rows[v].state = d.rows[v].state
              /\ ~Blocked(d.rows[v]) => ~Blocked(m.rows[v])
              /\ d.rows[v] = NoRow => m.rows[v] = NoRow
          BY <1>3, <5>0, AfterSuccessFacts
        <5>2. Good(memory[i].rows[v], next)
          BY <1>3, SoundFacts
        <5> QED BY <5>1, <5>2 DEF Good, d
      <4> QED BY <4>1, <4>2
    <3> QED BY <2>1, <3>1, SoundFacts
  <2>4. CASE state # "completed"
    <3> HIDE DEF w, m
    <3>1. ASSUME NEW v \in Window PROVE Good(m.rows[v], next)
      <4>1. CASE v = w.window
        <5>1. m.rows[v].attempt = w.attempt /\ m.rows[v].state = state
          BY <1>1, <1>3, <2>4, <4>1, AfterFailureFacts
        <5> QED BY <1>3, <2>2, <5>1 DEF Good
      <4>2. CASE v # w.window
        <5>1. m.rows[v] = memory[i].rows[v]
          BY <1>1, <1>3, <2>4, <4>2, AfterFailureFacts
        <5> QED BY <1>3, <5>1, SoundFacts
      <4> QED BY <4>1, <4>2
    <3> QED BY <2>1, <3>1, SoundFacts
  <2> QED BY <2>3, <2>4
<1> HIDE DEF m, w
<1>5. file' \in Documents /\ (file' = file \/ Sound(file'.rows, next)) /\ volatile' \subseteq Attempt
  BY <1>2, <1>3, <1>4, SaveSound
<1>6. fate' \in [Attempt -> Fates] /\ \A a \in Attempt : fate'[a] = fate[a] \/ a = w.attempt
  BY <1>2, <1>3, BecomesFacts
<1>7. up' = up /\ owner' = owner /\ journal' = journal /\ next' = next /\ age' = age
  BY DEF Record
<1>8. Types'
  BY <1>1, <1>3, <1>5, <1>6, <1>7 DEF Base, Types, w
<1> QED BY <1>1, <1>3, <1>4, <1>5, <1>6, <1>7, <1>8, NumberedStep DEF m, w

\* Ending without a request.
LEMMA AbandonBase == ASSUME Base, NEW i \in Instance, Abandon(i) PROVE Base'
<1>1. /\ Ends(i) /\ owner' = owner /\ journal' = journal /\ next' = next /\ file' = file
      /\ age' = age /\ fate' = fate /\ covered' = covered /\ volatile' = volatile
  BY DEF Abandon, history
<1>2. Types'
  BY <1>1, EndsBase DEF Base, Types
<1> QED BY <1>1, <1>2, EndsBase, NumberedStep

\* The record of an outcome is sound.
LEMMA OutcomeFacts ==
  ASSUME Base, NEW i \in Instance, worker[i].at \in Flying
  PROVE  /\ Outcome(memory[i], worker[i]) \in Rows
         /\ Sound(Outcome(memory[i], worker[i]), next)
         /\ \A v \in Window : Outcome(memory[i], worker[i])[v] =
                IF memory[i].rows[v].attempt = worker[i].attempt THEN memory[i].rows[v] ELSE NoRow
<1> DEFINE m == memory[i]
<1>1. m \in [rows : Rows, ledger : SUBSET Attempt] /\ m.rows \in [Window -> Row]
      /\ Sound(m.rows, next) /\ next \in Nat
  BY RowFacts, Numbers DEF Base, Types, Numbered
<1>2. Outcome(m, worker[i]) = [v \in Window |-> IF m.rows[v].attempt = worker[i].attempt
                                               THEN m.rows[v] ELSE NoRow]
  BY DEF Outcome
<1> HIDE DEF m
<1>3. Outcome(m, worker[i]) \in [Window -> Row]
  BY <1>1, <1>2, RowFacts
<1>4. \A v \in Window : Good(Outcome(m, worker[i])[v], next)
  BY <1>1, <1>2, SoundFacts
<1>5. Sound(Outcome(m, worker[i]), next)
  BY <1>4, SoundFacts
<1> QED BY <1>2, <1>3, <1>5, RowFacts DEF m

\* Appending an outcome and ending.
LEMMA FinishBase == ASSUME Base, NEW i \in Instance, Finish(i) PROVE Base'
<1> DEFINE w == worker[i]
           m == memory[i]
<1>1. /\ w.at = "recorded" /\ Ends(i)
      /\ owner' = owner /\ next' = next /\ file' = file /\ age' = age /\ covered' = covered
      /\ volatile' = volatile
      /\ \/ /\ m.rows[w.window].attempt = w.attempt /\ journal' = journal \cup {Outcome(m, w)}
            /\ Becomes(w.attempt, m.rows[w.window].state)
         \/ journal' = journal /\ fate' = fate
  BY DEF Finish
<1>2. w.at \in Flying
  BY <1>1 DEF Flying
<1>3. /\ w.attempt \in Attempt /\ w.attempt <= next /\ fate \in [Attempt -> Fates] /\ w.window \in Window
      /\ journal \subseteq Rows /\ m \in Documents
  BY <1>2 DEF Base, Types, Numbered
<1>4. m.rows[w.window].state \in State
  <2> HIDE DEF m, w
  <2>1. m.rows \in [Window -> Row]
    BY <1>3, RowFacts
  <2> QED BY <1>3, <2>1, RowFacts
<1>5. Outcome(m, w) \in Rows /\ Sound(Outcome(m, w), next)
  BY <1>2, OutcomeFacts
<1> HIDE DEF m, w
<1>6. fate' \in [Attempt -> Fates] /\ \A a \in Attempt : fate'[a] = fate[a] \/ a = w.attempt
  BY <1>1, <1>3, <1>4, BecomesFacts
<1>7. journal' \subseteq Rows /\ \A R \in journal' : R \in journal \/ Sound(R, next)
  BY <1>1, <1>3, <1>5
<1>8. Types'
  BY <1>1, <1>6, <1>7, EndsBase DEF Base, Types
<1> QED BY <1>1, <1>3, <1>6, <1>7, <1>8, EndsBase, NumberedStep

\* Confirming a row.
LEMMA ConfirmBase == ASSUME Base, NEW i \in Instance, NEW v \in Window, Confirm(i, v) PROVE Base'
<1>1. /\ memory' \in [Instance -> Documents]
      /\ \A j \in Instance \ {i} : memory'[j] = memory[j]
      /\ \A u \in Window \ {v} : memory'[i].rows[u] = memory[i].rows[u]
      /\ memory'[i].rows[v].state = "confirmed"
      /\ memory'[i].rows[v].attempt = memory[i].rows[v].attempt
      /\ memory[i].rows[v].attempt # 0
  BY ConfirmEffect DEF Base
<1>2. /\ up' = up /\ owner' = owner /\ file' = file /\ journal' = journal /\ worker' = worker
      /\ next' = next /\ age' = age /\ fate' = fate /\ covered' = covered /\ volatile' = volatile
  BY DEF Confirm, history
<1>3. Types'
  BY <1>1, <1>2 DEF Base, Types
<1>4. Sound(memory[i].rows, next)
  BY DEF Base, Numbered
<1>5. Sound(memory'[i].rows, next)
  <2>1. Good(memory'[i].rows[v], next)
    BY <1>1, <1>4 DEF Sound, Good
  <2>2. \A u \in Window \ {v} : Good(memory'[i].rows[u], next)
    BY <1>1, <1>4, SoundFacts
  <2> QED BY <2>1, <2>2, SoundFacts
<1> QED BY <1>1, <1>2, <1>3, <1>5, NumberedStep

\* Saving.
LEMMA SaveBase == ASSUME Base, NEW i \in Instance, Save(i) PROVE Base'
<1>1. /\ SaveOK(i, memory[i]) /\ memory' = memory /\ up' = up /\ owner' = owner
      /\ journal' = journal /\ worker' = worker
      /\ next' = next /\ age' = age /\ fate' = fate /\ covered' = covered
  BY DEF Save, history
<1>2. memory[i] \in Documents /\ Sound(memory[i].rows, next)
  BY DEF Base, Types, Numbered
<1>3. file' \in Documents /\ Sound(file'.rows, next) /\ volatile' = {}
  BY <1>1, <1>2, SaveSound
<1>4. Types'
  BY <1>1, <1>3 DEF Base, Types
<1> QED BY <1>1, <1>3, <1>4, NumberedStep

\* Clearing rows.
LEMMA ClearBase == ASSUME Base, NEW i \in Instance, Clear(i) PROVE Base'
<1>1. /\ memory' \in [Instance -> Documents]
      /\ \A j \in Instance \ {i} : memory'[j] = memory[j]
      /\ \A v \in Window : memory'[i].rows[v] = IF v \in Gone(i) THEN NoRow ELSE memory[i].rows[v]
  BY ClearEffect DEF Base
<1>2. fate' = [a \in Attempt |-> IF /\ fate[a] \in {"sent", "rejected"}
                                    /\ a \in {memory[i].rows[w].attempt : w \in Gone(i)}
                                 THEN "cleared" ELSE fate[a]]
  BY ClearEffect DEF Base
<1>3. /\ up' = up /\ owner' = owner /\ file' = file /\ journal' = journal /\ worker' = worker
      /\ next' = next /\ age' = age /\ covered' = covered /\ volatile' = volatile
  BY DEF Clear
<1>4. fate' \in [Attempt -> Fates] /\ \A a \in Attempt : fate'[a] = fate[a] \/ fate[a] # "none"
  <2>1. fate \in [Attempt -> Fates]
    BY DEF Base, Types
  <2>2. \A a \in Attempt : fate'[a] \in {"cleared", fate[a]} /\ (fate'[a] = fate[a] \/ fate[a] # "none")
    BY <1>2
  <2>3. fate' = [a \in Attempt |-> fate'[a]]
    BY <1>2
  <2> QED BY <2>1, <2>2, <2>3 DEF Fates
<1>5. \A a \in Attempt : fate'[a] = fate[a] \/ a <= next
  <2>1. next \in Nat /\ \A a \in Attempt : a \in Nat /\ (a > next => fate[a] = "none")
    BY Numbers DEF Base, Types, Numbered, Attempt
  <2> QED BY <1>4, <2>1
<1>6. Types'
  BY <1>1, <1>3, <1>4 DEF Base, Types
<1>7. Sound(memory'[i].rows, next)
  <2>1. Sound(memory[i].rows, next) /\ next \in Nat
    BY Numbers DEF Base, Numbered, Types
  <2>2. \A v \in Window : Good(memory'[i].rows[v], next)
    BY <1>1, <2>1, SoundFacts
  <2> QED BY <2>2, SoundFacts
<1> QED BY <1>1, <1>3, <1>5, <1>6, <1>7, NumberedStep

\* What is forgotten was admitted.
LEMMA ForgottenFacts ==
  ASSUME Types
  PROVE  /\ Forgotten \in [Attempt -> Fates]
         /\ \A a \in Attempt : Forgotten[a] = IF a \in volatile THEN "sent" ELSE fate[a]
  BY DEF Types, Forgotten, Fates

\* Claiming the generation.
LEMMA ClaimBase ==
  ASSUME Base, NEW i \in Instance, Claim(i), \A a \in volatile : a <= next PROVE Base'
<1>1. /\ owner' = i /\ i \in up' /\ up' \subseteq Instance
      /\ memory' \in [Instance -> Documents] /\ memory'[i] = Loaded(memory[i])
      /\ \A j \in Instance \ {i} : memory'[j] = IF j \in up' THEN memory[j] ELSE Empty
      /\ fate' = Forgotten /\ volatile' = {}
  BY ClaimEffect DEF Base
<1>2. /\ file' = file /\ journal' = journal /\ worker' = worker /\ next' = next
      /\ age' = age /\ covered' = covered
  BY DEF Claim
<1>3. next \in Nat /\ memory[i] \in Documents /\ file \in Documents
      /\ Sound(memory[i].rows, next) /\ Sound(file.rows, next)
  BY Numbers DEF Base, Types, Numbered
<1>4. fate' \in [Attempt -> Fates] /\ \A a \in Attempt : fate'[a] = fate[a] \/ a <= next
  BY <1>1, ForgottenFacts DEF Base
<1>5. Types'
  BY <1>1, <1>2, <1>4 DEF Base, Types
<1>6. Sound(memory'[i].rows, next)
  <2>1. \A v \in Window : Loaded(memory[i]).rows[v] \in {file.rows[v], memory[i].rows[v]}
    BY <1>3, LoadedFacts
  <2>2. \A v \in Window : Good(memory'[i].rows[v], next)
    BY <1>1, <1>3, <2>1, SoundFacts
  <2> QED BY <2>2, SoundFacts
<1>7. \A j \in Instance : memory'[j] = memory[j] \/ Sound(memory'[j].rows, next)
  BY <1>1, <1>3, <1>6, SoundFacts
<1> QED BY <1>2, <1>4, <1>5, <1>7, NumberedStep

\* A crash.
LEMMA CrashBase ==
  ASSUME Base, NEW i \in Instance, Crash(i), \A a \in volatile : a <= next PROVE Base'
<1>1. /\ up' = up \ {i} /\ owner' = IF owner = i THEN NoInstance ELSE owner
      /\ Learns(i, Empty) /\ GoTo(i, Idle)
      /\ \/ fate' = Forgotten /\ volatile' = {}
         \/ fate' = fate /\ volatile' = volatile
      /\ file' = file /\ journal' = journal /\ next' = next /\ age' = age /\ covered' = covered
  BY DEF Crash, Learns
<1>2. /\ memory' \in [Instance -> Documents] /\ memory'[i] = Empty
      /\ worker' \in [Instance -> Worker] /\ worker'[i] = Idle
      /\ \A j \in Instance \ {i} : memory'[j] = memory[j] /\ worker'[j] = worker[j]
  BY <1>1, RowFacts, IdleFacts, MoveFacts DEF Base
<1>3. fate' \in [Attempt -> Fates] /\ \A a \in Attempt : fate'[a] = fate[a] \/ a <= next
  BY <1>1, ForgottenFacts DEF Base, Types
<1>4. worker'[i].at \notin Flying /\ worker'[i].attempt = 0
  BY <1>2, IdleFacts DEF Flying
<1>5. Types'
  BY <1>1, <1>2, <1>3, <1>4 DEF Base, Types
<1>6. next \in Nat
  BY Numbers DEF Base, Types
<1> QED BY <1>1, <1>2, <1>3, <1>4, <1>5, <1>6, SoundFacts, NumberedStep

\* Time goes on for what was admitted, and no attempt overtakes an older one.
LEMMA TickFacts ==
  ASSUME Base, Tick
  PROVE  /\ age' \in [Attempt -> 0..Horizon] /\ \A a \in Attempt : age'[a] >= age[a]
         /\ \A a \in Attempt : a > next => age'[a] = 0
         /\ \A a, b \in 1..next : a <= b => age'[a] >= age'[b]
         /\ memory' = memory /\ up' = up /\ owner' = owner /\ file' = file /\ journal' = journal
         /\ worker' = worker /\ next' = next /\ fate' = fate /\ covered' = covered
         /\ volatile' = volatile /\ \A i \in Instance : worker[i].at \notin Flying
<1>1. /\ age' = [a \in Attempt |-> IF a <= next /\ age[a] < Horizon THEN age[a] + 1 ELSE age[a]]
      /\ memory' = memory /\ up' = up /\ owner' = owner /\ file' = file /\ journal' = journal
      /\ worker' = worker /\ next' = next /\ fate' = fate /\ covered' = covered
      /\ volatile' = volatile /\ \A i \in Instance : worker[i].at \notin Flying
  BY DEF Tick, history, Flying
<1>2. /\ age \in [Attempt -> 0..Horizon] /\ next \in 0..MaxAttempt
      /\ \A a \in Attempt : a > next => age[a] = 0
      /\ \A a, b \in 1..next : a <= b => age[a] >= age[b]
  BY DEF Base, Types, Numbered
<1>3. ASSUME NEW a \in Attempt
      PROVE  /\ age'[a] \in 0..Horizon /\ age'[a] >= age[a] /\ (a > next => age'[a] = 0)
             /\ age'[a] = IF a <= next /\ age[a] < Horizon THEN age[a] + 1 ELSE age[a]
             /\ a \in Nat
  BY <1>1, <1>2, Numbers DEF Attempt
<1>4. ASSUME NEW a \in 1..next, NEW b \in 1..next, a <= b PROVE age'[a] >= age'[b]
  <2>1. a \in Attempt /\ b \in Attempt /\ a <= next /\ b <= next
    BY <1>2, Numbers DEF Attempt
  <2>2. age[a] >= age[b] /\ age[a] \in 0..Horizon /\ age[b] \in 0..Horizon
    BY <1>2, <1>4, <2>1
  <2> QED BY <1>3, <2>1, <2>2, Numbers
<1> QED BY <1>1, <1>3, <1>4

\* A tick.
LEMMA TickBase == ASSUME Base, Tick PROVE Base'
<1>1. Types'
  BY TickFacts DEF Base, Types
<1> QED BY <1>1, TickFacts DEF Base, Numbered
-----------------------------------------------------------------------------
(* Who holds the lock, and who is gone.                                     *)

\* One worker holds the lock; a superseded one has nothing untold beside it, and without
\* a worker only the owner knows anything.
Locking ==
    /\ \A i, j \in Instance : worker[i].at # "idle" /\ worker[j].at # "idle" => i = j
    /\ \A i \in Instance : worker[i].at # "idle" /\ owner # i => volatile = {}
    /\ \A i \in Instance \ up : memory[i] = Empty /\ worker[i].at = "idle"
    /\ \A i \in Instance : worker[i].at = "idle" /\ i # owner => i \notin up

\* The initial state.
LEMMA LockingInit == Init => Locking
  BY IdleFacts DEF Init, Locking

\* A worker that goes on keeps the lock.
LEMMA GoingOn ==
  ASSUME Base, Locking, NEW i \in Instance, worker[i].at # "idle",
         \A j \in Instance \ {i} : worker'[j] = worker[j] /\ memory'[j] = memory[j],
         up' = up, owner' = owner, worker'[i].at # "idle",
         volatile' \in {{}, volatile} \/ owner = i
  PROVE  Locking'
  BY DEF Locking

\* A worker that ends gives it up.
LEMMA EndsLocking ==
  ASSUME Base, Locking, NEW i \in Instance, worker[i].at # "idle", Ends(i), owner' = owner,
         volatile' \in {{}, volatile}
  PROVE  Locking'
<1>1. /\ worker'[i].at = "idle"
      /\ \A j \in Instance \ {i} : worker'[j] = worker[j]
  BY EndsFacts, IdleFacts DEF Base
<1>2. memory \in [Instance -> Documents] /\ up \subseteq Instance
  BY DEF Base, Types
<1>3. \/ owner = i /\ up' = up /\ memory' = memory
      \/ owner # i /\ up' = up \ {i} /\ memory' = [memory EXCEPT ![i] = Empty]
  BY DEF Ends, Learns
<1>4. CASE owner = i /\ up' = up /\ memory' = memory
  BY <1>1, <1>4 DEF Locking
<1>5. CASE owner # i /\ up' = up \ {i} /\ memory' = [memory EXCEPT ![i] = Empty]
  <2>1. memory'[i] = Empty /\ \A j \in Instance \ {i} : memory'[j] = memory[j]
    BY <1>2, <1>5
  <2> QED BY <1>1, <1>5, <2>1 DEF Locking
<1> QED BY <1>3, <1>4, <1>5

\* Every step keeps it.
LEMMA LockingStep == ASSUME Base, Locking, [Next]_vars PROVE Locking'
<1>1. ASSUME NEW i \in Instance, Acquire(i) PROVE Locking'
  <2>1. /\ i \in up /\ owner = i /\ \A j \in Instance : worker[j].at = "idle"
        /\ \A j \in Instance \ {i} : memory'[j] = memory[j] /\ worker'[j] = worker[j]
    BY <1>1, AcquireEffect DEF Base
  <2>2. up' = up /\ owner' = owner /\ volatile' = volatile
    BY <1>1 DEF Acquire
  <2> QED BY <2>1, <2>2 DEF Locking
<1>2. ASSUME NEW i \in Instance, Compact(i) PROVE Locking'
  <2>1. PICK at \in {"saved", "ready"} : GoTo(i, [Idle EXCEPT !.at = at])
    BY <1>2 DEF Compact
  <2>2. worker'[i].at = at /\ \A j \in Instance \ {i} : worker'[j] = worker[j]
    <3>1. at \in Steps
      BY DEF Steps
    <3> QED BY <2>1, <3>1, MoveFacts, RestFacts DEF Base
  <2>3. /\ worker[i].at = "merged" /\ memory' = memory /\ up' = up /\ owner' = owner
        /\ volatile' \in {{}, volatile}
    BY <1>2 DEF Compact, SaveFails, SaveOK
  <2> QED BY <2>2, <2>3, GoingOn
<1>3. ASSUME NEW i \in Instance, ClearJournal(i) PROVE Locking'
  <2>1. /\ worker[i].at = "saved" /\ GoTo(i, [Idle EXCEPT !.at = "ready"])
        /\ memory' = memory /\ up' = up /\ owner' = owner /\ volatile' = volatile
    BY <1>3 DEF ClearJournal
  <2>2. worker'[i].at = "ready" /\ \A j \in Instance \ {i} : worker'[j] = worker[j]
    <3>1. "ready" \in Steps
      BY DEF Steps
    <3> QED BY <2>1, <3>1, MoveFacts, RestFacts DEF Base
  <2> QED BY <2>1, <2>2, GoingOn
<1>4. ASSUME NEW i \in Instance, NEW need \in Needs, Admit(i, need) PROVE Locking'
  <2>1. /\ worker[i].at = "ready" /\ worker'[i].at = "admitting"
        /\ \A j \in Instance \ {i} : memory'[j] = memory[j] /\ worker'[j] = worker[j]
    BY <1>4, AdmitEffect
  <2>2. up' = up /\ owner' = owner /\ volatile' = volatile
    BY <1>4 DEF Admit
  <2> QED BY <2>1, <2>2, GoingOn
<1>5. ASSUME NEW i \in Instance, SaveAdmission(i) PROVE Locking'
  <2>1. /\ worker[i].at = "admitting" /\ owner' = owner /\ volatile' \in {{}, volatile}
        /\ \/ GoTo(i, [worker[i] EXCEPT !.at = "admitted"]) /\ up' = up /\ memory' = memory
           \/ Ends(i)
    BY <1>5 DEF SaveAdmission, SaveFails, SaveOK
  <2>2. CASE Ends(i)
    BY <2>1, <2>2, EndsLocking
  <2>3. CASE GoTo(i, [worker[i] EXCEPT !.at = "admitted"]) /\ up' = up /\ memory' = memory
    <3>1. worker'[i].at = "admitted" /\ \A j \in Instance \ {i} : worker'[j] = worker[j]
      <4>1. "admitted" \in Steps
        BY DEF Steps, Flying
      <4> QED BY <2>3, <4>1, GoesFacts DEF Base
    <3> QED BY <2>1, <2>3, <3>1, GoingOn
  <2> QED BY <2>1, <2>2, <2>3
<1>6. ASSUME NEW i \in Instance, Send(i) PROVE Locking'
  <2>1. /\ worker[i].at = "admitted" /\ GoTo(i, [worker[i] EXCEPT !.at = "sent"])
        /\ memory' = memory /\ up' = up /\ owner' = owner /\ volatile' = volatile
    BY <1>6 DEF Send
  <2>2. worker'[i].at = "sent" /\ \A j \in Instance \ {i} : worker'[j] = worker[j]
    <3>1. "sent" \in Steps
      BY DEF Steps, Flying
    <3> QED BY <2>1, <3>1, GoesFacts DEF Base
  <2> QED BY <2>1, <2>2, GoingOn
<1>7. ASSUME NEW i \in Instance, NEW state \in State \ {"pending", "confirmed"},
             NEW final \in BOOLEAN, Record(i, state, final)
      PROVE  Locking'
  <2>1. /\ worker[i].at \in {"admitted", "sent"} /\ worker'[i].at = "recorded"
        /\ \A j \in Instance \ {i} : memory'[j] = memory[j] /\ worker'[j] = worker[j]
    BY <1>7, RecordEffect DEF Base
  <2>2. up' = up /\ owner' = owner /\ (volatile' \in {{}, volatile} \/ owner = i)
    BY <1>7 DEF Record, SaveOK
  <2> QED BY <2>1, <2>2, GoingOn
<1>8. ASSUME NEW i \in Instance, Abandon(i) PROVE Locking'
  BY <1>8, EndsLocking DEF Abandon
<1>9. ASSUME NEW i \in Instance, Finish(i) PROVE Locking'
  BY <1>9, EndsLocking DEF Finish
<1>10. ASSUME NEW i \in Instance, NEW v \in Window, Confirm(i, v) PROVE Locking'
  <2>1. \A j \in Instance \ {i} : memory'[j] = memory[j]
    BY <1>10, ConfirmEffect DEF Base
  <2>2. i \in up /\ worker' = worker /\ up' = up /\ owner' = owner /\ volatile' = volatile
    BY <1>10 DEF Confirm
  <2> QED BY <2>1, <2>2 DEF Locking
<1>11. ASSUME NEW i \in Instance, Save(i) PROVE Locking'
  BY <1>11 DEF Save, SaveOK, Locking
<1>12. ASSUME NEW i \in Instance, Clear(i) PROVE Locking'
  <2>1. \A j \in Instance \ {i} : memory'[j] = memory[j]
    BY <1>12, ClearEffect DEF Base
  <2>2. i \in up /\ worker' = worker /\ up' = up /\ owner' = owner /\ volatile' = volatile
    BY <1>12 DEF Clear
  <2> QED BY <2>1, <2>2 DEF Locking
<1>13. ASSUME NEW i \in Instance, Claim(i) PROVE Locking'
  <2>1. /\ worker[i].at = "idle" /\ owner' = i /\ i \in up'
        /\ \A j \in Instance \ {i} : j \in up' <=> j \in up /\ worker[j].at # "idle"
        /\ \A j \in Instance \ {i} : memory'[j] = IF j \in up' THEN memory[j] ELSE Empty
        /\ volatile' = {}
    BY <1>13, ClaimEffect DEF Base
  <2>2. worker' = worker
    BY <1>13 DEF Claim
  <2> QED BY <2>1, <2>2 DEF Locking
<1>14. ASSUME NEW i \in Instance, Crash(i) PROVE Locking'
  <2>1. /\ up' = up \ {i} /\ owner' = IF owner = i THEN NoInstance ELSE owner
        /\ volatile' \in {{}, volatile} /\ Learns(i, Empty) /\ GoTo(i, Idle)
        /\ owner = i => volatile' = {}
    BY <1>14 DEF Crash, Learns
  <2>2. /\ memory'[i] = Empty /\ worker'[i].at = "idle"
        /\ \A j \in Instance \ {i} : memory'[j] = memory[j] /\ worker'[j] = worker[j]
    BY <2>1, RowFacts, IdleFacts, MoveFacts DEF Base
  <2>3. NoInstance \notin Instance
    BY Numbers
  <2> QED BY <2>1, <2>2, <2>3 DEF Locking
<1>15. CASE Tick
  BY <1>15, TickFacts DEF Locking
<1>16. CASE UNCHANGED vars
  BY <1>16 DEF vars, Locking
<1> QED BY <1>1, <1>2, <1>3, <1>4, <1>5, <1>6, <1>7, <1>8, <1>9, <1>10, <1>11, <1>12,
           <1>13, <1>14, <1>15, <1>16 DEF Next
-----------------------------------------------------------------------------
(* The ledgers.                                                             *)

Ran == {"sent", "rejected", "completed", "cleared"}

\* A ledger has the attempts its rows tell of, none that was not admitted, and no more of
\* the last day than the budget allows.
Kept(m, n, g) == /\ Known(m) \subseteq m.ledger /\ m.ledger \subseteq 1..n
                 /\ Cardinality({a \in m.ledger : g[a] < Day}) <= MaxPerDay

\* All ledgers are kept; the owner's has all of the file's, and that all that may have run.
Ledgers ==
    /\ \A i \in Instance : Kept(memory[i], next, age)
    /\ Kept(file, next, age)
    /\ owner # NoInstance => file.ledger \subseteq memory[owner].ledger
    /\ \A R \in journal, v \in Window : R[v].attempt # 0 => R[v].attempt \in file.ledger
    /\ \A a \in Attempt : fate[a] \in Ran => a \in file.ledger
    /\ volatile \subseteq file.ledger
    /\ \A i \in Instance : worker[i].at \in Flying => worker[i].attempt \in memory[i].ledger
    /\ \A i \in Instance : worker[i].at \in Flying \ {"admitting"} => worker[i].attempt \in file.ledger

\* A smaller set of numbers up to n has no more members.
LEMMA FewerFacts ==
  ASSUME NEW n \in Nat, NEW S, NEW T, S \subseteq T, T \subseteq 1..n
  PROVE  IsFiniteSet(T) /\ IsFiniteSet(S) /\ Cardinality(S) \in Nat /\ Cardinality(T) \in Nat
         /\ Cardinality(S) <= Cardinality(T)
<1>1. IsFiniteSet(1..n)
  BY FS_Interval
<1>2. IsFiniteSet(T)
  BY <1>1, FS_Subset
<1> QED BY <1>2, FS_Subset, FS_CardinalityType

\* A document with part of a kept ledger is kept; so is an empty one.
LEMMA KeptFacts ==
  ASSUME NEW n \in Nat, NEW g
  PROVE  /\ Kept(Empty, n, g)
         /\ \A m, d : /\ Kept(m, n, g) /\ Known(d) \subseteq d.ledger /\ d.ledger \subseteq m.ledger
                      => Kept(d, n, g)
<1>1. Kept(Empty, n, g)
  <2>1. Empty.ledger = {} /\ Known(Empty) = {}
    BY RowFacts DEF Known, Fresh
  <2>2. {a \in Empty.ledger : g[a] < Day} = {}
    BY <2>1
  <2> QED BY <2>1, <2>2, FS_EmptySet, Numbers DEF Kept
<1>2. ASSUME NEW m, NEW d, Kept(m, n, g), Known(d) \subseteq d.ledger, d.ledger \subseteq m.ledger
      PROVE  Kept(d, n, g)
  <2> DEFINE S == {a \in d.ledger : g[a] < Day}
             T == {a \in m.ledger : g[a] < Day}
  <2>1. S \subseteq T /\ T \subseteq 1..n /\ Cardinality(T) <= MaxPerDay
    BY <1>2 DEF Kept
  <2> HIDE DEF S, T
  <2>2. Cardinality(S) <= MaxPerDay
    <3>1. /\ Cardinality(S) \in Nat /\ Cardinality(T) \in Nat /\ Cardinality(S) <= Cardinality(T)
      BY <2>1, FewerFacts
    <3>2. MaxPerDay \in Nat
      BY Numbers
    <3> QED BY <2>1, <3>1, <3>2
  <2> QED BY <1>2, <2>2 DEF Kept, S
<1> QED BY <1>1, <1>2

\* A kept document stays as it is when its ledger takes up what it knows.
LEMMA KeptLedger ==
  ASSUME NEW m \in Documents, NEW n, NEW g, Kept(m, n, g)
  PROVE  WithLedger(m, {}).ledger = m.ledger
<1>1. {} \in SUBSET Attempt
  OBVIOUS
<1>2. WithLedger(m, {}).ledger = m.ledger \cup {} \cup Known(m)
  BY <1>1, LedgerFacts
<1> QED BY <1>2 DEF Kept

\* A save writes a kept ledger that has all of the file's.
LEMMA SaveLedger ==
  ASSUME Base, Ledgers, NEW i \in Instance, NEW m \in Documents, m.ledger = memory[i].ledger,
         Known(m) \subseteq m.ledger, SaveOK(i, m)
  PROVE  /\ owner = i /\ file'.ledger = memory[i].ledger /\ Known(file') \subseteq file'.ledger
         /\ file.ledger \subseteq file'.ledger /\ file'.rows = m.rows /\ volatile' = {}
<1>1. owner = i /\ file'.rows = m.rows /\ file'.ledger = m.ledger \cup Known(m) /\ volatile' = {}
  BY SaveFacts
<1>2. Known(file') = Known(m)
  BY <1>1 DEF Known, Fresh
<1>3. owner # NoInstance
  BY <1>1, Numbers
<1> QED BY <1>1, <1>2, <1>3 DEF Ledgers

\* What a step must do to keep the ledgers, when neither time nor attempts go on.
LEMMA LedgersFrom ==
  ASSUME Base, Ledgers, next' = next, age' = age,
         \A j \in Instance : \/ memory'[j] \in {memory[j], Empty}
                             \/ /\ Known(memory'[j]) \subseteq memory'[j].ledger
                                /\ \/ memory'[j].ledger \subseteq memory[j].ledger
                                   \/ memory'[j].ledger \subseteq file.ledger,
         \/ file' = file
         \/ /\ Known(file') \subseteq file'.ledger /\ file.ledger \subseteq file'.ledger
            /\ \E j \in Instance : file'.ledger = memory[j].ledger,
         owner' # NoInstance => file'.ledger \subseteq memory'[owner'].ledger,
         \A R \in journal' : R \in journal \/ \A v \in Window : R[v].attempt # 0 =>
                                                 R[v].attempt \in file'.ledger,
         \A a \in Attempt : fate'[a] \in Ran => fate[a] \in Ran \/ a \in file'.ledger,
         volatile' \subseteq volatile \cup file'.ledger,
         \A j \in Instance : worker'[j].at \in Flying => worker'[j].attempt \in memory'[j].ledger,
         \A j \in Instance : worker'[j].at \in Flying \ {"admitting"} =>
                                worker'[j].attempt \in file'.ledger
  PROVE  Ledgers'
<1>1. next \in Nat
  BY Numbers DEF Base, Types
<1>2. \A j \in Instance : Kept(memory'[j], next, age)
  <2>1. Kept(file, next, age) /\ \A j \in Instance : Kept(memory[j], next, age)
    BY DEF Ledgers
  <2> QED BY <1>1, <2>1, KeptFacts
<1>3. Kept(file', next, age)
  <2>1. Kept(file, next, age) /\ \A j \in Instance : Kept(memory[j], next, age)
    BY DEF Ledgers
  <2> QED BY <1>1, <2>1, KeptFacts
<1>4. file.ledger \subseteq file'.ledger
  OBVIOUS
<1>5. \A R \in journal', v \in Window : R[v].attempt # 0 => R[v].attempt \in file'.ledger
  BY <1>4 DEF Ledgers
<1>6. \A a \in Attempt : fate'[a] \in Ran => a \in file'.ledger
  BY <1>4 DEF Ledgers
<1>7. volatile' \subseteq file'.ledger
  BY <1>4 DEF Ledgers
<1> QED BY <1>2, <1>3, <1>5, <1>6, <1>7 DEF Ledgers

\* The initial state.
LEMMA LedgersInit == Init => Ledgers
<1> SUFFICES ASSUME Init PROVE Ledgers
  OBVIOUS
<1>1. /\ \A i \in Instance : memory[i] = Empty /\ worker[i] = Idle
      /\ file = Empty /\ journal = {} /\ volatile = {} /\ next = 0 /\ \A a \in Attempt : fate[a] = "none"
      /\ owner \in Instance
  BY DEF Init
<1>2. Kept(Empty, next, age)
  BY <1>1, KeptFacts
<1> QED BY <1>1, <1>2, RowFacts, IdleFacts DEF Ledgers, Ran, Flying

\* Merging adds nothing to the owner's ledger.
LEMMA AcquireLedgers == ASSUME Base, Ledgers, NEW i \in Instance, Acquire(i) PROVE Ledgers'
<1>1. /\ owner = i
      /\ \A j \in Instance \ {i} : memory'[j] = memory[j] /\ worker'[j] = worker[j]
      /\ memory'[i].rows = Merged(Sources(i)) /\ worker'[i].at \in {"merged", "ready"}
      /\ memory'[i].ledger = memory[i].ledger \cup file.ledger \cup Known(memory'[i])
  BY AcquireEffect DEF Base
<1>2. /\ owner' = owner /\ file' = file /\ journal' = journal /\ next' = next
      /\ age' = age /\ fate' = fate /\ volatile' = volatile
  BY DEF Acquire, history
<1>3. file.ledger \subseteq memory[i].ledger
  BY <1>1, Numbers DEF Ledgers
<1>4. Known(memory'[i]) \subseteq memory[i].ledger
  <2>1. Sources(i) \subseteq Rows /\ Sources(i) # {}
    BY RowFacts DEF Base, Types, Sources, Documents
  <2>2. \A v \in Window : \E R \in Sources(i) : memory'[i].rows[v] = R[v]
    BY <1>1, <2>1, MergedFacts
  <2>3. \A R \in Sources(i), v \in Window : R[v].attempt # 0 => R[v].attempt \in memory[i].ledger
    <3>1. \A v \in Window : file.rows[v].attempt # 0 => file.rows[v].attempt \in file.ledger
      BY DEF Ledgers, Kept, Known, Fresh
    <3>2. \A v \in Window : memory[i].rows[v].attempt # 0 => memory[i].rows[v].attempt \in memory[i].ledger
      BY DEF Ledgers, Kept, Known, Fresh
    <3>3. \A R \in journal, v \in Window : R[v].attempt # 0 => R[v].attempt \in file.ledger
      BY DEF Ledgers
    <3> QED BY <1>3, <3>1, <3>2, <3>3 DEF Sources
  <2> QED BY <2>2, <2>3 DEF Known, Fresh
<1>5. memory'[i].ledger = memory[i].ledger
  BY <1>1, <1>3, <1>4
<1>6. \A j \in Instance : worker'[j].at \in Flying => j # i
  BY <1>1 DEF Flying
<1> QED BY <1>1, <1>2, <1>3, <1>4, <1>5, <1>6, LedgersFrom DEF Ledgers

\* Saving, by whomever.
LEMMA SavedLedgers ==
  ASSUME Base, Ledgers, NEW i \in Instance, SaveOK(i, memory[i])
  PROVE  /\ owner = i /\ file'.ledger = memory[i].ledger /\ Known(file') \subseteq file'.ledger
         /\ file.ledger \subseteq file'.ledger /\ volatile' = {}
  BY SaveLedger DEF Base, Types, Ledgers, Kept

\* Saving what was merged.
LEMMA CompactLedgers == ASSUME Base, Ledgers, NEW i \in Instance, Compact(i) PROVE Ledgers'
<1>1. PICK at \in {"saved", "ready"} : GoTo(i, [Idle EXCEPT !.at = at])
  BY DEF Compact
<1>2. worker'[i].at = at /\ \A j \in Instance \ {i} : worker'[j] = worker[j]
  <2>1. at \in Steps
    BY DEF Steps
  <2> QED BY <1>1, <2>1, MoveFacts, RestFacts DEF Base
<1>3. /\ owner' = owner /\ memory' = memory /\ journal' = journal /\ next' = next
      /\ age' = age /\ fate' = fate
      /\ (file' = file /\ volatile' = volatile) \/ SaveOK(i, memory[i])
  BY DEF Compact, SaveFails, history
<1>4. \A j \in Instance : worker'[j].at \in Flying => j # i
  BY <1>2 DEF Flying
<1>5. CASE file' = file /\ volatile' = volatile
  BY <1>2, <1>3, <1>4, <1>5, LedgersFrom DEF Ledgers
<1>6. CASE SaveOK(i, memory[i])
  BY <1>2, <1>3, <1>4, <1>6, SavedLedgers, LedgersFrom DEF Ledgers
<1> QED BY <1>3, <1>5, <1>6

\* Clearing the journal.
LEMMA ClearJournalLedgers == ASSUME Base, Ledgers, NEW i \in Instance, ClearJournal(i) PROVE Ledgers'
<1>1. /\ GoTo(i, [Idle EXCEPT !.at = "ready"]) /\ journal' \subseteq journal
      /\ owner' = owner /\ memory' = memory /\ file' = file /\ next' = next
      /\ age' = age /\ fate' = fate /\ volatile' = volatile
  BY DEF ClearJournal, history
<1>2. worker'[i].at = "ready" /\ \A j \in Instance \ {i} : worker'[j] = worker[j]
  <2>1. "ready" \in Steps
    BY DEF Steps
  <2> QED BY <1>1, <2>1, MoveFacts, RestFacts DEF Base
<1>3. \A j \in Instance : worker'[j].at \in Flying => j # i
  BY <1>2 DEF Flying
<1> QED BY <1>1, <1>2, <1>3, LedgersFrom DEF Ledgers

\* An admission spends one more of what the budget leaves.
LEMMA AdmitLedgers ==
  ASSUME Base, Locking, Ledgers, NEW i \in Instance, NEW need \in Needs, Admit(i, need)
  PROVE  Ledgers'
<1> DEFINE m == Pruned(memory[i])
           n == next + 1
           l == memory[i].ledger
<1>1. /\ worker[i].at = "ready" /\ next' = n /\ n \in Attempt
      /\ memory' \in [Instance -> Documents]
      /\ \A j \in Instance \ {i} : memory'[j] = memory[j] /\ worker'[j] = worker[j]
      /\ worker'[i].at = "admitting" /\ worker'[i].attempt = n /\ worker'[i].window \in Window
      /\ Allowed(m, worker'[i].window)
      /\ memory'[i].ledger = l \cup {n} \cup Known(m)
  BY AdmitEffect
<1>2. /\ PendingRow(memory'[i].rows[worker'[i].window], n)
      /\ \A v \in Window \ {worker'[i].window} : memory'[i].rows[v] = m.rows[v]
  BY AdmitEffect, <1>1
<1>3. /\ owner' = owner /\ file' = file /\ journal' = journal
      /\ age' = age /\ volatile' = volatile /\ fate' = [fate EXCEPT ![next'] = "admitted"]
  BY DEF Admit
<1>4. /\ m \in Documents /\ m.ledger = l
      /\ \A v \in Window : m.rows[v] \in {NoRow, memory[i].rows[v]}
  BY PrunedFacts DEF Base, Types
<1>5. Kept(memory[i], next, age) /\ next \in Nat /\ l \subseteq 1..next
  <2>1. next \in Nat
    BY Numbers DEF Base, Types
  <2>2. Kept(memory[i], next, age)
    BY DEF Ledgers
  <2> QED BY <2>1, <2>2 DEF Kept
<1>6. Known(m) \subseteq l
  <2>1. Known(memory[i]) \subseteq l
    BY <1>5 DEF Kept
  <2> HIDE DEF m, l
  <2> QED BY <1>4, <2>1, RowFacts DEF Known, Fresh
<1> HIDE DEF m
<1>7. memory'[i].ledger = l \cup {n}
  BY <1>1, <1>6
<1>8. Known(memory'[i]) \subseteq l \cup {n}
  <2>1. \A v \in Window : memory'[i].rows[v].attempt # 0 =>
                             memory'[i].rows[v].attempt \in {n} \cup Known(m)
    <3>1. ASSUME NEW v \in Window \ {worker'[i].window}, memory'[i].rows[v].attempt # 0
          PROVE  memory'[i].rows[v].attempt \in Known(m)
      BY <1>2, <3>1 DEF Known, Fresh
    <3>2. memory'[i].rows[worker'[i].window].attempt = n
      BY <1>2 DEF PendingRow
    <3> HIDE DEF n
    <3> QED BY <3>1, <3>2
  <2> HIDE DEF n
  <2> QED BY <1>6, <2>1 DEF Known, Fresh
<1>9. Cardinality({a \in l \cup {n} : age[a] < Day}) <= MaxPerDay
  <2> DEFINE S == {a \in l : age[a] < Day}
             T == {a \in l \cup {n} : age[a] < Day}
  <2>1. Cardinality(S) < MaxPerDay
    <3>1. WithLedger(m, {}).ledger = l
      <4>1. {} \in SUBSET Attempt
        OBVIOUS
      <4>2. WithLedger(m, {}).ledger = m.ledger \cup {} \cup Known(m)
        BY <1>4, <4>1, LedgerFacts
      <4> QED BY <1>4, <1>6, <4>2
    <3>2. Cardinality(Spent(m)) < MaxPerDay
      BY <1>1 DEF Allowed
    <3> QED BY <3>1, <3>2 DEF Spent
  <2>2. T \subseteq S \cup {n} /\ S \subseteq 1..next
    BY <1>5
  <2> HIDE DEF S, T, n
  <2>3. IsFiniteSet(S) /\ Cardinality(S) \in Nat
    BY <1>5, <2>2, FewerFacts
  <2>4. /\ IsFiniteSet(S \cup {n}) /\ Cardinality(S \cup {n}) \in Nat
        /\ Cardinality(S \cup {n}) <= Cardinality(S) + 1
    <3>1. /\ IsFiniteSet(S \cup {n})
          /\ Cardinality(S \cup {n}) \in {Cardinality(S), Cardinality(S) + 1}
      BY <2>3, FS_AddElement, Zenon
    <3> QED BY <2>3, <3>1
  <2>5. Cardinality(T) \in Nat /\ Cardinality(T) <= Cardinality(S \cup {n})
    BY <2>2, <2>4, FS_Subset, FS_CardinalityType
  <2>6. MaxPerDay \in Nat
    BY Numbers
  <2> QED BY <2>1, <2>3, <2>4, <2>5, <2>6 DEF T
<1>10. Kept(memory'[i], n, age)
  <2>1. l \cup {n} \subseteq 1..n
    BY <1>5
  <2> QED BY <1>7, <1>8, <1>9, <2>1 DEF Kept
<1>11. ASSUME NEW d, Kept(d, next, age) PROVE Kept(d, n, age)
  <2>1. 1..next \subseteq 1..n
    BY <1>5
  <2> QED BY <1>11, <2>1 DEF Kept
<1>12. \A j \in Instance : Kept(memory'[j], next', age')
  BY <1>1, <1>3, <1>10, <1>11 DEF Ledgers
<1>13. Kept(file', next', age')
  BY <1>1, <1>3, <1>11 DEF Ledgers
<1>14. owner' # NoInstance => file'.ledger \subseteq memory'[owner'].ledger
  BY <1>1, <1>3, <1>7 DEF Ledgers, Base, Types
<1>15. \A a \in Attempt : fate'[a] \in Ran => a \in file'.ledger
  <2>1. fate \in [Attempt -> Fates]
    BY DEF Base, Types
  <2>2. \A a \in Attempt : fate'[a] \in {fate[a], "admitted"}
    BY <1>3, <2>1
  <2>3. "admitted" \notin Ran
    BY DEF Ran
  <2> QED BY <1>3, <2>2, <2>3 DEF Ledgers
<1>16. \A j \in Instance : worker'[j].at \in Flying => worker'[j].attempt \in memory'[j].ledger
  BY <1>1, <1>7 DEF Ledgers
<1>17. \A j \in Instance : worker'[j].at \in Flying \ {"admitting"} => worker'[j].attempt \in file'.ledger
  BY <1>1, <1>3 DEF Ledgers
<1> QED BY <1>3, <1>12, <1>13, <1>14, <1>15, <1>16, <1>17 DEF Ledgers

\* A worker that ends.
LEMMA EndsLedgers ==
  ASSUME Base, Ledgers, NEW i \in Instance, Ends(i)
  PROVE  /\ \A j \in Instance : memory'[j] \in {memory[j], Empty}
         /\ \A j \in Instance : worker'[j].at \in Flying => j # i /\ worker'[j] = worker[j]
         /\ \A j \in Instance : j # i \/ owner = i => memory'[j] = memory[j]
         /\ owner \in Instance => memory'[owner] = memory[owner]
<1>1. /\ worker'[i] = Idle /\ \A j \in Instance \ {i} : worker'[j] = worker[j]
      /\ \A j \in Instance : memory'[j] = memory[j] \/ (j = i /\ owner # i /\ memory'[j] = Empty)
  BY EndsFacts DEF Base
<1> QED BY <1>1, IdleFacts DEF Flying

\* The owner is an instance or none.
LEMMA OwnerFacts == Base => owner = NoInstance \/ (owner \in Instance /\ owner # NoInstance)
  BY Numbers DEF Base, Types

\* Saving an admission.
LEMMA SaveAdmissionLedgers == ASSUME Base, Ledgers, NEW i \in Instance, SaveAdmission(i) PROVE Ledgers'
<1>1. /\ owner' = owner /\ journal' = journal /\ next' = next
      /\ age' = age /\ fate' = fate /\ worker[i].at = "admitting"
      /\ \/ SaveOK(i, memory[i]) /\ GoTo(i, [worker[i] EXCEPT !.at = "admitted"]) /\ memory' = memory
         \/ file' = file /\ volatile' = volatile /\ Ends(i)
         \/ SaveOK(i, memory[i]) /\ Ends(i)
  BY DEF SaveAdmission, SaveFails, history
<1>2. CASE file' = file /\ volatile' = volatile /\ Ends(i)
  BY <1>1, <1>2, EndsLedgers, OwnerFacts, LedgersFrom DEF Ledgers
<1>3. CASE SaveOK(i, memory[i]) /\ Ends(i)
  BY <1>1, <1>3, EndsLedgers, SavedLedgers, LedgersFrom DEF Ledgers
<1>4. CASE SaveOK(i, memory[i]) /\ GoTo(i, [worker[i] EXCEPT !.at = "admitted"]) /\ memory' = memory
  <2>1. /\ worker'[i].attempt = worker[i].attempt /\ worker[i].at \in Flying
        /\ \A j \in Instance \ {i} : worker'[j] = worker[j]
    <3>1. "admitted" \in Steps
      BY DEF Steps, Flying
    <3> QED BY <1>1, <1>4, <3>1, GoesFacts DEF Base, Flying
  <2>2. /\ owner = i /\ file'.ledger = memory[i].ledger /\ Known(file') \subseteq file'.ledger
        /\ file.ledger \subseteq file'.ledger /\ volatile' = {}
    BY <1>4, SavedLedgers
  <2>3. \A j \in Instance : worker'[j].at \in Flying => worker'[j].attempt \in memory'[j].ledger
    BY <1>4, <2>1 DEF Ledgers
  <2>4. \A j \in Instance : worker'[j].at \in Flying \ {"admitting"} => worker'[j].attempt \in file'.ledger
    BY <2>1, <2>2 DEF Ledgers
  <2> QED BY <1>1, <1>4, <2>2, <2>3, <2>4, LedgersFrom DEF Ledgers
<1> QED BY <1>1, <1>2, <1>3, <1>4

\* Sending what the file's ledger has.
LEMMA SendLedgers == ASSUME Base, Ledgers, NEW i \in Instance, Send(i) PROVE Ledgers'
<1>1. /\ worker[i].at = "admitted" /\ GoTo(i, [worker[i] EXCEPT !.at = "sent"])
      /\ fate' = [fate EXCEPT ![worker[i].attempt] = "sent"]
      /\ owner' = owner /\ memory' = memory /\ file' = file /\ journal' = journal
      /\ next' = next /\ age' = age /\ volatile' = volatile
  BY DEF Send
<1>2. /\ worker'[i].attempt = worker[i].attempt /\ worker[i].at \in Flying \ {"admitting"}
      /\ \A j \in Instance \ {i} : worker'[j] = worker[j]
  <2>1. "sent" \in Steps
    BY DEF Steps, Flying
  <2> QED BY <1>1, <2>1, GoesFacts DEF Base, Flying
<1>3. worker[i].attempt \in file.ledger
  BY <1>2 DEF Ledgers
<1>4. \A a \in Attempt : fate'[a] = fate[a] \/ a \in file'.ledger
  BY <1>1, <1>3 DEF Base, Types
<1> QED BY <1>1, <1>2, <1>4, OwnerFacts, LedgersFrom DEF Ledgers

\* Recording for rows of an attempt that both ledgers have.
LEMMA RecordLedgers ==
  ASSUME Base, Ledgers, NEW i \in Instance, NEW state \in State \ {"pending", "confirmed"},
         NEW final \in BOOLEAN, Record(i, state, final)
  PROVE  Ledgers'
<1> DEFINE w == worker[i]
           m == memory'[i]
           d == memory[i]
<1>1. /\ w.at \in {"admitted", "sent"} /\ m \in Documents
      /\ \A j \in Instance \ {i} : memory'[j] = memory[j] /\ worker'[j] = worker[j]
      /\ m.ledger = d.ledger /\ worker'[i].attempt = w.attempt /\ worker'[i].at = "recorded"
      /\ state = "completed" => m = AfterSuccess(d, w)
      /\ state # "completed" => m = AfterFailure(d, w, state, final)
  BY RecordEffect DEF Base
<1>2. \/ SaveOK(i, m) /\ Becomes(w.attempt, state)
      \/ Becomes(w.attempt, state) /\ file' = file /\ volatile' = volatile \cup {w.attempt}
      \/ UNCHANGED <<fate, file, volatile>>
  BY RecordEffect DEF Base
<1>3. /\ w.window \in Window /\ w.attempt \in Attempt /\ w.need \subseteq Window
      /\ d \in Documents /\ fate \in [Attempt -> Fates] /\ w.at \in Flying \ {"admitting"}
  <2>1. w \in Worker /\ w.at \in Flying \ {"admitting"} /\ w.window \in Window /\ w.attempt \in Attempt
    BY <1>1 DEF Base, Types, Flying
  <2> QED BY <2>1 DEF Base, Types, Worker
<1>4. w.attempt \in file.ledger /\ w.attempt \in d.ledger /\ Known(d) \subseteq d.ledger
  BY <1>3 DEF Ledgers, Kept
<1>5. owner' = owner /\ journal' = journal /\ next' = next /\ age' = age
  BY DEF Record
<1>6. Known(m) \subseteq m.ledger
  <2> HIDE DEF w, m, d
  <2>1. ASSUME NEW v \in Window PROVE m.rows[v].attempt \in {w.attempt, d.rows[v].attempt}
    <3>1. CASE state = "completed"
      <4>1. CASE v \in Covers(d, w)
        BY <1>1, <1>3, <3>1, <4>1, AfterSuccessFacts
      <4>2. CASE v \in Window \ Covers(d, w)
        BY <1>1, <1>3, <3>1, <4>2, AfterSuccessFacts
      <4> QED BY <4>1, <4>2
    <3>2. CASE state # "completed"
      <4>1. CASE v = w.window
        BY <1>1, <1>3, <3>2, <4>1, AfterFailureFacts
      <4>2. CASE v \in Window \ {w.window}
        BY <1>1, <1>3, <3>2, <4>2, AfterFailureFacts
      <4> QED BY <4>1, <4>2
    <3> QED BY <3>1, <3>2
  <2> QED BY <1>1, <1>4, <2>1 DEF Known, Fresh
<1>7. \A j \in Instance : worker'[j].at \in Flying => worker'[j].attempt \in memory'[j].ledger
  BY <1>1, <1>4 DEF Ledgers
<1>8. \A a \in Attempt : fate'[a] = fate[a] \/ a = w.attempt
  BY <1>2, <1>3, BecomesFacts
<1>9. \A j \in Instance : worker'[j].at \in Flying \ {"admitting"} => worker'[j].attempt \in file.ledger
  BY <1>1, <1>4 DEF Ledgers
<1> HIDE DEF m, w
<1>10. CASE SaveOK(i, m)
  <2>1. /\ owner = i /\ file'.ledger = memory[i].ledger /\ Known(file') \subseteq file'.ledger
        /\ file.ledger \subseteq file'.ledger /\ volatile' = {}
    BY <1>1, <1>6, <1>10, SaveLedger
  <2> QED BY <1>1, <1>4, <1>5, <1>6, <1>7, <1>8, <1>9, <2>1, LedgersFrom DEF Ledgers, m, w
<1>11. CASE file' = file /\ volatile' \subseteq volatile \cup {w.attempt}
  <2>1. owner' # NoInstance => file'.ledger \subseteq memory'[owner'].ledger
    BY <1>1, <1>5, <1>11, OwnerFacts DEF Ledgers, m
  <2> QED BY <1>1, <1>4, <1>5, <1>6, <1>7, <1>8, <1>9, <1>11, <2>1, LedgersFrom DEF Ledgers, m, w
<1> QED BY <1>2, <1>10, <1>11

\* Ending without a request.
LEMMA AbandonLedgers == ASSUME Base, Ledgers, NEW i \in Instance, Abandon(i) PROVE Ledgers'
<1>1. /\ Ends(i) /\ owner' = owner /\ journal' = journal /\ next' = next /\ file' = file
      /\ age' = age /\ fate' = fate /\ volatile' = volatile
  BY DEF Abandon, history
<1> QED BY <1>1, EndsLedgers, OwnerFacts, LedgersFrom DEF Ledgers

\* Appending an outcome the file's ledger has.
LEMMA FinishLedgers == ASSUME Base, Ledgers, NEW i \in Instance, Finish(i) PROVE Ledgers'
<1> DEFINE w == worker[i]
           m == memory[i]
<1>1. /\ w.at = "recorded" /\ Ends(i)
      /\ owner' = owner /\ next' = next /\ file' = file /\ age' = age /\ volatile' = volatile
      /\ \/ /\ m.rows[w.window].attempt = w.attempt /\ journal' = journal \cup {Outcome(m, w)}
            /\ Becomes(w.attempt, m.rows[w.window].state)
         \/ journal' = journal /\ fate' = fate
  BY DEF Finish
<1>2. w.at \in Flying \ {"admitting"}
  BY <1>1 DEF Flying
<1>3. w.attempt \in file.ledger /\ w.attempt \in Attempt /\ fate \in [Attempt -> Fates]
  BY <1>2 DEF Ledgers, Base, Types
<1>4. \A v \in Window : Outcome(m, w)[v].attempt \in {0, w.attempt}
  BY <1>2, OutcomeFacts, RowFacts
<1>5. \A a \in Attempt : fate'[a] = fate[a] \/ a = w.attempt
  BY <1>1, <1>3 DEF Becomes
<1> HIDE DEF m, w
<1>6. \A R \in journal' : R \in journal \/ \A v \in Window : R[v].attempt # 0 => R[v].attempt \in file'.ledger
  BY <1>1, <1>3, <1>4
<1> QED BY <1>1, <1>3, <1>5, <1>6, EndsLedgers, OwnerFacts, LedgersFrom DEF Ledgers

\* Confirming a row.
LEMMA ConfirmLedgers == ASSUME Base, Ledgers, NEW i \in Instance, NEW v \in Window, Confirm(i, v) PROVE Ledgers'
<1>1. /\ owner = i /\ memory'[i].ledger = memory[i].ledger
      /\ \A j \in Instance \ {i} : memory'[j] = memory[j]
      /\ \A u \in Window : memory'[i].rows[u].attempt = memory[i].rows[u].attempt
  BY ConfirmEffect DEF Base
<1>2. /\ owner' = owner /\ file' = file /\ journal' = journal /\ worker' = worker
      /\ next' = next /\ age' = age /\ fate' = fate /\ volatile' = volatile
  BY DEF Confirm, history
<1>3. Known(memory'[i]) \subseteq memory[i].ledger
  <2>1. Known(memory[i]) \subseteq memory[i].ledger
    BY DEF Ledgers, Kept
  <2> QED BY <1>1, <2>1 DEF Known, Fresh
<1>4. \A j \in Instance : memory'[j].ledger = memory[j].ledger
  BY <1>1
<1> QED BY <1>1, <1>2, <1>3, <1>4, OwnerFacts, LedgersFrom DEF Ledgers

\* Saving.
LEMMA SaveLedgers == ASSUME Base, Ledgers, NEW i \in Instance, Save(i) PROVE Ledgers'
<1>1. /\ SaveOK(i, memory[i]) /\ memory' = memory /\ owner' = owner
      /\ journal' = journal /\ worker' = worker /\ next' = next /\ age' = age /\ fate' = fate
  BY DEF Save, history
<1> QED BY <1>1, SavedLedgers, LedgersFrom DEF Ledgers

\* Clearing keeps the ledger.
LEMMA ClearLedgers == ASSUME Base, Ledgers, NEW i \in Instance, Clear(i) PROVE Ledgers'
<1>1. /\ owner = i /\ \A j \in Instance \ {i} : memory'[j] = memory[j]
      /\ memory[i].ledger \subseteq memory'[i].ledger
      /\ memory'[i].ledger \subseteq memory[i].ledger \cup Known(memory[i])
      /\ Known(memory'[i]) \subseteq memory'[i].ledger
  BY ClearEffect DEF Base
<1>2. fate' = [a \in Attempt |-> IF /\ fate[a] \in {"sent", "rejected"}
                                    /\ a \in {memory[i].rows[w].attempt : w \in Gone(i)}
                                 THEN "cleared" ELSE fate[a]]
  BY ClearEffect DEF Base
<1>3. /\ owner' = owner /\ file' = file /\ journal' = journal /\ worker' = worker
      /\ next' = next /\ age' = age /\ volatile' = volatile
  BY DEF Clear
<1>4. memory'[i].ledger = memory[i].ledger
  <2>1. Known(memory[i]) \subseteq memory[i].ledger
    BY DEF Ledgers, Kept
  <2> QED BY <1>1, <2>1
<1>5. \A a \in Attempt : fate'[a] \in Ran => fate[a] \in Ran
  BY <1>2 DEF Ran
<1>6. \A j \in Instance : memory'[j].ledger = memory[j].ledger
  BY <1>1, <1>4
<1> QED BY <1>1, <1>3, <1>4, <1>5, <1>6, OwnerFacts, LedgersFrom DEF Ledgers

\* What is loaded has the ledger of the file, or of the owner who had it.
LEMMA ClaimLedgers == ASSUME Base, Locking, Ledgers, NEW i \in Instance, Claim(i) PROVE Ledgers'
<1>1. /\ i \notin up \/ owner = i
      /\ worker[i].at = "idle" /\ owner' = i /\ i \in up' /\ memory'[i] = Loaded(memory[i])
      /\ \A j \in Instance \ {i} : j \in up' <=> j \in up /\ worker[j].at # "idle"
      /\ \A j \in Instance \ {i} : memory'[j] = IF j \in up' THEN memory[j] ELSE Empty
      /\ fate' = Forgotten /\ volatile' = {}
  BY ClaimEffect DEF Base
<1>2. /\ file' = file /\ journal' = journal /\ worker' = worker /\ next' = next /\ age' = age
  BY DEF Claim
<1>3. /\ memory[i] \in Documents /\ file \in Documents
      /\ Known(memory[i]) \subseteq memory[i].ledger /\ Known(file) \subseteq file.ledger
  BY DEF Base, Types, Ledgers, Kept
<1>4. /\ Known(memory'[i]) \subseteq memory'[i].ledger /\ file.ledger \subseteq memory'[i].ledger
      /\ memory'[i].ledger \subseteq memory[i].ledger \cup file.ledger
  BY <1>1, <1>3, LoadedFacts
<1>5. memory'[i].ledger \subseteq memory[i].ledger \/ memory'[i].ledger \subseteq file.ledger
  <2>1. CASE i \notin up
    <3>1. memory[i].ledger = {}
      BY <2>1, RowFacts DEF Locking
    <3> QED BY <1>4, <3>1
  <2>2. CASE owner = i
    <3>1. file.ledger \subseteq memory[i].ledger
      BY <2>2, Numbers DEF Ledgers
    <3> QED BY <1>4, <3>1
  <2> QED BY <1>1, <2>1, <2>2
<1>6. \A a \in Attempt : fate'[a] \in Ran => fate[a] \in Ran \/ a \in file'.ledger
  BY <1>1, <1>2, ForgottenFacts DEF Base, Ledgers
<1>7. \A j \in Instance : worker'[j].at \in Flying =>
         j # i /\ worker[j].at \in Flying /\ worker'[j].attempt = worker[j].attempt /\ memory'[j] = memory[j]
  <2>1. \A j \in Instance : worker[j].at \in Flying => worker[j].at # "idle" /\ j \in up
    BY DEF Locking, Flying
  <2> QED BY <1>1, <1>2, <2>1
<1> QED BY <1>1, <1>2, <1>4, <1>5, <1>6, <1>7, LedgersFrom DEF Ledgers

\* A crash loses what is in the file.
LEMMA CrashLedgers == ASSUME Base, Ledgers, NEW i \in Instance, Crash(i) PROVE Ledgers'
<1>1. /\ owner' = IF owner = i THEN NoInstance ELSE owner
      /\ Learns(i, Empty) /\ GoTo(i, Idle)
      /\ \/ fate' = Forgotten /\ volatile' = {}
         \/ fate' = fate /\ volatile' = volatile
      /\ file' = file /\ journal' = journal /\ next' = next /\ age' = age
  BY DEF Crash, Learns
<1>2. /\ memory'[i] = Empty /\ worker'[i] = Idle
      /\ \A j \in Instance \ {i} : memory'[j] = memory[j] /\ worker'[j] = worker[j]
  BY <1>1, RowFacts, IdleFacts, MoveFacts DEF Base
<1>3. \A a \in Attempt : fate'[a] \in Ran => fate[a] \in Ran \/ a \in file'.ledger
  BY <1>1, ForgottenFacts DEF Base, Ledgers
<1>4. \A j \in Instance : worker'[j].at \in Flying => j # i
  BY <1>2, IdleFacts DEF Flying
<1>5. owner' # NoInstance => owner' = owner /\ owner # i
  BY <1>1
<1> QED BY <1>1, <1>2, <1>3, <1>4, <1>5, OwnerFacts, LedgersFrom DEF Ledgers

\* As time goes on, fewer attempts are of the last day.
LEMMA TickLedgers == ASSUME Base, Ledgers, Tick PROVE Ledgers'
<1>1. /\ age' \in [Attempt -> 0..Horizon] /\ \A a \in Attempt : age'[a] >= age[a]
      /\ memory' = memory /\ owner' = owner /\ file' = file /\ journal' = journal
      /\ worker' = worker /\ next' = next /\ fate' = fate /\ volatile' = volatile
  BY TickFacts
<1>2. next \in 0..MaxAttempt /\ next \in Nat /\ age \in [Attempt -> 0..Horizon]
  BY Numbers DEF Base, Types
<1>3. ASSUME NEW m, Kept(m, next, age) PROVE Kept(m, next, age')
  <2> DEFINE S == {a \in m.ledger : age'[a] < Day}
             T == {a \in m.ledger : age[a] < Day}
  <2>1. S \subseteq T
    <3>1. ASSUME NEW a \in S PROVE a \in T
      <4>1. a \in m.ledger /\ a \in Attempt
        BY <1>2, <1>3, <3>1, Numbers DEF Kept, Attempt
      <4>2. age'[a] \in Nat /\ age[a] \in Nat /\ Day \in Nat /\ age'[a] < Day /\ age'[a] >= age[a]
        BY <1>1, <1>2, <3>1, <4>1, Numbers
      <4> QED BY <4>1, <4>2
    <3> QED BY <3>1
  <2>2. T \subseteq 1..next /\ Cardinality(T) <= MaxPerDay
    BY <1>3 DEF Kept
  <2> HIDE DEF S, T
  <2>3. Cardinality(S) \in Nat /\ Cardinality(T) \in Nat /\ Cardinality(S) <= Cardinality(T)
    BY <1>2, <2>1, <2>2, FewerFacts
  <2>4. Cardinality(S) <= MaxPerDay
    BY <2>2, <2>3, Numbers
  <2> QED BY <1>3, <2>4 DEF Kept, S
<1> QED BY <1>1, <1>3 DEF Ledgers

\* Every step keeps the ledgers.
LEMMA LedgersStep == ASSUME Base, Locking, Ledgers, [Next]_vars PROVE Ledgers'
<1>1. CASE UNCHANGED vars
  BY <1>1 DEF vars, history, Ledgers, Kept, Known, Fresh
<1>2. CASE Next
  BY <1>2, AcquireLedgers, CompactLedgers, ClearJournalLedgers, AdmitLedgers,
     SaveAdmissionLedgers, SendLedgers, RecordLedgers, AbandonLedgers, FinishLedgers,
     ConfirmLedgers, SaveLedgers, ClearLedgers, ClaimLedgers, CrashLedgers, TickLedgers DEF Next
<1> QED BY <1>1, <1>2

\* Every step keeps types and numbering.
LEMMA BaseStep == ASSUME Base, Ledgers, [Next]_vars PROVE Base'
<1>1. CASE UNCHANGED vars
  BY <1>1 DEF vars, history, Base, Types, Numbered
<1>2. \A a \in volatile : a <= next
  <2>1. next \in Nat /\ volatile \subseteq 1..next
    BY Numbers DEF Base, Types, Ledgers, Kept
  <2> QED BY <2>1
<1>3. CASE Next
  BY <1>2, <1>3, AcquireBase, CompactBase, ClearJournalBase, AdmitBase,
     SaveAdmissionBase, SendBase, RecordBase, AbandonBase, FinishBase,
     ConfirmBase, SaveBase, ClearBase, ClaimBase, CrashBase, TickBase DEF Next
<1> QED BY <1>1, <1>3
-----------------------------------------------------------------------------
(* Where attempts are remembered.                                           *)

Done == {"completed", "confirmed"}

\* The rows the owner knows, and all rows that file, journal or owner tell.
OwnerRows == {memory[j].rows : j \in {owner} \ {NoInstance}}
Everywhere == {file.rows} \cup journal \cup OwnerRows

\* A row that stands in the way of all while attempt a may have run.
Holding(r, a) == \/ r.state = "pending" /\ ~Blocked(r) /\ r.until >= Uncertain
                 \/ r.state = "uncertain" /\ r.attempt = a /\ r.until >= Uncertain

\* A row that suppresses its window for a whole cycle.
Covering(r, v) == r.state \in Done /\ r.until = Length[v] /\ ~Blocked(r)

\* S remembers a, and nothing in T overrules it.
SentGuard(S, T, a) ==
    \E v \in Window : /\ \E R \in S : R[v].attempt >= a
                      /\ \A R \in T : R[v].attempt >= a => Holding(R[v], a)
DoneGuard(S, T, a, v) ==
    /\ \E R \in S : R[v].attempt >= a /\ R[v].state \in Done
    /\ \A R \in T : R[v].attempt >= a => \/ Covering(R[v], v)
                                         \/ R[v].state = "pending" /\ R[v].attempt = a

\* By fates f, ages g and covered windows c, a may still run, or its cycle does in v.
Unknown(f, g, a) == f[a] = "sent" /\ g[a] < Uncertain
Running(f, g, c, a, v) == f[a] = "completed" /\ v \in c[a] /\ g[a] < Length[v]

Guarded(S, T, f, g, c, a) ==
    /\ Unknown(f, g, a) => SentGuard(S, T, a)
    /\ \A v \in Window : Running(f, g, c, a, v) => DoneGuard(S, T, a, v)

Guarding(S, V) == \A a \in (1..next) \ V : Guarded(S, Everywhere, fate, age, covered, a)

OnDisk == Guarding({file.rows} \cup journal, volatile)
InMemory == owner # NoInstance => Guarding(OwnerRows \cup journal, {})

\* Between merging and admitting the journal is not needed.
Caught == \A i \in Instance :
    /\ worker[i].at = "saved" => /\ Guarding({file.rows}, volatile)
                                 /\ owner # NoInstance => Guarding(OwnerRows, {})
    /\ worker[i].at \in {"merged", "ready"} /\ owner = i => Guarding(OwnerRows, {})

\* Of an attempt whose outcome only the owner knows, the file tells the admission.
Untold == \A a \in volatile :
    /\ \E v \in Window : /\ file.rows[v].attempt = a /\ file.rows[v].state = "pending"
                         /\ ~Blocked(file.rows[v]) /\ file.rows[v].until >= Uncertain
    /\ \A v \in Window : file.rows[v].attempt <= a
    /\ \A R \in journal, v \in Window : R[v].attempt < a

Remembered == OnDisk /\ InMemory /\ Caught /\ Untold

\* No attempt before n stands in the way of it in window w.
Far(w, n, f, g, c) == \A a \in 1..(n - 1) : ~Unknown(f, g, a) /\ ~Running(f, g, c, a, w)

\* Attempt n is told of by pending rows for window w alone.
PendingOnly(R, w, n) == \A v \in Window : R[v].attempt = n => v = w /\ PendingRow(R[v], n)

\* An attempt in flight is the last one, and was admitted far from the others.
Current == \A i \in Instance : worker[i].at \in Flying =>
    /\ worker[i].attempt = next
    /\ \A R \in journal, v \in Window : R[v].attempt < next
    /\ worker[i].at \in {"admitting", "admitted"} => fate[next] = "admitted"
    /\ worker[i].at = "sent" => fate[next] = "sent"
    /\ worker[i].at # "admitting" \/ owner = i => Far(worker[i].window, next, fate, age, covered)

\* Until its outcome is recorded, all that is told of it is its admission.
Sending == \A i \in Instance : LET w == worker[i].window IN
    /\ worker[i].at \in {"admitting", "admitted", "sent"} =>
           /\ memory[i].rows[w].attempt = next
           /\ \A R \in Everywhere \cup {memory[i].rows} : PendingOnly(R, w, next)
           /\ next \notin volatile
    /\ worker[i].at \in {"admitted", "sent"} =>
           /\ volatile = {}
           /\ \A R \in {file.rows} \cup OwnerRows : R[w].attempt = next

\* Of attempt n, sent for window w, all T tells is what m and its row for w tell, or less.
Told(T, m, w, n, c) ==
    /\ m[w].state # "pending"
    /\ m[w].state \in Done =>
           /\ \A v \in c[n] : m[v].attempt = n
           /\ \A R \in T \cup {m}, v \in Window : R[v].attempt = n =>
                  Covering(R[v], v) \/ (v = w /\ PendingRow(R[v], n))
    /\ m[w].state \notin Done => \A v \in Window : m[v].attempt = n => v = w
    /\ m[w].state = "uncertain" => \A R \in T \cup {m} : R[w].attempt = n => Holding(R[w], n)

Recorded == \A i \in Instance : LET w == worker[i].window IN
    worker[i].at = "recorded" =>
        /\ volatile \subseteq {next}
        /\ memory[i].rows[w].attempt = next => Told(Everywhere, memory[i].rows, w, next, covered)

InFlight == Current /\ Sending /\ Recorded

Inv == Base /\ Locking /\ Ledgers /\ Remembered /\ InFlight
-----------------------------------------------------------------------------
(* How guards move.                                                         *)

\* Each row that T2 tells is one that T tells.
From(T2, T) == \A R2 \in T2, v \in Window : R2[v].attempt # 0 => \E R \in T : R[v] = R2[v]

\* The second history asks no more of attempt a than the first.
Eases(f, g, c, f2, g2, c2, a) ==
    /\ Unknown(f2, g2, a) => Unknown(f, g, a)
    /\ \A v \in Window : Running(f2, g2, c2, a, v) => Running(f, g, c, a, v)

\* A guard of what was sent moves with the rows that hold.
LEMMA SentMove ==
  ASSUME NEW a \in Nat \ {0}, NEW S, NEW T, NEW S2, NEW T2, S \subseteq T, SentGuard(S, T, a),
         \A v \in Window, R2 \in T2 : R2[v].attempt >= a =>
             (\E R \in T : R[v] = R2[v]) \/ Holding(R2[v], a),
         \A v \in Window, R \in S : R[v].attempt >= a /\ Holding(R[v], a) =>
             \E R2 \in S2 : R2[v].attempt >= a
  PROVE  SentGuard(S2, T2, a)
<1>1. PICK v \in Window : /\ \E R \in S : R[v].attempt >= a
                          /\ \A R \in T : R[v].attempt >= a => Holding(R[v], a)
  BY DEF SentGuard
<1>2. \E R2 \in S2 : R2[v].attempt >= a
  BY <1>1
<1>3. \A R2 \in T2 : R2[v].attempt >= a => Holding(R2[v], a)
  BY <1>1
<1> QED BY <1>2, <1>3 DEF SentGuard

\* A guard of a cycle moves with the rows that cover.
LEMMA DoneMove ==
  ASSUME NEW a \in Nat \ {0}, NEW v \in Window, NEW S, NEW T, NEW S2, NEW T2, S \subseteq T,
         DoneGuard(S, T, a, v),
         \A R2 \in T2 : R2[v].attempt >= a => (\E R \in T : R[v] = R2[v]) \/ Covering(R2[v], v),
         \A R \in S : R[v].attempt >= a /\ Covering(R[v], v) =>
             \E R2 \in S2 : R2[v].attempt >= a /\ R2[v].state \in Done
  PROVE  DoneGuard(S2, T2, a, v)
<1>1. /\ \E R \in S : R[v].attempt >= a /\ R[v].state \in Done
      /\ \A R \in T : R[v].attempt >= a => \/ Covering(R[v], v)
                                           \/ R[v].state = "pending" /\ R[v].attempt = a
  BY DEF DoneGuard
<1>2. \E R2 \in S2 : R2[v].attempt >= a /\ R2[v].state \in Done
  BY <1>1 DEF Done
<1>3. \A R2 \in T2 : R2[v].attempt >= a => \/ Covering(R2[v], v)
                                           \/ R2[v].state = "pending" /\ R2[v].attempt = a
  BY <1>1
<1> QED BY <1>2, <1>3 DEF DoneGuard

\* Guards move with rows that stay.
LEMMA GuardedMove ==
  ASSUME NEW a \in Nat \ {0}, NEW S, NEW T, NEW S2, NEW T2,
         NEW f, NEW g, NEW c, NEW f2, NEW g2, NEW c2,
         S \subseteq T, From(T2, T), From(S, S2), Eases(f, g, c, f2, g2, c2, a),
         Guarded(S, T, f, g, c, a)
  PROVE  Guarded(S2, T2, f2, g2, c2, a)
<1>1. \A v \in Window, R2 \in T2 : R2[v].attempt >= a => \E R \in T : R[v] = R2[v]
  BY DEF From
<1>2. \A v \in Window, R \in S : R[v].attempt >= a => \E R2 \in S2 : R2[v] = R[v]
  BY DEF From
<1>3. ASSUME Unknown(f2, g2, a) PROVE SentGuard(S2, T2, a)
  <2>1. SentGuard(S, T, a)
    BY <1>3 DEF Eases, Guarded
  <2>2. \A v \in Window, R \in S : R[v].attempt >= a => \E R2 \in S2 : R2[v].attempt >= a
    BY <1>2
  <2> QED BY <1>1, <2>1, <2>2, SentMove
<1>4. ASSUME NEW v \in Window, Running(f2, g2, c2, a, v) PROVE DoneGuard(S2, T2, a, v)
  <2>1. DoneGuard(S, T, a, v)
    BY <1>4 DEF Eases, Guarded
  <2>2. \A R \in S : R[v].attempt >= a /\ Covering(R[v], v) =>
           \E R2 \in S2 : R2[v].attempt >= a /\ R2[v].state \in Done
    BY <1>2 DEF Covering
  <2> QED BY <1>1, <2>1, <2>2, DoneMove
<1> QED BY <1>3, <1>4 DEF Guarded

\* Merged rows guard what their sources guarded.
LEMMA GuardedMerged ==
  ASSUME NEW a \in Nat \ {0}, NEW S, NEW T, NEW M, NEW T2, NEW f, NEW g, NEW c,
         S \subseteq T, From(T2, T), T \subseteq Rows, M \in Rows,
         \A v \in Window : \E R \in T : M[v] = R[v],
         \A v \in Window, R \in S : ~Newer(R[v], M[v]),
         Guarded(S, T, f, g, c, a)
  PROVE  Guarded({M}, T2, f, g, c, a)
<1>1. \A v \in Window, R2 \in T2 : R2[v].attempt >= a => \E R \in T : R[v] = R2[v]
  BY DEF From
<1>2. ASSUME NEW v \in Window, NEW R \in S, R[v].attempt >= a
      PROVE  /\ M[v].attempt >= R[v].attempt /\ M[v].attempt >= a
             /\ M[v].attempt = R[v].attempt => Phase(M[v]) >= Phase(R[v])
  <2>1. R[v] \in Row /\ M[v] \in Row
    BY RowFacts
  <2>2. ~Newer(R[v], M[v])
    OBVIOUS
  <2> QED BY <1>2, <2>1, <2>2, RowFacts DEF Newer
<1>3. ASSUME Unknown(f, g, a) PROVE SentGuard({M}, T2, a)
  <2>1. SentGuard(S, T, a)
    BY <1>3 DEF Guarded
  <2>2. \A v \in Window, R \in S : R[v].attempt >= a => \E R2 \in {M} : R2[v].attempt >= a
    BY <1>2
  <2> QED BY <1>1, <2>1, <2>2, SentMove
<1>4. ASSUME NEW v \in Window, Running(f, g, c, a, v) PROVE DoneGuard({M}, T2, a, v)
  <2>1. DoneGuard(S, T, a, v)
    BY <1>4 DEF Guarded
  <2>2. ASSUME NEW R \in S, R[v].attempt >= a, Covering(R[v], v)
        PROVE  M[v].attempt >= a /\ M[v].state \in Done
    <3>1. M[v].attempt >= a /\ M[v].attempt >= R[v].attempt
          /\ (M[v].attempt = R[v].attempt => Phase(M[v]) >= Phase(R[v]))
      BY <1>2, <2>2
    <3>2. Covering(M[v], v) \/ (M[v].state = "pending" /\ M[v].attempt = a)
      BY <2>1, <3>1 DEF DoneGuard
    <3>3. R[v] \in Row /\ M[v] \in Row
      BY RowFacts
    <3>4. ~(M[v].state = "pending" /\ M[v].attempt = a)
      BY <2>2, <3>1, <3>3, RowFacts DEF Covering, Done, Phase
    <3> QED BY <3>1, <3>2, <3>4 DEF Covering
  <2> QED BY <1>1, <2>1, <2>2, DoneMove
<1> QED BY <1>3, <1>4 DEF Guarded

\* What is told, by whom.
LEMMA EverywhereFacts ==
  ASSUME Base
  PROVE  /\ Everywhere \subseteq Rows /\ \A R \in Everywhere : Sound(R, next)
         /\ OwnerRows = IF owner = NoInstance THEN {} ELSE {memory[owner].rows}
         /\ file.rows \in Everywhere /\ journal \subseteq Everywhere /\ OwnerRows \subseteq Everywhere
<1>1. OwnerRows = IF owner = NoInstance THEN {} ELSE {memory[owner].rows}
  BY DEF OwnerRows
<1>2. OwnerRows \subseteq Rows /\ \A R \in OwnerRows : Sound(R, next)
  <2>1. \A j \in Instance : memory[j].rows \in Rows /\ Sound(memory[j].rows, next)
    BY RowFacts DEF Base, Types, Numbered, Documents
  <2> QED BY <1>1, <2>1, OwnerFacts
<1>3. file.rows \in Rows /\ Sound(file.rows, next) /\ journal \subseteq Rows /\ \A R \in journal : Sound(R, next)
  BY RowFacts DEF Base, Types, Numbered, Documents
<1> QED BY <1>1, <1>2, <1>3 DEF Everywhere

\* What is told next.
LEMMA NextRows ==
  /\ OwnerRows' = IF owner' = NoInstance THEN {} ELSE {memory'[owner'].rows}
  /\ Everywhere' = {file'.rows} \cup journal' \cup OwnerRows'
  BY DEF OwnerRows, Everywhere

\* What is the same is from there; what is from two sets is from their union.
LEMMA FromFacts ==
  /\ \A S, T : S \subseteq T => From(S, T)
  /\ \A S1, S2, T : From(S1, T) /\ From(S2, T) => From(S1 \cup S2, T)
  BY DEF From

\* A history that stays eases.
LEMMA EasesFacts ==
  /\ \A f, g, c, a : Eases(f, g, c, f, g, c, a)
  /\ \A f, g, c, f2, c2, a : f2[a] = f[a] /\ c2[a] = c[a] => Eases(f, g, c, f2, g, c2, a)
  BY DEF Eases, Unknown, Running

\* A step that lets rows stay lets guards stay.
LEMMA GuardingMove ==
  ASSUME Base, NEW S, NEW V, NEW S2, NEW V2, S \subseteq Everywhere, Guarding(S, V),
         From(Everywhere', Everywhere), From(S, S2), V \subseteq V2,
         \A a \in 1..next : Eases(fate, age, covered, fate', age', covered', a)
  PROVE  \A a \in (1..next) \ V2 : Guarded(S2, Everywhere', fate', age', covered', a)
<1> SUFFICES ASSUME NEW a \in (1..next) \ V2
             PROVE  Guarded(S2, Everywhere', fate', age', covered', a)
  OBVIOUS
<1>1. a \in 1..next /\ a \notin V /\ next \in Nat
  BY Numbers DEF Base, Types
<1>2. a \in Nat \ {0}
  BY <1>1
<1>3. Guarded(S, Everywhere, fate, age, covered, a)
  BY <1>1 DEF Guarding
<1>4. Eases(fate, age, covered, fate', age', covered', a)
  BY <1>1
<1> QED BY <1>2, <1>3, <1>4, GuardedMove

\* A step that moves nothing but ends a worker, or eases the history.
LEMMA UnmovedRemembered ==
  ASSUME Base, Remembered, next' = next, file' = file, journal' = journal,
         volatile' = volatile, owner' = owner, OwnerRows' = OwnerRows,
         \A a \in 1..next : Eases(fate, age, covered, fate', age', covered', a),
         \A i \in Instance : worker'[i].at = worker[i].at
                             \/ worker'[i].at \notin {"saved", "merged", "ready"}
  PROVE  Remembered'
<1>1. Everywhere' = Everywhere
  BY DEF Everywhere
<1>2. From(Everywhere', Everywhere)
  BY <1>1, FromFacts
<1>3. \A S, V : S \subseteq Everywhere /\ Guarding(S, V) =>
         \A a \in (1..next) \ V : Guarded(S, Everywhere', fate', age', covered', a)
  <2> TAKE S, V
  <2> SUFFICES ASSUME S \subseteq Everywhere, Guarding(S, V)
               PROVE  \A a \in (1..next) \ V : Guarded(S, Everywhere', fate', age', covered', a)
    OBVIOUS
  <2>1. From(S, S)
    BY FromFacts
  <2> QED BY <1>2, <2>1, GuardingMove
<1>4. /\ {file.rows} \cup journal \subseteq Everywhere /\ OwnerRows \cup journal \subseteq Everywhere
      /\ {file.rows} \subseteq Everywhere /\ OwnerRows \subseteq Everywhere
  BY DEF Everywhere
<1>5. OnDisk'
  BY <1>3, <1>4 DEF Remembered, OnDisk, Guarding
<1>6. InMemory'
  BY <1>3, <1>4 DEF Remembered, InMemory, Guarding
<1>7. Caught'
  BY <1>3, <1>4 DEF Remembered, Caught, Guarding
<1>8. Untold'
  BY DEF Remembered, Untold
<1> QED BY <1>5, <1>6, <1>7, <1>8 DEF Remembered

\* A save of what the owner knows.
LEMMA SavedRemembered ==
  ASSUME Base, Remembered, NEW i \in Instance, SaveOK(i, memory[i]),
         next' = next, journal' = journal, owner' = owner, OwnerRows' = OwnerRows,
         fate' = fate, age' = age, covered' = covered,
         \A j \in Instance : \/ worker'[j].at = worker[j].at
                             \/ worker'[j].at \notin {"saved", "merged", "ready"}
                             \/ worker[j].at = "merged" /\ j = i
  PROVE  Remembered'
<1>1. owner = i /\ file'.rows = memory[i].rows /\ volatile' = {} /\ owner # NoInstance
  <2>1. memory[i] \in Documents
    BY DEF Base, Types
  <2>2. owner = i /\ file'.rows = memory[i].rows /\ volatile' = {}
    BY <2>1, SaveFacts
  <2> QED BY <2>2, Numbers
<1>2. OwnerRows = {memory[i].rows} /\ OwnerRows = {file'.rows}
  BY <1>1, EverywhereFacts
<1>3. Everywhere' \subseteq Everywhere /\ From(Everywhere', Everywhere)
  BY <1>2, NextRows, FromFacts DEF Everywhere
<1>4. \A a \in 1..next : Eases(fate, age, covered, fate', age', covered', a)
  BY EasesFacts
<1>5. \A S, V : S \subseteq Everywhere /\ Guarding(S, V) =>
         \A a \in (1..next) \ V : Guarded(S, Everywhere', fate', age', covered', a)
  <2> TAKE S, V
  <2> SUFFICES ASSUME S \subseteq Everywhere, Guarding(S, V)
               PROVE  \A a \in (1..next) \ V : Guarded(S, Everywhere', fate', age', covered', a)
    OBVIOUS
  <2>1. From(S, S)
    BY FromFacts
  <2> QED BY <1>3, <1>4, <2>1, GuardingMove
<1>6. OwnerRows \cup journal \subseteq Everywhere /\ OwnerRows \subseteq Everywhere
  BY DEF Everywhere
<1>7. \A a \in 1..next : Guarded(OwnerRows \cup journal, Everywhere', fate', age', covered', a)
  BY <1>1, <1>5, <1>6 DEF Remembered, InMemory
<1>8. OnDisk' /\ InMemory'
  BY <1>1, <1>2, <1>7 DEF OnDisk, InMemory, Guarding
<1>9. Caught'
  <2> SUFFICES ASSUME NEW j \in Instance, \/ worker'[j].at = "saved"
                                          \/ worker'[j].at \in {"merged", "ready"} /\ owner = j
               PROVE  \A a \in 1..next : Guarded(OwnerRows, Everywhere', fate', age', covered', a)
    BY <1>1, <1>2 DEF Caught, Guarding
  <2>1. CASE worker'[j].at = worker[j].at
    BY <1>1, <1>5, <1>6, <2>1 DEF Remembered, Caught
  <2>2. CASE worker[j].at = "merged" /\ j = i
    BY <1>1, <1>5, <1>6, <2>2 DEF Remembered, Caught
  <2> QED BY <2>1, <2>2
<1>10. Untold'
  BY <1>1 DEF Untold
<1> QED BY <1>8, <1>9, <1>10 DEF Remembered
-----------------------------------------------------------------------------
(* No step forgets.                                                         *)

\* The initial state.
LEMMA RememberedInit == Init => Remembered
<1> SUFFICES ASSUME Init PROVE Remembered
  OBVIOUS
<1>1. next = 0 /\ volatile = {} /\ \A i \in Instance : worker[i].at = "idle"
  BY IdleFacts DEF Init
<1>2. 1..next = {}
  BY <1>1
<1> QED BY <1>1, <1>2 DEF Remembered, OnDisk, InMemory, Caught, Untold, Guarding

\* Merging.
LEMMA AcquireRemembered == ASSUME Base, Remembered, NEW i \in Instance, Acquire(i) PROVE Remembered'
<1> DEFINE M == memory'[i].rows
<1>1. /\ owner = i /\ \A j \in Instance : worker[j].at = "idle"
      /\ \A j \in Instance \ {i} : worker'[j] = worker[j]
      /\ M = Merged(Sources(i)) /\ worker'[i].at \in {"merged", "ready"}
  BY AcquireEffect DEF Base
<1>2. /\ owner' = owner /\ file' = file /\ journal' = journal /\ next' = next
      /\ age' = age /\ fate' = fate /\ covered' = covered /\ volatile' = volatile
  BY DEF Acquire, history
<1>3. owner # NoInstance
  BY <1>1, Numbers
<1>4. OwnerRows = {memory[i].rows} /\ OwnerRows' = {M} /\ Sources(i) = Everywhere
  BY <1>1, <1>2, <1>3, EverywhereFacts, NextRows DEF Sources, Everywhere
<1>5. /\ M \in Rows /\ \A v \in Window : \E R \in Everywhere : M[v] = R[v]
      /\ \A v \in Window, R \in Everywhere : ~Newer(R[v], M[v])
      /\ Everywhere \subseteq Rows
  <2>1. Sources(i) \subseteq Rows /\ Sources(i) # {}
    BY <1>4, EverywhereFacts
  <2> HIDE DEF M
  <2> QED BY <1>1, <1>4, <2>1, MergedFacts
<1> HIDE DEF M
<1>6. From(Everywhere', Everywhere)
  <2>1. Everywhere' = {file.rows} \cup journal \cup {M}
    BY <1>2, <1>4, NextRows
  <2>2. From({M}, Everywhere) /\ From({file.rows} \cup journal, Everywhere)
    BY <1>5, FromFacts DEF From, Everywhere
  <2> QED BY <2>1, <2>2, FromFacts
<1>7. \A a \in 1..next : Eases(fate, age, covered, fate', age', covered', a)
  BY <1>2, EasesFacts
<1>8. OnDisk'
  <2>1. {file.rows} \cup journal \subseteq Everywhere
    BY DEF Everywhere
  <2>2. From({file.rows} \cup journal, {file.rows} \cup journal)
    BY FromFacts
  <2>3. \A a \in (1..next) \ volatile :
           Guarded({file.rows} \cup journal, Everywhere', fate', age', covered', a)
    BY <1>6, <1>7, <2>1, <2>2, GuardingMove DEF Remembered, OnDisk
  <2> QED BY <1>2, <2>3 DEF OnDisk, Guarding
<1>9. \A a \in 1..next : Guarded({M}, Everywhere', fate', age', covered', a)
  <2> SUFFICES ASSUME NEW a \in 1..next
               PROVE  Guarded({M}, Everywhere', fate, age, covered, a)
    BY <1>2
  <2>1. Guarded(OwnerRows \cup journal, Everywhere, fate, age, covered, a)
    BY <1>3 DEF Remembered, InMemory, Guarding
  <2>2. OwnerRows \cup journal \subseteq Everywhere
    BY DEF Everywhere
  <2>3. a \in Nat \ {0}
    BY Numbers DEF Base, Types
  <2> QED BY <1>5, <1>6, <2>1, <2>2, <2>3, GuardedMerged
<1>10. InMemory'
  <2>1. ASSUME NEW a \in 1..next
        PROVE  Guarded({M} \cup journal', Everywhere', fate', age', covered', a)
    <3>1. From({M}, {M} \cup journal') /\ {M} \subseteq Everywhere' /\ From(Everywhere', Everywhere')
      BY <1>4, NextRows, FromFacts
    <3>2. a \in Nat \ {0}
      BY Numbers DEF Base, Types
    <3>3. Eases(fate', age', covered', fate', age', covered', a)
      BY EasesFacts
    <3>4. Guarded({M}, Everywhere', fate', age', covered', a)
      BY <1>9
    <3> QED BY <3>1, <3>2, <3>3, <3>4, GuardedMove
  <2> QED BY <1>2, <1>4, <2>1 DEF InMemory, Guarding
<1>11. Caught'
  BY <1>1, <1>2, <1>4, <1>9 DEF Caught, Guarding
<1>12. Untold'
  BY <1>2 DEF Remembered, Untold
<1> QED BY <1>8, <1>10, <1>11, <1>12 DEF Remembered

\* Saving what was merged.
LEMMA CompactRemembered == ASSUME Base, Remembered, NEW i \in Instance, Compact(i) PROVE Remembered'
<1>1. /\ owner' = owner /\ memory' = memory /\ journal' = journal /\ next' = next
      /\ age' = age /\ fate' = fate /\ covered' = covered /\ worker[i].at = "merged"
      /\ \/ SaveOK(i, memory[i]) /\ GoTo(i, [Idle EXCEPT !.at = "saved"])
         \/ SaveOK(i, memory[i]) /\ GoTo(i, [Idle EXCEPT !.at = "ready"])
         \/ file' = file /\ volatile' = volatile /\ GoTo(i, [Idle EXCEPT !.at = "ready"])
  BY DEF Compact, SaveFails, history
<1>2. OwnerRows' = OwnerRows
  BY <1>1 DEF OwnerRows
<1>3. "saved" \in Steps /\ "ready" \in Steps
  BY DEF Steps
<1>4. \A j \in Instance \ {i} : worker'[j] = worker[j]
  BY <1>1, <1>3, MoveFacts, RestFacts DEF Base
<1>5. CASE SaveOK(i, memory[i])
  BY <1>1, <1>2, <1>4, <1>5, SavedRemembered
<1>6. CASE file' = file /\ volatile' = volatile /\ GoTo(i, [Idle EXCEPT !.at = "ready"])
  <2>1. worker'[i].at = "ready"
    BY <1>3, <1>6, MoveFacts, RestFacts DEF Base
  <2>2. Everywhere' = Everywhere
    BY <1>1, <1>2, <1>6 DEF Everywhere
  <2>3. OnDisk' /\ InMemory' /\ Untold'
    BY <1>1, <1>2, <1>6, <2>2 DEF Remembered, OnDisk, InMemory, Untold, Guarding
  <2>4. Caught'
    BY <1>1, <1>2, <1>4, <1>6, <2>1, <2>2 DEF Remembered, Caught, Guarding
  <2> QED BY <2>3, <2>4 DEF Remembered
<1> QED BY <1>1, <1>5, <1>6

\* Clearing the journal once the file has it all.
LEMMA ClearJournalRemembered ==
  ASSUME Base, Locking, Remembered, NEW i \in Instance, ClearJournal(i) PROVE Remembered'
<1>1. /\ worker[i].at = "saved" /\ journal' \subseteq journal
      /\ GoTo(i, [Idle EXCEPT !.at = "ready"])
      /\ owner' = owner /\ memory' = memory /\ file' = file /\ next' = next
      /\ age' = age /\ fate' = fate /\ covered' = covered /\ volatile' = volatile
  BY DEF ClearJournal, history
<1>2. worker'[i].at = "ready" /\ \A j \in Instance \ {i} : worker'[j] = worker[j]
  <2>1. "ready" \in Steps
    BY DEF Steps
  <2> QED BY <1>1, <2>1, MoveFacts, RestFacts DEF Base
<1>3. OwnerRows' = OwnerRows
  BY <1>1 DEF OwnerRows
<1>4. From(Everywhere', Everywhere)
  BY <1>1, <1>3, FromFacts DEF Everywhere
<1>5. \A a \in 1..next : Eases(fate, age, covered, fate', age', covered', a)
  BY <1>1, EasesFacts
<1>6. \A S2 : {file.rows} \subseteq S2 =>
         \A a \in (1..next) \ volatile : Guarded(S2, Everywhere', fate', age', covered', a)
  <2> TAKE S2
  <2> SUFFICES ASSUME {file.rows} \subseteq S2
               PROVE  \A a \in (1..next) \ volatile : Guarded(S2, Everywhere', fate', age', covered', a)
    OBVIOUS
  <2>1. From({file.rows}, S2) /\ {file.rows} \subseteq Everywhere
    BY FromFacts DEF Everywhere
  <2>2. Guarding({file.rows}, volatile)
    BY <1>1 DEF Remembered, Caught
  <2> QED BY <1>4, <1>5, <2>1, <2>2, GuardingMove
<1>7. \A S2 : owner # NoInstance /\ OwnerRows \subseteq S2 =>
         \A a \in 1..next : Guarded(S2, Everywhere', fate', age', covered', a)
  <2> TAKE S2
  <2> SUFFICES ASSUME owner # NoInstance, OwnerRows \subseteq S2
               PROVE  \A a \in (1..next) \ {} : Guarded(S2, Everywhere', fate', age', covered', a)
    OBVIOUS
  <2>1. From(OwnerRows, S2) /\ OwnerRows \subseteq Everywhere
    BY FromFacts DEF Everywhere
  <2>2. Guarding(OwnerRows, {})
    BY <1>1 DEF Remembered, Caught
  <2> QED BY <1>4, <1>5, <2>1, <2>2, GuardingMove
<1>8. OnDisk'
  BY <1>1, <1>6 DEF OnDisk, Guarding
<1>9. InMemory'
  BY <1>1, <1>3, <1>7 DEF InMemory, Guarding
<1>10. Caught'
  <2>1. \A j \in Instance \ {i} : worker'[j].at = "idle"
    BY <1>1, <1>2 DEF Locking
  <2>2. owner = i => owner # NoInstance
    BY Numbers
  <2> QED BY <1>1, <1>2, <1>3, <1>7, <2>1, <2>2 DEF Caught, Guarding
<1>11. Untold'
  BY <1>1 DEF Remembered, Untold
<1> QED BY <1>8, <1>9, <1>10, <1>11 DEF Remembered

\* A row that holds or covers is not pruned and suppresses.
LEMMA StandsFacts ==
  ASSUME Base, NEW i \in Instance, NEW v \in Window, NEW a \in 1..next,
         memory[i].rows[v].attempt >= a
  PROVE  LET r == memory[i].rows[v] IN
         /\ Holding(r, a) /\ age[a] < Uncertain =>
                /\ ~Expired(r) /\ Suppresses(r) /\ r.attempt # 0 /\ (Failed(r) \/ r.state = "pending")
         /\ Covering(r, v) /\ age[a] < Length[v] => ~Expired(r) /\ Suppresses(r)
<1> DEFINE r == memory[i].rows[v]
<1>1. r \in Row /\ r.attempt <= next /\ next \in 0..MaxAttempt
  <2>1. memory[i].rows \in Rows /\ Sound(memory[i].rows, next)
    BY RowFacts DEF Base, Types, Numbered, Documents
  <2> QED BY <2>1, RowFacts DEF Base, Types, Sound, Good
<1>2. r.attempt \in 1..next /\ r.attempt \in Attempt /\ a \in Attempt /\ r.attempt >= a /\ r.attempt # 0
  <2>1. r.attempt \in Nat /\ r.attempt >= a /\ MaxAttempt \in Nat
    BY <1>1, RowFacts, Numbers
  <2> HIDE DEF r
  <2> QED BY <1>1, <2>1 DEF Attempt
<1> HIDE DEF r
<1>3. age[r.attempt] <= age[a] /\ age[r.attempt] \in Nat /\ age[a] \in Nat
  <2>1. age[r.attempt] \in Nat /\ age[a] \in Nat
    BY <1>2, Numbers DEF Base, Types
  <2>2. age[a] >= age[r.attempt]
    BY <1>2 DEF Base, Numbered
  <2> QED BY <2>1, <2>2
<1>4. ASSUME Holding(r, a), age[a] < Uncertain
      PROVE  ~Expired(r) /\ Suppresses(r) /\ r.attempt # 0 /\ (Failed(r) \/ r.state = "pending")
  <2>1. r.until \in Nat /\ Uncertain \in Nat /\ r.until >= Uncertain
    BY <1>1, <1>4, RowFacts, Numbers DEF Holding
  <2>2. age[r.attempt] < r.until
    BY <1>3, <1>4, <2>1
  <2> QED BY <1>2, <1>3, <1>4, <2>1, <2>2 DEF Holding, Expired, Suppresses, Failed
<1>5. ASSUME Covering(r, v), age[a] < Length[v] PROVE ~Expired(r) /\ Suppresses(r)
  <2>1. r.until = Length[v] /\ Length[v] \in Nat
    BY <1>5, Numbers DEF Covering
  <2>2. age[r.attempt] < r.until
    BY <1>3, <1>5, <2>1
  <2> QED BY <1>2, <1>3, <2>1, <2>2 DEF Expired, Suppresses
<1> QED BY <1>4, <1>5 DEF r

\* What the owner admits is far from all that went before.
LEMMA AdmitFar ==
  ASSUME Base, Remembered, NEW i \in Instance, NEW need \in Needs, Admit(i, need), owner = i
  PROVE  \A a \in 1..next : /\ ~Unknown(fate, age, a)
                            /\ ~Running(fate, age, covered, a, worker'[i].window)
<1> DEFINE w == worker'[i].window
           p == Pruned(memory[i])
<1>1. worker[i].at = "ready" /\ w \in Window /\ Allowed(p, w)
  BY AdmitEffect
<1>2. RowsFree(p, w)
  BY <1>1 DEF Allowed
<1>3. \A v \in Window : p.rows[v] = IF Expired(memory[i].rows[v]) THEN NoRow ELSE memory[i].rows[v]
  BY PrunedFacts DEF Base, Types
<1> HIDE DEF p, w
<1>4. OwnerRows = {memory[i].rows} /\ memory[i].rows \in Everywhere
  BY EverywhereFacts, Numbers
<1>5. ASSUME NEW a \in 1..next, Unknown(fate, age, a) PROVE FALSE
  <2>1. SentGuard(OwnerRows, Everywhere, a)
    BY <1>1, <1>5 DEF Remembered, Caught, Guarding, Guarded
  <2>2. PICK v \in Window : memory[i].rows[v].attempt >= a /\ Holding(memory[i].rows[v], a)
    BY <1>4, <2>1 DEF SentGuard
  <2> DEFINE r == memory[i].rows[v]
  <2>3. ~Expired(r) /\ Suppresses(r) /\ r.attempt # 0 /\ (Failed(r) \/ r.state = "pending")
    BY <1>5, <2>2, StandsFacts DEF Unknown
  <2>4. p.rows[v] = r
    BY <1>3, <2>3
  <2> HIDE DEF r
  <2> QED BY <1>2, <2>3, <2>4 DEF RowsFree
<1>6. ASSUME NEW a \in 1..next, Running(fate, age, covered, a, w) PROVE FALSE
  <2> DEFINE r == memory[i].rows[w]
  <2>1. DoneGuard(OwnerRows, Everywhere, a, w)
    BY <1>1, <1>6 DEF Remembered, Caught, Guarding, Guarded
  <2>2. r.attempt >= a /\ r.state \in Done
    BY <1>4, <2>1 DEF DoneGuard
  <2>3. Covering(r, w)
    BY <1>4, <2>1, <2>2 DEF DoneGuard, Done
  <2>4. ~Expired(r) /\ Suppresses(r)
    BY <1>1, <1>6, <2>2, <2>3, StandsFacts DEF Running
  <2>5. p.rows[w] = r
    BY <1>1, <1>3, <2>4
  <2> HIDE DEF r
  <2> QED BY <1>2, <2>4, <2>5 DEF RowsFree
<1> QED BY <1>5, <1>6 DEF w

\* Admission.
LEMMA AdmitRemembered ==
  ASSUME Base, Locking, Ledgers, Remembered, NEW i \in Instance, NEW need \in Needs, Admit(i, need)
  PROVE  Remembered'
<1> DEFINE w == worker'[i].window
           p == Pruned(memory[i])
           m == memory[i].rows
           n == memory'[i].rows
<1>1. /\ worker[i].at = "ready" /\ next' = next + 1
      /\ \A j \in Instance \ {i} : memory'[j] = memory[j] /\ worker'[j] = worker[j]
      /\ worker'[i].at = "admitting" /\ w \in Window
      /\ n[w].attempt = next + 1 /\ \A v \in Window \ {w} : n[v] = p.rows[v]
  BY AdmitEffect DEF PendingRow
<1>2. /\ owner' = owner /\ file' = file /\ journal' = journal /\ age' = age
      /\ covered' = covered /\ volatile' = volatile /\ fate' = [fate EXCEPT ![next'] = "admitted"]
  BY DEF Admit
<1>3. /\ next \in Nat /\ next' \in Attempt /\ fate \in [Attempt -> Fates]
      /\ volatile \subseteq 1..next
  BY AdmitEffect, Numbers DEF Base, Types, Ledgers, Kept
<1>4. fate'[next + 1] = "admitted" /\ \A a \in 1..next : fate'[a] = fate[a]
  <2>1. \A a \in 1..next : a \in Attempt /\ a # next + 1
    BY <1>1, <1>3, Numbers DEF Attempt
  <2> QED BY <1>1, <1>2, <1>3, <2>1
<1>5. \A S, T : Guarded(S, T, fate', age', covered', next + 1)
  BY <1>4 DEF Guarded, Unknown, Running
<1>6. ASSUME NEW S, NEW V, NEW S2, S \subseteq Everywhere, Guarding(S, V),
             owner # i => From(S, S2),
             owner = i => \A R \in S : R \in S2 \/ (R = m /\ n \in S2)
      PROVE  \A a \in (1..next) \ V : Guarded(S2, Everywhere', fate', age', covered', a)
  <2> SUFFICES ASSUME NEW a \in (1..next) \ V
               PROVE  Guarded(S2, Everywhere', fate', age', covered', a)
    OBVIOUS
  <2>1. a \in 1..next /\ a \in Nat \ {0} /\ fate'[a] = fate[a]
    BY <1>3, <1>4
  <2>2. Guarded(S, Everywhere, fate, age, covered, a)
    BY <1>6 DEF Guarding
  <2>3. CASE owner # i
    <3>1. Everywhere' = Everywhere
      <4>1. owner = NoInstance \/ memory'[owner] = memory[owner]
        BY <1>1, <2>3, OwnerFacts
      <4> QED BY <1>2, <4>1, NextRows, EverywhereFacts DEF Everywhere
    <3>2. From(Everywhere', Everywhere)
      BY <3>1, FromFacts
    <3>3. Eases(fate, age, covered, fate', age', covered', a)
      BY <1>2, <2>1, EasesFacts
    <3> QED BY <1>6, <2>1, <2>2, <2>3, <3>2, <3>3, GuardedMove
  <2>4. CASE owner = i
    <3>1. /\ ~Unknown(fate, age, a) /\ ~Running(fate, age, covered, a, w)
      BY <2>1, <2>4, AdmitFar
    <3>2. ~Unknown(fate', age', a) /\ ~Running(fate', age', covered', a, w)
      BY <1>2, <2>1, <3>1 DEF Unknown, Running
    <3>3. OwnerRows = {m} /\ OwnerRows' = {n} /\ Everywhere' = {file.rows} \cup journal \cup {n}
      BY <1>2, <2>4, EverywhereFacts, NextRows, Numbers
    <3>4. ASSUME NEW v \in Window, Running(fate', age', covered', a, v)
          PROVE  DoneGuard(S2, Everywhere', a, v)
      <4>1. v # w /\ Running(fate, age, covered, a, v)
        BY <1>2, <2>1, <3>2, <3>4 DEF Running
      <4>2. DoneGuard(S, Everywhere, a, v)
        BY <2>2, <4>1 DEF Guarded
      <4>3. n[v] = IF Expired(m[v]) THEN NoRow ELSE m[v]
        BY <1>1, <4>1, PrunedFacts DEF Base, Types
      <4>4. m \in Everywhere
        BY <3>3, EverywhereFacts
      <4>5. \A R2 \in Everywhere' : R2[v].attempt >= a => \E R \in Everywhere : R[v] = R2[v]
        <5>1. NoRow.attempt = 0 /\ ~(0 >= a)
          BY <2>1, RowFacts
        <5>2. n[v].attempt >= a => n[v] = m[v]
          BY <4>3, <5>1
        <5> QED BY <3>3, <4>4, <5>2 DEF Everywhere
      <4>6. m[v].attempt >= a /\ Covering(m[v], v) => n[v] = m[v]
        <5>1. m[v].attempt >= a /\ Covering(m[v], v) => ~Expired(m[v])
          BY <2>1, <4>1, StandsFacts DEF Running
        <5> QED BY <4>3, <5>1
      <4> HIDE DEF m, n, w, p
      <4>7. \A R \in S : R[v].attempt >= a /\ Covering(R[v], v) =>
               \E R2 \in S2 : R2[v].attempt >= a /\ R2[v].state \in Done
        <5> SUFFICES ASSUME NEW R \in S, R[v].attempt >= a, Covering(R[v], v)
                     PROVE  \E R2 \in S2 : R2[v].attempt >= a /\ R2[v].state \in Done
          OBVIOUS
        <5>1. R[v].state \in Done
          BY DEF Covering
        <5>2. CASE R \in S2
          BY <5>1, <5>2
        <5>3. CASE R = m /\ n \in S2
          <6>1. n[v] = R[v]
            BY <4>6, <5>3
          <6> QED BY <5>1, <5>3, <6>1
        <5> QED BY <1>6, <2>4, <5>2, <5>3
      <4> QED BY <1>6, <2>1, <4>2, <4>5, <4>7, DoneMove
    <3> QED BY <3>2, <3>4 DEF Guarded
  <2> QED BY <2>3, <2>4
<1>7. {file.rows} \cup journal \subseteq Everywhere /\ OwnerRows \cup journal \subseteq Everywhere
  BY DEF Everywhere
<1>8. OnDisk'
  <2> DEFINE S == {file.rows} \cup journal
  <2>1. From(S, S)
    BY FromFacts
  <2>2. Guarding(S, volatile)
    BY DEF Remembered, OnDisk
  <2>3. \A a \in (1..next) \ volatile : Guarded(S, Everywhere', fate', age', covered', a)
    <3> HIDE DEF S, m, n, w, p
    <3> QED BY <1>6, <1>7, <2>1, <2>2 DEF S
  <2>4. \A a \in (1..(next + 1)) \ volatile : Guarded(S, Everywhere', fate', age', covered', a)
    <3>1. \A a \in 1..(next + 1) : a \in 1..next \/ a = next + 1
      BY <1>3
    <3> HIDE DEF S
    <3> QED BY <1>5, <2>3, <3>1
  <2> QED BY <1>1, <1>2, <2>4 DEF OnDisk, Guarding
<1>9. InMemory'
  <2> SUFFICES ASSUME owner # NoInstance
               PROVE  \A a \in 1..(next + 1) :
                         Guarded(OwnerRows' \cup journal, Everywhere', fate', age', covered', a)
    BY <1>1, <1>2 DEF InMemory, Guarding
  <2>1. OwnerRows = {memory[owner].rows} /\ OwnerRows' = {memory'[owner].rows}
    BY <1>2, EverywhereFacts, NextRows
  <2>2. owner # i => OwnerRows' = OwnerRows
    BY <1>1, <2>1, OwnerFacts
  <2> DEFINE S == OwnerRows \cup journal
             S2 == OwnerRows' \cup journal
  <2>3. owner # i => From(S, S2)
    BY <2>2, FromFacts
  <2>4. owner = i => \A R \in S : R \in S2 \/ (R = m /\ n \in S2)
    BY <2>1
  <2>5. Guarding(S, {})
    BY DEF Remembered, InMemory
  <2> HIDE DEF S, S2, m, n, w, p
  <2>6. S \subseteq Everywhere
    BY <1>7 DEF S
  <2>7. \A a \in (1..next) \ {} : Guarded(S2, Everywhere', fate', age', covered', a)
    BY <1>6, <2>3, <2>4, <2>5, <2>6
  <2>8. \A a \in 1..(next + 1) : a \in (1..next) \ {} \/ a = next + 1
    BY <1>3
  <2>9. \A a \in 1..(next + 1) : Guarded(S2, Everywhere', fate', age', covered', a)
    BY <1>5, <2>7, <2>8
  <2> QED BY <2>9 DEF S2
<1>10. Caught'
  <2>1. \A j \in Instance : worker'[j].at \notin {"saved", "merged", "ready"}
    BY <1>1 DEF Locking
  <2> QED BY <2>1 DEF Caught
<1>11. Untold'
  BY <1>2 DEF Remembered, Untold
<1> QED BY <1>8, <1>9, <1>10, <1>11 DEF Remembered

\* A worker that ends leaves what the owner knows.
LEMMA EndsRows ==
  ASSUME Base, Ledgers, NEW i \in Instance, Ends(i), owner' = owner
  PROVE  /\ OwnerRows' = OwnerRows
         /\ \A j \in Instance : worker'[j].at = worker[j].at \/ worker'[j].at = "idle"
<1>1. worker'[i] = Idle /\ \A j \in Instance \ {i} : worker'[j] = worker[j]
  BY EndsFacts DEF Base
<1>2. owner \in Instance => memory'[owner] = memory[owner]
  BY EndsLedgers
<1> QED BY <1>1, <1>2, IdleFacts, OwnerFacts, NextRows, EverywhereFacts

\* Saving an admission.
LEMMA SaveAdmissionRemembered ==
  ASSUME Base, Ledgers, Remembered, NEW i \in Instance, SaveAdmission(i) PROVE Remembered'
<1>1. /\ owner' = owner /\ journal' = journal /\ next' = next
      /\ age' = age /\ fate' = fate /\ covered' = covered
      /\ \/ SaveOK(i, memory[i]) /\ GoTo(i, [worker[i] EXCEPT !.at = "admitted"]) /\ memory' = memory
         \/ file' = file /\ volatile' = volatile /\ Ends(i)
         \/ SaveOK(i, memory[i]) /\ Ends(i)
  BY DEF SaveAdmission, SaveFails, history
<1>2. CASE file' = file /\ volatile' = volatile /\ Ends(i)
  BY <1>1, <1>2, EndsRows, EasesFacts, UnmovedRemembered
<1>3. CASE SaveOK(i, memory[i]) /\ Ends(i)
  BY <1>1, <1>3, EndsRows, SavedRemembered
<1>4. CASE SaveOK(i, memory[i]) /\ GoTo(i, [worker[i] EXCEPT !.at = "admitted"]) /\ memory' = memory
  <2>1. worker'[i].at = "admitted" /\ \A j \in Instance \ {i} : worker'[j] = worker[j]
    <3>1. "admitted" \in Steps
      BY DEF Steps, Flying
    <3> QED BY <1>4, <3>1, GoesFacts DEF Base
  <2>2. OwnerRows' = OwnerRows
    BY <1>1, <1>4 DEF OwnerRows
  <2> QED BY <1>1, <1>4, <2>1, <2>2, SavedRemembered
<1> QED BY <1>1, <1>2, <1>3, <1>4

\* Giving up.
LEMMA AbandonRemembered ==
  ASSUME Base, Ledgers, Remembered, NEW i \in Instance, Abandon(i) PROVE Remembered'
<1>1. /\ owner' = owner /\ journal' = journal /\ next' = next /\ file' = file
      /\ age' = age /\ fate' = fate /\ covered' = covered /\ volatile' = volatile /\ Ends(i)
  BY DEF Abandon, history
<1> QED BY <1>1, EndsRows, EasesFacts, UnmovedRemembered

\* Any other save.
LEMMA SaveRemembered == ASSUME Base, Remembered, NEW i \in Instance, Save(i) PROVE Remembered'
<1>1. /\ owner' = owner /\ journal' = journal /\ next' = next /\ memory' = memory
      /\ age' = age /\ fate' = fate /\ covered' = covered /\ worker' = worker
      /\ SaveOK(i, memory[i])
  BY DEF Save, history
<1>2. OwnerRows' = OwnerRows
  BY <1>1 DEF OwnerRows
<1> QED BY <1>1, <1>2, SavedRemembered

\* Time.
LEMMA TickRemembered == ASSUME Base, Remembered, Tick PROVE Remembered'
<1>1. /\ age' \in [Attempt -> 0..Horizon] /\ \A a \in Attempt : age'[a] >= age[a]
      /\ memory' = memory /\ owner' = owner /\ file' = file /\ journal' = journal
      /\ worker' = worker /\ next' = next /\ fate' = fate /\ covered' = covered
      /\ volatile' = volatile
  BY TickFacts
<1>2. \A a \in 1..next : Eases(fate, age, covered, fate', age', covered', a)
  <2> SUFFICES ASSUME NEW a \in 1..next
               PROVE  Eases(fate, age, covered, fate', age', covered', a)
    OBVIOUS
  <2>1. a \in Attempt
    BY Numbers DEF Base, Types, Attempt
  <2>2. age[a] \in Nat /\ age'[a] \in Nat /\ age'[a] >= age[a]
    BY <1>1, <2>1, Numbers DEF Base, Types
  <2>3. Uncertain \in Nat /\ \A v \in Window : Length[v] \in Nat
    BY Numbers
  <2>4. age'[a] < Uncertain => age[a] < Uncertain
    BY <2>2, <2>3
  <2>5. \A v \in Window : age'[a] < Length[v] => age[a] < Length[v]
    BY <2>2, <2>3
  <2> QED BY <1>1, <2>4, <2>5 DEF Eases, Unknown, Running
<1>3. OwnerRows' = OwnerRows
  BY <1>1 DEF OwnerRows
<1> QED BY <1>1, <1>2, <1>3, UnmovedRemembered

\* A row that replaces another and guards what that one guarded.
Follows(r, r2, v, a) == /\ r2.attempt = r.attempt
                        /\ Covering(r, v) => Covering(r2, v)
                        /\ Holding(r, a) => Holding(r2, a)
                        /\ r.state = "pending" => r2.state = "pending"

\* A row follows itself, and one that differs only in its failures.
LEMMA FollowsFacts ==
  /\ \A r, v, a : Follows(r, r, v, a)
  /\ \A r, r2, v, a : /\ r2.attempt = r.attempt /\ r2.state = r.state /\ r2.until = r.until
                      /\ ~Blocked(r) => ~Blocked(r2)
                      => Follows(r, r2, v, a)
  BY DEF Follows, Covering, Holding

\* A guard of a cycle moves with rows that follow, and with new ones that cover.
LEMMA DoneFollow ==
  ASSUME NEW a \in Nat \ {0}, NEW v \in Window, NEW S, NEW T, NEW S2, NEW T2, S \subseteq T,
         DoneGuard(S, T, a, v),
         \A R2 \in T2 : R2[v].attempt >= a =>
             (\E R \in T : Follows(R[v], R2[v], v, a)) \/ Covering(R2[v], v),
         \A R \in S : R[v].attempt >= a /\ Covering(R[v], v) =>
             \E R2 \in S2 : R2[v].attempt >= a /\ R2[v].state \in Done
  PROVE  DoneGuard(S2, T2, a, v)
<1>1. /\ \E R \in S : R[v].attempt >= a /\ R[v].state \in Done
      /\ \A R \in T : R[v].attempt >= a => \/ Covering(R[v], v)
                                           \/ R[v].state = "pending" /\ R[v].attempt = a
  BY DEF DoneGuard
<1>2. \E R2 \in S2 : R2[v].attempt >= a /\ R2[v].state \in Done
  BY <1>1 DEF Done
<1>3. \A R2 \in T2 : R2[v].attempt >= a => \/ Covering(R2[v], v)
                                           \/ R2[v].state = "pending" /\ R2[v].attempt = a
  BY <1>1 DEF Follows
<1> QED BY <1>2, <1>3 DEF DoneGuard

\* Guards move with rows that follow.
LEMMA GuardedFollow ==
  ASSUME NEW a \in Nat \ {0}, NEW S, NEW T, NEW S2, NEW T2,
         NEW f, NEW g, NEW c, NEW f2, NEW g2, NEW c2,
         S \subseteq T, Guarded(S, T, f, g, c, a), Eases(f, g, c, f2, g2, c2, a),
         \A v \in Window, R2 \in T2 : R2[v].attempt >= a =>
             \E R \in T : Follows(R[v], R2[v], v, a),
         Unknown(f2, g2, a) => \A v \in Window, R \in S :
             R[v].attempt >= a /\ Holding(R[v], a) => \E R2 \in S2 : R2[v].attempt >= a,
         \A v \in Window, R \in S : R[v].attempt >= a /\ Covering(R[v], v) =>
             \E R2 \in S2 : R2[v].attempt >= a /\ R2[v].state \in Done
  PROVE  Guarded(S2, T2, f2, g2, c2, a)
<1>1. ASSUME Unknown(f2, g2, a) PROVE SentGuard(S2, T2, a)
  <2>1. SentGuard(S, T, a)
    BY <1>1 DEF Eases, Guarded
  <2>2. PICK v \in Window : /\ \E R \in S : R[v].attempt >= a
                            /\ \A R \in T : R[v].attempt >= a => Holding(R[v], a)
    BY <2>1 DEF SentGuard
  <2>3. \E R2 \in S2 : R2[v].attempt >= a
    BY <1>1, <2>2
  <2>4. \A R2 \in T2 : R2[v].attempt >= a => Holding(R2[v], a)
    BY <2>2 DEF Follows
  <2> QED BY <2>3, <2>4 DEF SentGuard
<1>2. ASSUME NEW v \in Window, Running(f2, g2, c2, a, v) PROVE DoneGuard(S2, T2, a, v)
  <2>1. DoneGuard(S, T, a, v)
    BY <1>2 DEF Eases, Guarded
  <2> QED BY <2>1, DoneFollow
<1> QED BY <1>1, <1>2 DEF Guarded

\* A pending row told alone of attempt n guards it.
LEMMA AdmissionGuards ==
  ASSUME NEW n \in Nat \ {0}, NEW w \in Window, NEW S, NEW T, T \subseteq Rows,
         \A R \in T : PendingOnly(R, w, n) /\ R[w].attempt <= n, \E R \in S : R[w].attempt = n
  PROVE  SentGuard(S, T, n)
<1>1. \E R \in S : R[w].attempt >= n
  OBVIOUS
<1>2. ASSUME NEW R \in T, R[w].attempt >= n PROVE Holding(R[w], n)
  <2>1. R[w].attempt \in Nat
    BY RowFacts
  <2>2. R[w].attempt = n
    BY <1>2, <2>1
  <2>3. PendingRow(R[w], n)
    BY <2>2 DEF PendingOnly
  <2> QED BY <2>3, Numbers DEF PendingRow, Holding
<1> QED BY <1>1, <1>2 DEF SentGuard

\* A worker in flight: its window and attempt, and that no other one works.
LEMMA InFlightFacts ==
  ASSUME Base, Locking, Current, NEW i \in Instance, worker[i].at \in Flying
  PROVE  /\ worker[i].window \in Window /\ worker[i].attempt = next
         /\ next \in 1..next /\ next \in Nat \ {0} /\ next \in Attempt
         /\ \A j \in Instance \ {i} : worker[j].at = "idle"
<1>1. worker[i].window \in Window /\ worker[i].attempt \in Attempt /\ worker[i].attempt = next
  BY DEF Base, Types, Current
<1>2. next \in Nat \ {0}
  BY <1>1, Numbers DEF Attempt
<1> QED BY <1>1, <1>2 DEF Locking, Flying

\* Sending: the admission is durable and stands in the way.
LEMMA SendRemembered ==
  ASSUME Base, Locking, Remembered, InFlight, NEW i \in Instance, Send(i) PROVE Remembered'
<1> DEFINE w == worker[i].window
<1>1. /\ worker[i].at = "admitted" /\ GoTo(i, [worker[i] EXCEPT !.at = "sent"])
      /\ fate' = [fate EXCEPT ![worker[i].attempt] = "sent"]
      /\ memory' = memory /\ owner' = owner /\ file' = file /\ journal' = journal
      /\ next' = next /\ age' = age /\ covered' = covered /\ volatile' = volatile
  BY DEF Send
<1>2. /\ w \in Window /\ worker[i].attempt = next /\ next \in 1..next /\ next \in Nat \ {0}
      /\ next \in Attempt /\ \A j \in Instance \ {i} : worker[j].at = "idle"
  BY <1>1, InFlightFacts DEF InFlight, Flying
<1>3. worker'[i].at = "sent" /\ \A j \in Instance \ {i} : worker'[j].at = "idle"
  <2>1. "sent" \in Steps
    BY DEF Steps, Flying
  <2> QED BY <1>1, <1>2, <2>1, GoesFacts DEF Base
<1>4. /\ volatile = {} /\ \A R \in Everywhere : PendingOnly(R, w, next)
      /\ \A R \in {file.rows} \cup OwnerRows : R[w].attempt = next
  BY <1>1 DEF InFlight, Sending
<1>5. OwnerRows' = OwnerRows /\ Everywhere' = Everywhere
  BY <1>1 DEF OwnerRows, Everywhere
<1>6. fate'[next] = "sent" /\ \A a \in Attempt \ {next} : fate'[a] = fate[a]
  BY <1>1, <1>2 DEF Base, Types
<1>7. \A R \in Everywhere : R[w].attempt <= next
  BY <1>2, EverywhereFacts DEF Sound, Good
<1> HIDE DEF w
<1>8. ASSUME NEW S, S \subseteq Everywhere, Guarding(S, {}), \E R \in S : R[w].attempt = next
      PROVE  \A a \in 1..next : Guarded(S, Everywhere', fate', age', covered', a)
  <2> SUFFICES ASSUME NEW a \in 1..next
               PROVE  Guarded(S, Everywhere', fate', age', covered', a)
    OBVIOUS
  <2>1. CASE a = next
    <3>1. SentGuard(S, Everywhere, next)
      BY <1>2, <1>4, <1>7, <1>8, AdmissionGuards, EverywhereFacts
    <3>2. \A v \in Window : ~Running(fate', age', covered', next, v)
      BY <1>6 DEF Running
    <3> QED BY <1>5, <2>1, <3>1, <3>2 DEF Guarded
  <2>2. CASE a # next
    <3>1. a \in Attempt /\ a \in Nat \ {0}
      BY Numbers DEF Base, Types, Attempt
    <3>2. Eases(fate, age, covered, fate', age', covered', a)
      BY <1>1, <1>6, <2>2, <3>1, EasesFacts
    <3>3. Guarded(S, Everywhere, fate, age, covered, a)
      BY <1>8 DEF Guarding
    <3>4. From(Everywhere', Everywhere) /\ From(S, S)
      BY <1>5, FromFacts
    <3> QED BY <1>8, <3>1, <3>2, <3>3, <3>4, GuardedMove
  <2> QED BY <2>1, <2>2
<1>9. OnDisk'
  <2> DEFINE S == {file.rows} \cup journal
  <2>1. S \subseteq Everywhere /\ Guarding(S, {}) /\ \E R \in S : R[w].attempt = next
    BY <1>4 DEF Everywhere, Remembered, OnDisk
  <2> HIDE DEF S
  <2>2. \A a \in 1..next : Guarded(S, Everywhere', fate', age', covered', a)
    BY <1>8, <2>1
  <2> QED BY <1>1, <2>2 DEF OnDisk, Guarding, S
<1>10. InMemory'
  <2> SUFFICES ASSUME owner # NoInstance
               PROVE  \A a \in 1..next :
                         Guarded(OwnerRows \cup journal, Everywhere', fate', age', covered', a)
    BY <1>1, <1>5 DEF InMemory, Guarding
  <2> DEFINE S == OwnerRows \cup journal
  <2>1. S \subseteq Everywhere /\ Guarding(S, {}) /\ \E R \in S : R[w].attempt = next
    BY <1>4, EverywhereFacts DEF Everywhere, Remembered, InMemory
  <2> HIDE DEF S
  <2>2. \A a \in 1..next : Guarded(S, Everywhere', fate', age', covered', a)
    BY <1>8, <2>1
  <2> QED BY <2>2 DEF S
<1>11. Caught'
  BY <1>3 DEF Caught
<1>12. Untold'
  BY <1>1 DEF Remembered, Untold
<1> QED BY <1>9, <1>10, <1>11, <1>12 DEF Remembered

\* A step of the owner's that follows its rows.
LEMMA FollowedRemembered ==
  ASSUME Base, Remembered, NEW i \in Instance, owner = i,
         owner' = owner, file' = file, journal' = journal, next' = next, age' = age,
         covered' = covered, volatile' = volatile, worker' = worker,
         \A a \in 1..next : Eases(fate, age, covered, fate', age', covered', a),
         \A v \in Window, a \in 1..next : memory'[i].rows[v].attempt >= a =>
             Follows(memory[i].rows[v], memory'[i].rows[v], v, a),
         \A v \in Window, a \in 1..next :
             /\ Unknown(fate', age', a) /\ memory[i].rows[v].attempt >= a
                /\ Holding(memory[i].rows[v], a) => memory'[i].rows[v].attempt >= a
             /\ memory[i].rows[v].attempt >= a /\ Covering(memory[i].rows[v], v) =>
                    memory'[i].rows[v].attempt >= a /\ memory'[i].rows[v].state \in Done
  PROVE  Remembered'
<1> DEFINE m == memory[i].rows
           n == memory'[i].rows
<1>1. OwnerRows = {m} /\ OwnerRows' = {n} /\ owner # NoInstance
  BY EverywhereFacts, NextRows, Numbers
<1>2. Everywhere = {file.rows} \cup journal \cup {m} /\ Everywhere' = {file.rows} \cup journal \cup {n}
  BY <1>1, NextRows DEF Everywhere
<1>3. \A v \in Window, a \in 1..next, R2 \in Everywhere' : R2[v].attempt >= a =>
         \E R \in Everywhere : Follows(R[v], R2[v], v, a)
  BY <1>2, FollowsFacts
<1> HIDE DEF m, n
<1>4. ASSUME NEW S, NEW V, NEW S2, S \subseteq Everywhere, Guarding(S, V),
             \A R \in S : R \in S2 \/ (R = m /\ n \in S2)
      PROVE  \A a \in (1..next) \ V : Guarded(S2, Everywhere', fate', age', covered', a)
  <2> SUFFICES ASSUME NEW a \in (1..next) \ V
               PROVE  Guarded(S2, Everywhere', fate', age', covered', a)
    OBVIOUS
  <2>1. a \in 1..next /\ a \in Nat \ {0}
    BY Numbers DEF Base, Types
  <2>2. Guarded(S, Everywhere, fate, age, covered, a)
    BY <1>4 DEF Guarding
  <2>3. Unknown(fate', age', a) => \A v \in Window, R \in S :
             R[v].attempt >= a /\ Holding(R[v], a) => \E R2 \in S2 : R2[v].attempt >= a
    BY <1>4, <2>1 DEF m, n
  <2>4. \A v \in Window, R \in S : R[v].attempt >= a /\ Covering(R[v], v) =>
             \E R2 \in S2 : R2[v].attempt >= a /\ R2[v].state \in Done
    <3> SUFFICES ASSUME NEW v \in Window, NEW R \in S, R[v].attempt >= a, Covering(R[v], v)
                 PROVE  \E R2 \in S2 : R2[v].attempt >= a /\ R2[v].state \in Done
      OBVIOUS
    <3>1. CASE R \in S2
      BY <3>1 DEF Covering
    <3>2. CASE R = m /\ n \in S2
      BY <2>1, <3>2 DEF m, n
    <3> QED BY <1>4, <3>1, <3>2
  <2>5. \A v \in Window, R2 \in Everywhere' : R2[v].attempt >= a =>
             \E R \in Everywhere : Follows(R[v], R2[v], v, a)
    BY <1>3, <2>1
  <2>6. Eases(fate, age, covered, fate', age', covered', a)
    BY <2>1
  <2> QED BY <1>4, <2>1, <2>2, <2>3, <2>4, <2>5, <2>6, GuardedFollow
<1>5. \A S, V : S \subseteq {file.rows} \cup journal /\ Guarding(S, V) =>
         \A a \in (1..next) \ V : Guarded(S, Everywhere', fate', age', covered', a)
  BY <1>2, <1>4
<1>6. OnDisk'
  <2> DEFINE S == {file.rows} \cup journal
  <2>1. Guarding(S, volatile)
    BY DEF Remembered, OnDisk
  <2> HIDE DEF S
  <2>2. \A a \in (1..next) \ volatile : Guarded(S, Everywhere', fate', age', covered', a)
    BY <1>5, <2>1 DEF S
  <2> QED BY <2>2 DEF OnDisk, Guarding, S
<1>7. InMemory'
  <2> DEFINE S == {m} \cup journal
             S2 == {n} \cup journal
  <2>1. Guarding(S, {}) /\ S \subseteq Everywhere
    BY <1>1, <1>2 DEF Remembered, InMemory
  <2>2. \A R \in S : R \in S2 \/ (R = m /\ n \in S2)
    OBVIOUS
  <2> HIDE DEF S, S2
  <2>3. \A a \in (1..next) \ {} : Guarded(S2, Everywhere', fate', age', covered', a)
    BY <1>4, <2>1, <2>2
  <2> QED BY <1>1, <2>3 DEF InMemory, Guarding, S2
<1>8. Caught'
  <2>1. ASSUME Guarding({m}, {})
        PROVE  \A a \in (1..next) \ {} : Guarded({n}, Everywhere', fate', age', covered', a)
    <3> DEFINE S == {m}
               S2 == {n}
    <3>1. Guarding(S, {}) /\ S \subseteq Everywhere
      BY <1>2, <2>1
    <3>2. \A R \in S : R \in S2 \/ (R = m /\ n \in S2)
      OBVIOUS
    <3> HIDE DEF S, S2
    <3>3. \A a \in (1..next) \ {} : Guarded(S2, Everywhere', fate', age', covered', a)
      BY <1>4, <3>1, <3>2
    <3> QED BY <3>3 DEF S2
  <2>2. Guarding({file.rows}, volatile) =>
          \A a \in (1..next) \ volatile : Guarded({file.rows}, Everywhere', fate', age', covered', a)
    BY <1>5
  <2> QED BY <1>1, <2>1, <2>2 DEF Remembered, Caught, Guarding
<1>9. Untold'
  BY DEF Remembered, Untold
<1> QED BY <1>6, <1>7, <1>8, <1>9 DEF Remembered

\* A reset that shows.
LEMMA ConfirmRemembered ==
  ASSUME Base, Remembered, NEW i \in Instance, NEW v \in Window, Confirm(i, v) PROVE Remembered'
<1>1. /\ owner' = owner /\ file' = file /\ journal' = journal /\ worker' = worker /\ next' = next
      /\ age' = age /\ fate' = fate /\ covered' = covered /\ volatile' = volatile
  BY DEF Confirm, history
<1> DEFINE m == memory[i].rows
           n == memory'[i].rows
<1>2. /\ owner = i /\ \A u \in Window \ {v} : n[u] = m[u]
      /\ m[v].state = "completed" /\ n[v].state = "confirmed"
      /\ n[v].attempt = m[v].attempt /\ n[v].until = m[v].until
      /\ Blocked(n[v]) <=> Blocked(m[v])
  BY ConfirmEffect DEF Base
<1> HIDE DEF m, n
<1>3. \A u \in Window, a \in 1..next : Follows(m[u], n[u], u, a) /\ n[u].attempt = m[u].attempt
  <2> SUFFICES ASSUME NEW u \in Window, NEW a \in 1..next
               PROVE  Follows(m[u], n[u], u, a) /\ n[u].attempt = m[u].attempt
    OBVIOUS
  <2>1. CASE u = v
    BY <1>2, <2>1 DEF Follows, Covering, Holding, Done
  <2>2. CASE u # v
    BY <1>2, <2>2, FollowsFacts
  <2> QED BY <2>1, <2>2
<1>4. \A u \in Window, a \in 1..next : Covering(m[u], u) => n[u].state \in Done
  BY <1>3 DEF Follows, Covering
<1>5. \A a \in 1..next : Eases(fate, age, covered, fate', age', covered', a)
  BY <1>1, EasesFacts
<1> QED BY <1>1, <1>2, <1>3, <1>4, <1>5, FollowedRemembered DEF m, n

\* Clearing: what goes guards nothing that may still run.
LEMMA ClearRemembered == ASSUME Base, Remembered, NEW i \in Instance, Clear(i) PROVE Remembered'
<1>1. /\ owner' = owner /\ file' = file /\ journal' = journal /\ worker' = worker /\ next' = next
      /\ age' = age /\ covered' = covered /\ volatile' = volatile
  BY DEF Clear
<1> DEFINE m == memory[i].rows
           n == memory'[i].rows
<1>2. /\ owner = i /\ \A u \in Window : n[u] = IF u \in Gone(i) THEN NoRow ELSE m[u]
      /\ fate' = [a \in Attempt |-> IF /\ fate[a] \in {"sent", "rejected"}
                                       /\ a \in {m[w].attempt : w \in Gone(i)}
                                    THEN "cleared" ELSE fate[a]]
  BY ClearEffect DEF Base
<1>3. \A u \in Gone(i) : Blocked(m[u]) \/ Failed(m[u])
  BY DEF Gone, Cleared
<1> HIDE DEF m, n
<1>4. ASSUME NEW a \in 1..next
      PROVE  /\ a \in Attempt /\ a \in Nat \ {0}
             /\ fate'[a] \in {"sent", "completed"} => fate'[a] = fate[a]
             /\ fate'[a] = "sent" => a \notin {m[w].attempt : w \in Gone(i)}
  <2>1. a \in Attempt /\ a \in Nat \ {0}
    BY Numbers DEF Base, Types, Attempt
  <2> QED BY <1>2, <2>1
<1>5. \A a \in 1..next : Eases(fate, age, covered, fate', age', covered', a)
  BY <1>1, <1>4 DEF Eases, Unknown, Running
<1>6. \A u \in Window, a \in 1..next : n[u].attempt >= a => Follows(m[u], n[u], u, a)
  <2>1. NoRow.attempt = 0 /\ \A a \in 1..next : ~(0 >= a)
    BY RowFacts
  <2> QED BY <1>2, <2>1, FollowsFacts
<1>7. \A u \in Window, a \in 1..next :
         /\ Unknown(fate', age', a) /\ m[u].attempt >= a /\ Holding(m[u], a) => n[u].attempt >= a
         /\ m[u].attempt >= a /\ Covering(m[u], u) => n[u].attempt >= a /\ n[u].state \in Done
  <2> SUFFICES ASSUME NEW u \in Window, NEW a \in 1..next, m[u].attempt >= a,
                      (Unknown(fate', age', a) /\ Holding(m[u], a)) \/ Covering(m[u], u)
               PROVE  n[u] = m[u]
    BY DEF Covering
  <2>1. ASSUME u \in Gone(i) PROVE FALSE
    <3>1. CASE Covering(m[u], u)
      BY <1>3, <2>1, <3>1 DEF Covering, Failed, Done
    <3>2. CASE Unknown(fate', age', a) /\ Holding(m[u], a)
      <4>1. m[u].attempt # a
        BY <1>4, <2>1, <3>2 DEF Unknown
      <4> QED BY <1>3, <2>1, <3>2, <4>1 DEF Holding, Failed
    <3> QED BY <3>1, <3>2
  <2> QED BY <1>2, <2>1
<1> QED BY <1>1, <1>2, <1>5, <1>6, <1>7, FollowedRemembered DEF m, n

\* The owner changes, or is lost: file and journal stay, and the file's rows are known.
LEMMA LostRemembered ==
  ASSUME Base, Ledgers, Remembered, file' = file, journal' = journal, next' = next, age' = age,
         covered' = covered, fate' = Forgotten, volatile' = {},
         From(Everywhere', Everywhere), owner' # NoInstance => OwnerRows' # {},
         \A R \in OwnerRows', v \in Window : file.rows[v].attempt # 0 => R[v] = file.rows[v],
         \A j \in Instance : worker'[j].at = "saved" => worker[j].at = "saved",
         \A j \in Instance : worker'[j].at \in {"merged", "ready"} => owner' # j
  PROVE  Remembered'
<1>1. ASSUME NEW a \in 1..next
      PROVE  /\ a \in Attempt /\ a \in Nat \ {0}
             /\ Forgotten[a] = IF a \in volatile THEN "sent" ELSE fate[a]
  <2>1. a \in Attempt /\ a \in Nat \ {0}
    BY Numbers DEF Base, Types, Attempt
  <2> QED BY <2>1, ForgottenFacts DEF Base
<1>2. ASSUME NEW S, NEW S2, S \subseteq {file.rows} \cup journal, file.rows \in S,
             Guarding(S, volatile), From(S, S2)
      PROVE  \A a \in 1..next : Guarded(S2, Everywhere', fate', age', covered', a)
  <2> SUFFICES ASSUME NEW a \in 1..next
               PROVE  Guarded(S2, Everywhere', fate', age', covered', a)
    OBVIOUS
  <2>1. S \subseteq Everywhere
    BY <1>2 DEF Everywhere
  <2>2. CASE a \notin volatile
    <3>1. Eases(fate, age, covered, fate', age', covered', a)
      BY <1>1, <2>2, EasesFacts
    <3>2. Guarded(S, Everywhere, fate, age, covered, a)
      BY <1>2, <2>2 DEF Guarding
    <3> QED BY <1>1, <1>2, <2>1, <3>1, <3>2, GuardedMove
  <2>3. CASE a \in volatile
    <3>1. fate'[a] = "sent"
      BY <1>1, <2>3
    <3>2. PICK v \in Window : /\ file.rows[v].attempt = a /\ file.rows[v].state = "pending"
                              /\ ~Blocked(file.rows[v]) /\ file.rows[v].until >= Uncertain
      BY <2>3 DEF Remembered, Untold
    <3>3. \A R \in journal : R[v].attempt < a
      BY <2>3 DEF Remembered, Untold
    <3>4. \A R2 \in Everywhere' : R2[v].attempt >= a => R2[v] = file.rows[v]
      <4>1. \A R \in journal : R[v].attempt \in Nat
        BY RowFacts DEF Base, Types
      <4>2. \A R \in journal : ~(R[v].attempt >= a)
        BY <1>1, <3>3, <4>1
      <4>3. \A R \in OwnerRows' : R[v] = file.rows[v]
        BY <1>1, <3>2
      <4> QED BY <4>2, <4>3, NextRows
    <3>5. \E R2 \in S2 : R2[v].attempt >= a
      BY <1>1, <1>2, <3>2 DEF From
    <3>6. \A R2 \in Everywhere' : R2[v].attempt >= a => Holding(R2[v], a)
      BY <3>2, <3>4 DEF Holding
    <3> QED BY <3>1, <3>5, <3>6 DEF Guarded, SentGuard, Running
  <2> QED BY <2>2, <2>3
<1>3. \A S2 : From({file.rows} \cup journal, S2) =>
         \A a \in 1..next : Guarded(S2, Everywhere', fate', age', covered', a)
  <2> DEFINE S == {file.rows} \cup journal
  <2>1. S \subseteq {file.rows} \cup journal /\ file.rows \in S /\ Guarding(S, volatile)
    BY DEF Remembered, OnDisk
  <2> HIDE DEF S
  <2> QED BY <1>2, <2>1 DEF S
<1>4. From({file.rows} \cup journal, {file.rows} \cup journal)
  BY FromFacts
<1>5. owner' # NoInstance => From({file.rows}, OwnerRows')
  BY DEF From
<1>6. OnDisk'
  BY <1>3, <1>4 DEF OnDisk, Guarding
<1>7. InMemory'
  <2> SUFFICES ASSUME owner' # NoInstance
               PROVE  \A a \in 1..next : Guarded(OwnerRows' \cup journal, Everywhere', fate', age', covered', a)
    BY DEF InMemory, Guarding
  <2>1. From({file.rows} \cup journal, OwnerRows' \cup journal)
    BY <1>5 DEF From
  <2> QED BY <1>3, <2>1
<1>8. Caught'
  <2> SUFFICES ASSUME NEW j \in Instance, worker[j].at = "saved"
               PROVE  /\ \A a \in 1..next : Guarded({file.rows}, Everywhere', fate', age', covered', a)
                      /\ owner' # NoInstance =>
                           \A a \in 1..next : Guarded(OwnerRows', Everywhere', fate', age', covered', a)
    BY DEF Caught, Guarding
  <2> DEFINE S == {file.rows}
  <2>1. S \subseteq {file.rows} \cup journal /\ file.rows \in S /\ Guarding(S, volatile) /\ From(S, S)
    BY FromFacts DEF Remembered, Caught
  <2>2. owner' # NoInstance => From(S, OwnerRows')
    BY <1>5
  <2> HIDE DEF S
  <2>3. /\ \A a \in 1..next : Guarded(S, Everywhere', fate', age', covered', a)
        /\ owner' # NoInstance =>
             \A a \in 1..next : Guarded(OwnerRows', Everywhere', fate', age', covered', a)
    BY <1>2, <2>1, <2>2
  <2> QED BY <2>3 DEF S
<1>9. Untold'
  BY DEF Untold
<1> QED BY <1>6, <1>7, <1>8, <1>9 DEF Remembered

\* A claim loads the file; what it does not tell was the owner's already.
LEMMA ClaimRows ==
  ASSUME Base, Locking, NEW i \in Instance, Claim(i)
  PROVE  /\ OwnerRows' = {memory'[i].rows} /\ Everywhere' = {file.rows} \cup journal \cup {memory'[i].rows}
         /\ \A v \in Window : file.rows[v].attempt # 0 => memory'[i].rows[v] = file.rows[v]
         /\ From(Everywhere', Everywhere)
<1>1. /\ i \notin up \/ owner = i
      /\ owner' = i /\ memory'[i] = Loaded(memory[i]) /\ file' = file /\ journal' = journal
  BY ClaimEffect DEF Claim, Base
<1>2. memory[i] \in Documents /\ file \in Documents
  BY DEF Base, Types
<1>3. \A v \in Window : memory'[i].rows[v] =
         IF file.rows[v].attempt # 0 THEN file.rows[v] ELSE memory[i].rows[v]
  BY <1>1, <1>2, LoadedFacts
<1>4. OwnerRows' = {memory'[i].rows} /\ Everywhere' = {file.rows} \cup journal \cup {memory'[i].rows}
  BY <1>1, NextRows, Numbers
<1>5. \A v \in Window : memory'[i].rows[v].attempt # 0 =>
         memory'[i].rows[v] = file.rows[v] \/ (owner = i /\ memory'[i].rows[v] = memory[i].rows[v])
  <2>1. i \notin up => \A v \in Window : memory[i].rows[v].attempt = 0
    BY RowFacts DEF Locking
  <2> QED BY <1>1, <1>3, <2>1
<1>6. owner = i => memory[i].rows \in Everywhere
  BY EverywhereFacts, Numbers
<1>7. From(Everywhere', Everywhere)
  BY <1>4, <1>5, <1>6 DEF From, Everywhere
<1> QED BY <1>3, <1>4, <1>7

\* Claims.
LEMMA ClaimRemembered ==
  ASSUME Base, Locking, Ledgers, Remembered, NEW i \in Instance, Claim(i) PROVE Remembered'
<1>1. /\ file' = file /\ journal' = journal /\ next' = next /\ age' = age /\ covered' = covered
      /\ worker' = worker
  BY DEF Claim
<1>2. fate' = Forgotten /\ volatile' = {} /\ worker[i].at = "idle" /\ owner' = i
  BY ClaimEffect DEF Base
<1>3. /\ From(Everywhere', Everywhere) /\ OwnerRows' # {}
      /\ \A R \in OwnerRows', v \in Window : file.rows[v].attempt # 0 => R[v] = file.rows[v]
  BY ClaimRows
<1>4. \A j \in Instance : worker'[j].at \in {"merged", "ready"} => owner' # j
  BY <1>1, <1>2
<1> QED BY <1>1, <1>2, <1>3, <1>4, LostRemembered

\* Crashes.
LEMMA CrashRemembered ==
  ASSUME Base, Ledgers, Remembered, NEW i \in Instance, Crash(i) PROVE Remembered'
<1>1. /\ file' = file /\ journal' = journal /\ next' = next /\ age' = age /\ covered' = covered
      /\ owner' = IF owner = i THEN NoInstance ELSE owner
      /\ memory' = [memory EXCEPT ![i] = Empty] /\ GoTo(i, Idle)
      /\ owner = i => fate' = Forgotten /\ volatile' = {}
      /\ owner # i => fate' = fate /\ volatile' = volatile
  BY DEF Crash
<1>2. worker'[i].at = "idle" /\ \A j \in Instance \ {i} : worker'[j] = worker[j]
  BY <1>1, MoveFacts, IdleFacts DEF Base
<1>3. CASE owner = i
  <2>1. owner' = NoInstance /\ OwnerRows' = {} /\ Everywhere' = {file.rows} \cup journal
    BY <1>1, <1>3, NextRows
  <2>2. From(Everywhere', Everywhere)
    BY <2>1, FromFacts DEF Everywhere
  <2> QED BY <1>1, <1>2, <1>3, <2>1, <2>2, LostRemembered, Numbers
<1>4. CASE owner # i
  <2>1. owner \in Instance => memory'[owner] = memory[owner]
    BY <1>1, <1>4 DEF Base, Types
  <2>2. OwnerRows' = OwnerRows
    BY <1>1, <1>4, <2>1, OwnerFacts, NextRows, EverywhereFacts
  <2> QED BY <1>1, <1>2, <1>4, <2>2, EasesFacts, UnmovedRemembered
<1> QED BY <1>3, <1>4

\* An outcome that is appended: it stands in the way of what it must, and of nothing else.
LEMMA FinishRemembered ==
  ASSUME Base, Locking, Ledgers, Remembered, InFlight, NEW i \in Instance, Finish(i)
  PROVE  Remembered'
<1> DEFINE w == worker[i].window
           m == memory[i].rows
           record == Outcome(memory[i], worker[i])
<1>1. /\ worker[i].at = "recorded" /\ Ends(i) /\ owner' = owner /\ file' = file /\ next' = next
      /\ age' = age /\ covered' = covered /\ volatile' = volatile
      /\ \/ /\ owner # i /\ m[w].attempt = worker[i].attempt
            /\ journal' = journal \cup {record} /\ Becomes(worker[i].attempt, m[w].state)
         \/ journal' = journal /\ fate' = fate
  BY DEF Finish
<1>2. /\ OwnerRows' = OwnerRows
      /\ \A j \in Instance : worker'[j].at = worker[j].at \/ worker'[j].at = "idle"
  BY <1>1, EndsRows
<1>3. CASE journal' = journal /\ fate' = fate
  BY <1>1, <1>2, <1>3, EasesFacts, UnmovedRemembered
<1>4. CASE /\ owner # i /\ m[w].attempt = worker[i].attempt
           /\ journal' = journal \cup {record} /\ Becomes(worker[i].attempt, m[w].state)
  <2>1. /\ w \in Window /\ worker[i].attempt = next /\ next \in Nat \ {0} /\ next \in Attempt
        /\ \A j \in Instance \ {i} : worker[j].at = "idle"
    BY <1>1, InFlightFacts DEF InFlight, Flying
  <2>2. volatile = {}
    BY <1>1, <1>4 DEF Locking
  <2>3. /\ m[w].attempt = next /\ Told(Everywhere, m, w, next, covered)
    BY <1>1, <1>4, <2>1 DEF InFlight, Recorded
  <2>4. Far(w, next, fate, age, covered)
    BY <1>1, <2>1 DEF InFlight, Current, Flying
  <2>5. /\ record \in Rows
        /\ \A v \in Window : record[v] = IF m[v].attempt = next THEN m[v] ELSE NoRow
    BY <1>1, <2>1, OutcomeFacts DEF Flying
  <2>6. m \in Rows /\ m[w] \in Row /\ m[w].state \in State
    BY <2>1, RowFacts DEF Base, Types, Documents
  <2>7. /\ \A b \in Attempt \ {next} : fate'[b] = fate[b]
        /\ fate'[next] = IF m[w].state \in Done THEN "completed"
                         ELSE IF m[w].state = "rejected" THEN "rejected"
                         ELSE IF m[w].state = "not_sent" THEN "admitted" ELSE "sent"
    BY <1>4, <2>1, <2>6, BecomesFacts DEF Base, Types, Done
  <2>8. Everywhere' = Everywhere \cup {record} /\ {file.rows} \cup journal \subseteq Everywhere
        /\ OwnerRows \cup journal \subseteq Everywhere
    BY <1>1, <1>2, <1>4, NextRows DEF Everywhere
  <2>9. \A R \in Everywhere, v \in Window : R[v].attempt \in Nat /\ R[v].attempt <= next
    BY EverywhereFacts, RowFacts DEF Sound, Good
  <2> HIDE DEF w, m, record
  <2>10. ASSUME m[w].state \in Done, NEW v \in Window, record[v].attempt # 0
         PROVE  record[v] = m[v] /\ m[v].attempt = next /\ Covering(record[v], v)
    <3>1. record[v] = m[v] /\ m[v].attempt = next
      BY <2>5, <2>10, RowFacts
    <3>2. Covering(m[v], v) \/ (v = w /\ PendingRow(m[v], next))
      BY <2>3, <2>10, <3>1 DEF Told
    <3>3. ~(v = w /\ PendingRow(m[v], next))
      BY <2>10 DEF PendingRow, Done
    <3> QED BY <3>1, <3>2, <3>3
  <2>11. ASSUME m[w].state \notin Done, NEW v \in Window \ {w} PROVE record[v] = NoRow
    BY <2>3, <2>5, <2>11 DEF Told
  \* Earlier attempts.
  <2>12. ASSUME NEW S, S \subseteq Everywhere, Guarding(S, {}), NEW a \in 1..(next - 1)
         PROVE  Guarded(S \cup {record}, Everywhere', fate', age', covered', a)
    <3>1. a \in 1..next /\ a \in Attempt /\ a # next /\ a \in Nat \ {0}
      BY <2>1, Numbers DEF Attempt
    <3>2. ~Unknown(fate', age', a) /\ ~Running(fate', age', covered', a, w)
      BY <1>1, <2>4, <2>7, <3>1 DEF Far, Unknown, Running
    <3>3. ASSUME NEW v \in Window, Running(fate', age', covered', a, v)
          PROVE  DoneGuard(S \cup {record}, Everywhere', a, v)
      <4>1. v # w /\ Running(fate, age, covered, a, v)
        BY <1>1, <2>7, <3>1, <3>2, <3>3 DEF Running
      <4>2. DoneGuard(S, Everywhere, a, v)
        BY <2>12, <3>1, <4>1 DEF Guarding, Guarded
      <4>3. record[v].attempt = 0 \/ Covering(record[v], v)
        BY <2>10, <2>11, <4>1, RowFacts
      <4>4. \A R2 \in Everywhere' : R2[v].attempt >= a =>
               (\E R \in Everywhere : R[v] = R2[v]) \/ Covering(R2[v], v)
        <5>1. ~(0 >= a)
          BY <3>1
        <5> QED BY <2>8, <4>3, <5>1
      <4>5. \A R \in S : R[v].attempt >= a /\ Covering(R[v], v) =>
               \E R2 \in S \cup {record} : R2[v].attempt >= a /\ R2[v].state \in Done
        BY DEF Covering
      <4> QED BY <2>12, <3>1, <4>2, <4>4, <4>5, DoneMove
    <3> QED BY <3>2, <3>3 DEF Guarded
  \* The attempt itself.
  <2>13. ASSUME NEW S PROVE Guarded(S \cup {record}, Everywhere', fate', age', covered', next)
    <3>1. \A R \in Everywhere \cup {m}, v \in Window : R \in Everywhere /\ R[v].attempt >= next => R[v].attempt = next
      BY <2>1, <2>9
    <3>2. record[w] = m[w] /\ record[w].attempt >= next
      BY <2>1, <2>3, <2>5
    <3>3. ASSUME Unknown(fate', age', next) PROVE SentGuard(S \cup {record}, Everywhere', next)
      <4>1. m[w].state = "uncertain"
        BY <2>3, <2>6, <2>7, <3>3 DEF Unknown, State, Done, Told
      <4>2. \A R \in Everywhere \cup {m} : R[w].attempt = next => Holding(R[w], next)
        BY <2>3, <4>1 DEF Told
      <4>3. \A R \in Everywhere' : R[w].attempt >= next => Holding(R[w], next)
        BY <2>1, <2>3, <2>8, <3>1, <3>2, <4>2
      <4> QED BY <2>1, <3>2, <4>3 DEF SentGuard
    <3>4. ASSUME NEW v \in Window, Running(fate', age', covered', next, v)
          PROVE  DoneGuard(S \cup {record}, Everywhere', next, v)
      <4>1. m[w].state \in Done /\ v \in covered[next]
        BY <1>1, <2>7, <3>4 DEF Running
      <4>2. m[v].attempt = next
        BY <2>3, <4>1 DEF Told
      <4>3. record[v] = m[v] /\ record[v].attempt >= next /\ Covering(record[v], v)
        BY <2>1, <2>5, <2>10, <4>1, <4>2
      <4>4. \A R \in Everywhere : R[v].attempt = next =>
               Covering(R[v], v) \/ (v = w /\ PendingRow(R[v], next))
        BY <2>3, <4>1 DEF Told
      <4>5. \A R \in Everywhere' : R[v].attempt >= next =>
               \/ Covering(R[v], v)
               \/ R[v].state = "pending" /\ R[v].attempt = next
        BY <2>8, <3>1, <4>3, <4>4 DEF PendingRow
      <4>6. \E R \in S \cup {record} : R[v].attempt >= next /\ R[v].state \in Done
        BY <4>3 DEF Covering
      <4> QED BY <4>5, <4>6 DEF DoneGuard
    <3> QED BY <3>3, <3>4 DEF Guarded
  <2>14. ASSUME NEW S, S \subseteq Everywhere, Guarding(S, {})
         PROVE  \A a \in 1..next : Guarded(S \cup {record}, Everywhere', fate', age', covered', a)
    <3>1. \A a \in 1..next : a \in 1..(next - 1) \/ a = next
      BY <2>1
    <3> QED BY <2>12, <2>13, <2>14, <3>1
  <2>15. OnDisk'
    <3> DEFINE S == {file.rows} \cup journal
    <3>1. S \subseteq Everywhere /\ Guarding(S, {})
      BY <2>2, <2>8 DEF Remembered, OnDisk
    <3>2. {file'.rows} \cup journal' = S \cup {record}
      BY <1>1, <1>4 DEF record
    <3> HIDE DEF S
    <3>3. \A a \in 1..next : Guarded(S \cup {record}, Everywhere', fate', age', covered', a)
      BY <2>14, <3>1
    <3> QED BY <1>1, <2>2, <3>2, <3>3 DEF OnDisk, Guarding
  <2>16. InMemory'
    <3> SUFFICES ASSUME owner # NoInstance
                 PROVE  \A a \in 1..next : Guarded(OwnerRows \cup journal', Everywhere', fate', age', covered', a)
      BY <1>1, <1>2 DEF InMemory, Guarding
    <3> DEFINE S == OwnerRows \cup journal
    <3>1. S \subseteq Everywhere /\ Guarding(S, {})
      BY <2>8 DEF Remembered, InMemory
    <3>2. OwnerRows \cup journal' = S \cup {record}
      BY <1>4 DEF record
    <3> HIDE DEF S
    <3>3. \A a \in 1..next : Guarded(S \cup {record}, Everywhere', fate', age', covered', a)
      BY <2>14, <3>1
    <3> QED BY <3>2, <3>3
  <2>17. Caught'
    BY <1>1, <1>2, <2>1 DEF Caught
  <2>18. Untold'
    BY <1>1, <2>2 DEF Untold
  <2> QED BY <2>15, <2>16, <2>17, <2>18 DEF Remembered
<1> QED BY <1>1, <1>3, <1>4

\* The rows after an outcome: the attempt's own ones, and others that stay but for failures.
RecordedRow(r, r2, v, n, own, state) ==
    \/ r2.attempt = r.attempt /\ r2.state = r.state /\ r2.until = r.until
       /\ (~Blocked(r) => ~Blocked(r2))
    \/ r2.attempt = n /\ state = "completed" /\ Covering(r2, v) /\ own

\* What an outcome makes of the rows.
LEMMA RecordRows ==
  ASSUME Base, Locking, Current, NEW i \in Instance, NEW state \in State \ {"pending", "confirmed"},
         NEW final \in BOOLEAN, Record(i, state, final)
  PROVE  LET m == memory[i].rows
             n == memory'[i].rows
             w == worker[i].window
         IN  /\ \A v \in Window \ {w} : RecordedRow(m[v], n[v], v, next, v \in covered'[next], state)
             /\ n[w].attempt = next /\ n[w].state = state
             /\ state = "uncertain" => Holding(n[w], next)
             /\ state = "completed" => \A v \in covered'[next] : n[v].attempt = next /\ Covering(n[v], v)
             /\ state = "completed" => w \in covered'[next]
             /\ state # "completed" => \A v \in Window \ {w} : n[v] = m[v]
<1> DEFINE m == memory[i]
           n == memory'[i]
           w == worker[i].window
<1>1. worker[i].at \in Flying
  BY RecordEffect DEF Base, Flying
<1>2. /\ w \in Window /\ worker[i].attempt = next /\ next \in Attempt /\ m \in Documents
      /\ worker[i].need \subseteq Window
  BY <1>1, InFlightFacts DEF Base, Types, Worker
<1>3. /\ state = "completed" => /\ n = AfterSuccess(m, worker[i])
                                /\ covered'[next] = Covers(m, worker[i])
      /\ state # "completed" => n = AfterFailure(m, worker[i], state, final)
  BY <1>2, RecordEffect DEF Base
<1> HIDE DEF m, n
<1>4. CASE state = "completed"
  <2>1. /\ Covers(m, worker[i]) \subseteq Window /\ w \in Covers(m, worker[i])
        /\ \A v \in Covers(m, worker[i]) :
               /\ n.rows[v].attempt = next /\ n.rows[v].state = "completed"
               /\ n.rows[v].until = Length[v] /\ ~Blocked(n.rows[v])
        /\ \A v \in Window \ Covers(m, worker[i]) :
               /\ n.rows[v].attempt = m.rows[v].attempt /\ n.rows[v].state = m.rows[v].state
               /\ n.rows[v].until = m.rows[v].until
               /\ ~Blocked(m.rows[v]) => ~Blocked(n.rows[v])
    BY <1>2, <1>3, <1>4, AfterSuccessFacts
  <2>2. \A v \in covered'[next] : n.rows[v].attempt = next /\ Covering(n.rows[v], v)
    BY <1>3, <1>4, <2>1 DEF Covering, Done
  <2>3. \A v \in Window : RecordedRow(m.rows[v], n.rows[v], v, next, v \in covered'[next], state)
    BY <1>3, <1>4, <2>1, <2>2 DEF RecordedRow
  <2> QED BY <1>3, <1>4, <2>1, <2>2, <2>3 DEF m, n
<1>5. CASE state # "completed"
  <2>1. /\ n.rows[w].attempt = next /\ n.rows[w].state = state
        /\ state = "uncertain" => n.rows[w].until >= Uncertain
        /\ \A v \in Window \ {w} : n.rows[v] = m.rows[v]
    BY <1>2, <1>3, <1>5, AfterFailureFacts
  <2>2. state = "uncertain" => Holding(n.rows[w], next)
    BY <2>1 DEF Holding
  <2>3. \A v \in Window \ {w} : RecordedRow(m.rows[v], n.rows[v], v, next, v \in covered'[next], state)
    BY <2>1 DEF RecordedRow
  <2> QED BY <1>5, <2>1, <2>2, <2>3 DEF m, n
<1> QED BY <1>4, <1>5

\* An outcome.
LEMMA RecordRemembered ==
  ASSUME Base, Locking, Ledgers, Remembered, InFlight, NEW i \in Instance,
         NEW state \in State \ {"pending", "confirmed"}, NEW final \in BOOLEAN, Record(i, state, final)
  PROVE  Remembered'
<1> DEFINE w == worker[i].window
           m == memory[i].rows
           n == memory'[i].rows
<1>1. /\ worker[i].at \in {"admitted", "sent"} /\ worker'[i].at = "recorded"
      /\ \A j \in Instance \ {i} : memory'[j] = memory[j] /\ worker'[j] = worker[j]
      /\ \A b \in Attempt \ {worker[i].attempt} : covered'[b] = covered[b]
  BY RecordEffect DEF Base
<1>2. /\ owner' = owner /\ journal' = journal /\ next' = next /\ age' = age
  BY DEF Record
<1>3. /\ w \in Window /\ worker[i].attempt = next /\ next \in Nat \ {0} /\ next \in Attempt
      /\ next \in 1..next /\ \A j \in Instance \ {i} : worker[j].at = "idle"
  BY <1>1, InFlightFacts DEF InFlight, Flying
<1>4. /\ volatile = {} /\ \A R \in {file.rows} \cup OwnerRows : R[w].attempt = next
      /\ \A R \in Everywhere \cup {m} : PendingOnly(R, w, next)
      /\ \A R \in journal, v \in Window : R[v].attempt < next
      /\ fate[next] \in {"admitted", "sent"}
  BY <1>1 DEF InFlight, Current, Sending, Flying
<1>5. \/ /\ owner = i /\ file'.rows = n /\ volatile' = {} /\ Becomes(next, state)
      \/ /\ owner = i /\ file' = file /\ volatile' = {next} /\ Becomes(next, state)
      \/ /\ owner # i /\ UNCHANGED <<fate, file, volatile>>
  <2>1. memory'[i] \in Documents
    BY RecordEffect DEF Base
  <2>2. SaveOK(i, memory'[i]) => owner = i /\ file'.rows = n /\ volatile' = {}
    BY <2>1, SaveFacts
  <2>3. \/ SaveOK(i, memory'[i]) /\ Becomes(next, state)
        \/ /\ owner = i /\ Becomes(next, state)
           /\ file' = file /\ volatile' = volatile \cup {next}
        \/ owner # i /\ UNCHANGED <<fate, file, volatile>>
    BY <1>3, RecordEffect DEF Base
  <2> QED BY <1>4, <2>2, <2>3
<1>6. Caught'
  BY <1>1, <1>3 DEF Caught
<1>7. CASE owner # i /\ UNCHANGED <<fate, file, volatile>>
  <2>1. owner \in Instance => memory'[owner] = memory[owner]
    BY <1>1, <1>7
  <2>2. OwnerRows' = OwnerRows
    BY <1>2, <2>1, OwnerFacts, NextRows, EverywhereFacts
  <2>3. \A a \in 1..next : Eases(fate, age, covered, fate', age', covered', a)
    <3> SUFFICES ASSUME NEW a \in 1..next
                 PROVE  Eases(fate, age, covered, fate', age', covered', a)
      OBVIOUS
    <3>1. a \in Attempt
      BY Numbers DEF Base, Types, Attempt
    <3>2. CASE a = next
      BY <1>2, <1>4, <1>7, <3>2 DEF Eases, Unknown, Running
    <3>3. CASE a # next
      BY <1>1, <1>2, <1>3, <1>7, <3>1, <3>3, EasesFacts
    <3> QED BY <3>2, <3>3
  <2>4. \A j \in Instance : worker'[j].at = worker[j].at
                             \/ worker'[j].at \notin {"saved", "merged", "ready"}
    BY <1>1
  <2> QED BY <1>2, <1>7, <2>2, <2>3, <2>4, UnmovedRemembered
<1>8. CASE /\ owner = i /\ Becomes(next, state)
           /\ \/ file'.rows = n /\ volatile' = {}
              \/ file' = file /\ volatile' = {next}
  <2>1. owner # NoInstance /\ OwnerRows = {m} /\ OwnerRows' = {n}
    BY <1>2, <1>8, EverywhereFacts, NextRows, Numbers
  <2>2. /\ \A v \in Window \ {w} : RecordedRow(m[v], n[v], v, next, v \in covered'[next], state)
        /\ n[w].attempt = next /\ n[w].state = state
        /\ state = "uncertain" => Holding(n[w], next)
        /\ state = "completed" => \A v \in covered'[next] : n[v].attempt = next /\ Covering(n[v], v)
    BY RecordRows DEF InFlight
  <2>3. Far(w, next, fate, age, covered)
    BY <1>1, <1>3 DEF InFlight, Current, Flying
  <2>4. /\ \A b \in Attempt \ {next} : fate'[b] = fate[b]
        /\ fate'[next] = IF state = "completed" THEN "completed"
                         ELSE IF state = "rejected" THEN "rejected"
                         ELSE IF state = "not_sent" THEN "admitted" ELSE "sent"
    BY <1>3, <1>8, BecomesFacts DEF Base, Types
  <2>5. /\ Everywhere = {file.rows} \cup journal \cup {m}
        /\ Everywhere' = {file'.rows} \cup journal \cup {n}
        /\ file'.rows \in {n, file.rows}
    BY <1>2, <1>8, <2>1, NextRows DEF Everywhere
  <2>6. \A R \in Everywhere, v \in Window : R[v].attempt \in Nat /\ R[v].attempt <= next
    BY EverywhereFacts, RowFacts DEF Sound, Good
  <2>7. PendingRow(file.rows[w], next) /\ \A v \in Window : file.rows[v].attempt = next =>
                                             v = w /\ PendingRow(file.rows[v], next)
    BY <1>3, <1>4, <2>5 DEF PendingOnly
  <2> HIDE DEF w, m, n
  \* Earlier attempts.
  <2>8. ASSUME NEW S, S \subseteq Everywhere, NEW a \in 1..(next - 1), NEW S2,
               Guarded(S, Everywhere, fate, age, covered, a),
               \A R \in S : R \in S2 \/ (R = m /\ n \in S2)
        PROVE  Guarded(S2, Everywhere', fate', age', covered', a)
    <3>1. a \in Attempt /\ a # next /\ a \in Nat \ {0} /\ next >= a
      BY <1>3, Numbers DEF Attempt
    <3>2. ~Unknown(fate', age', a) /\ ~Running(fate', age', covered', a, w)
      BY <1>1, <1>2, <1>3, <2>3, <2>4, <3>1 DEF Far, Unknown, Running
    <3>3. ASSUME NEW v \in Window, Running(fate', age', covered', a, v)
          PROVE  DoneGuard(S2, Everywhere', a, v)
      <4>1. v # w /\ Running(fate, age, covered, a, v)
        BY <1>1, <1>2, <1>3, <2>4, <3>1, <3>2, <3>3 DEF Running
      <4>2. DoneGuard(S, Everywhere, a, v)
        BY <2>8, <4>1 DEF Guarded
      <4>3. RecordedRow(m[v], n[v], v, next, v \in covered'[next], state)
        BY <2>2, <4>1
      <4>4. Follows(m[v], n[v], v, a) \/ Covering(n[v], v)
        BY <4>3, FollowsFacts DEF RecordedRow
      <4>5. \A R2 \in Everywhere' : R2[v].attempt >= a =>
               (\E R \in Everywhere : Follows(R[v], R2[v], v, a)) \/ Covering(R2[v], v)
        BY <2>5, <4>4, FollowsFacts
      <4>6. m[v].attempt >= a /\ Covering(m[v], v) => n[v].attempt >= a /\ n[v].state \in Done
        BY <3>1, <4>3 DEF RecordedRow, Covering
      <4>7. \A R \in S : R[v].attempt >= a /\ Covering(R[v], v) =>
               \E R2 \in S2 : R2[v].attempt >= a /\ R2[v].state \in Done
        <5> SUFFICES ASSUME NEW R \in S, R[v].attempt >= a, Covering(R[v], v)
                     PROVE  \E R2 \in S2 : R2[v].attempt >= a /\ R2[v].state \in Done
          OBVIOUS
        <5>1. CASE R \in S2
          BY <5>1 DEF Covering
        <5>2. CASE R = m /\ n \in S2
          BY <4>6, <5>2
        <5> QED BY <2>8, <5>1, <5>2
      <4> QED BY <2>8, <3>1, <4>2, <4>5, <4>7, DoneFollow
    <3> QED BY <3>2, <3>3 DEF Guarded
  \* The attempt itself.
  <2>9. ASSUME NEW S2, n \in S2 PROVE Guarded(S2, Everywhere', fate', age', covered', next)
    <3>1. \A R2 \in Everywhere', v \in Window : R2[v].attempt >= next =>
             R2 = n \/ (v = w /\ R2[v] = file.rows[w])
      <4>1. \A R \in journal, v \in Window : ~(R[v].attempt >= next)
        BY <1>3, <1>4, <2>5, <2>6
      <4>2. \A v \in Window : file.rows[v].attempt >= next => v = w
        BY <1>3, <2>5, <2>6, <2>7
      <4> QED BY <2>5, <4>1, <4>2
    <3>2. n[w].attempt >= next
      BY <1>3, <2>2
    <3>3. ASSUME Unknown(fate', age', next) PROVE SentGuard(S2, Everywhere', next)
      <4>1. Holding(n[w], next)
        BY <2>2, <2>4, <3>3 DEF Unknown, State
      <4>2. Holding(file.rows[w], next)
        BY <2>7, Numbers DEF PendingRow, Holding
      <4> QED BY <1>3, <2>9, <3>1, <3>2, <4>1, <4>2 DEF SentGuard
    <3>4. ASSUME NEW v \in Window, Running(fate', age', covered', next, v)
          PROVE  DoneGuard(S2, Everywhere', next, v)
      <4>1. state = "completed" /\ v \in covered'[next]
        BY <2>4, <3>4 DEF Running
      <4>2. n[v].attempt >= next /\ Covering(n[v], v)
        BY <1>3, <2>2, <4>1
      <4>3. n[v].state \in Done
        BY <4>2 DEF Covering
      <4>4. \A R2 \in Everywhere' : R2[v].attempt >= next =>
               Covering(R2[v], v) \/ (R2[v].state = "pending" /\ R2[v].attempt = next)
        BY <2>7, <3>1, <4>2 DEF PendingRow
      <4> QED BY <2>9, <4>2, <4>3, <4>4 DEF DoneGuard
    <3> QED BY <3>3, <3>4 DEF Guarded
  <2>10. \A a \in 1..next : a = next \/ a \in 1..(next - 1)
    BY <1>3
  <2>11. ASSUME NEW S2, S2 = {n} \cup journal
         PROVE  \A a \in 1..next : Guarded(S2, Everywhere', fate', age', covered', a)
    <3> SUFFICES ASSUME NEW a \in 1..next
                 PROVE  Guarded(S2, Everywhere', fate', age', covered', a)
      OBVIOUS
    <3>1. CASE a = next
      BY <2>9, <2>11, <3>1
    <3>2. CASE a \in 1..(next - 1)
      <4> DEFINE S == {m} \cup journal
      <4>1. S \subseteq Everywhere /\ Guarded(S, Everywhere, fate, age, covered, a)
        BY <2>1, <2>5 DEF Remembered, InMemory, Guarding
      <4>2. \A R \in S : R \in S2 \/ (R = m /\ n \in S2)
        BY <2>11
      <4> HIDE DEF S
      <4> QED BY <2>8, <3>2, <4>1, <4>2
    <3> QED BY <2>10, <3>1, <3>2
  <2>12. InMemory'
    <3> DEFINE S2 == {n} \cup journal
    <3>1. S2 = {n} \cup journal
      OBVIOUS
    <3>2. S2 = OwnerRows' \cup journal'
      BY <1>2, <2>1
    <3> HIDE DEF S2
    <3>3. \A a \in 1..next : Guarded(S2, Everywhere', fate', age', covered', a)
      BY <2>11, <3>1
    <3> QED BY <1>2, <3>2, <3>3 DEF InMemory, Guarding
  <2>13. OnDisk'
    <3>1. CASE file'.rows = n /\ volatile' = {}
      <4> DEFINE S2 == {n} \cup journal
      <4>1. S2 = {n} \cup journal
        OBVIOUS
      <4>2. S2 = {file'.rows} \cup journal'
        BY <1>2, <3>1
      <4> HIDE DEF S2
      <4>3. \A a \in 1..next : Guarded(S2, Everywhere', fate', age', covered', a)
        BY <2>11, <4>1
      <4> QED BY <1>2, <4>2, <4>3 DEF OnDisk, Guarding
    <3>2. CASE file' = file /\ volatile' = {next}
      <4> DEFINE S == {file.rows} \cup journal
      <4>1. \A a \in (1..next) \ {next} : a \in 1..(next - 1) /\ a \in 1..next
        BY <2>10
      <4>2. S \subseteq Everywhere
        BY <2>5
      <4>3. \A a \in 1..next : Guarded(S, Everywhere, fate, age, covered, a)
        BY <1>4 DEF Remembered, OnDisk, Guarding
      <4>4. S = {file'.rows} \cup journal'
        BY <1>2, <3>2
      <4> HIDE DEF S
      <4>5. \A a \in (1..next) \ {next} : Guarded(S, Everywhere', fate', age', covered', a)
        BY <2>8, <4>1, <4>2, <4>3
      <4> QED BY <1>2, <3>2, <4>4, <4>5 DEF OnDisk, Guarding
    <3> QED BY <1>8, <3>1, <3>2
  <2>14. Untold'
    <3>1. CASE volatile' = {}
      BY <3>1 DEF Untold
    <3>2. CASE file' = file /\ volatile' = {next}
      <4>1. /\ file.rows[w].attempt = next /\ file.rows[w].state = "pending"
            /\ ~Blocked(file.rows[w]) /\ file.rows[w].until >= Uncertain
        BY <2>7, Numbers DEF PendingRow
      <4>2. \A v \in Window : file.rows[v].attempt <= next
        BY <2>5, <2>6
      <4>3. w \in Window
        BY <1>3 DEF w
      <4> QED BY <1>2, <1>4, <3>2, <4>1, <4>2, <4>3 DEF Untold
    <3> QED BY <1>8, <3>1, <3>2
  <2> QED BY <1>6, <2>12, <2>13, <2>14 DEF Remembered
<1> QED BY <1>5, <1>7, <1>8

\* No step forgets.
LEMMA RememberedStep ==
  ASSUME Base, Locking, Ledgers, Remembered, InFlight, [Next]_vars PROVE Remembered'
<1>1. CASE UNCHANGED vars
  <2>1. \A a \in 1..next : Eases(fate, age, covered, fate', age', covered', a)
    BY <1>1, EasesFacts DEF vars, history
  <2>2. OwnerRows' = OwnerRows
    BY <1>1 DEF OwnerRows, vars
  <2> QED BY <1>1, <2>1, <2>2, UnmovedRemembered DEF vars
<1>2. CASE Next
  BY <1>2, AcquireRemembered, CompactRemembered, ClearJournalRemembered, AdmitRemembered,
     SaveAdmissionRemembered, SendRemembered, RecordRemembered, AbandonRemembered,
     FinishRemembered, ConfirmRemembered, SaveRemembered, ClearRemembered, ClaimRemembered,
     CrashRemembered, TickRemembered DEF Next
<1> QED BY <1>1, <1>2
-----------------------------------------------------------------------------
(* The attempt in flight.                                                   *)

\* Nobody is in flight.
LEMMA NobodyInFlight ==
  ASSUME \A j \in Instance : worker[j].at \notin Flying PROVE InFlight
  BY DEF InFlight, Current, Sending, Recorded, Flying

\* Nor after a step that ends the only worker, or leaves it at rest.
LEMMA NobodyNext ==
  ASSUME \A j \in Instance : worker'[j].at \notin Flying PROVE InFlight'
  BY DEF InFlight, Current, Sending, Recorded, Flying

\* A row that is another, or the confirmed one of a completed one.
Tells(r, r2) == \/ r2 = r
                \/ /\ r.state = "completed" /\ r2.state = "confirmed" /\ r2.attempt = r.attempt
                   /\ r2.until = r.until /\ (Blocked(r2) <=> Blocked(r))

\* It tells the same.
LEMMA TellsFacts ==
  ASSUME NEW r, NEW r2, Tells(r, r2), NEW v, NEW a
  PROVE  /\ r2.attempt = r.attempt /\ (r2.state \in Done <=> r.state \in Done)
         /\ r2.state = "pending" <=> r.state = "pending"
         /\ r2.state = "uncertain" <=> r.state = "uncertain"
         /\ Covering(r, v) => Covering(r2, v)
         /\ Holding(r, a) => Holding(r2, a)
         /\ PendingRow(r, a) => PendingRow(r2, a)
  BY DEF Tells, Covering, Holding, PendingRow, Done

\* A worker in flight that a step leaves alone: what is told of its attempt stays told.
LEMMA FlightStays ==
  ASSUME Base, Locking, InFlight, NEW j \in Instance, worker[j].at \in Flying,
         worker'[j] = worker[j], \A k \in Instance \ {j} : worker'[k].at = "idle",
         next' = next, journal' = journal, covered' = covered, volatile' \subseteq volatile,
         owner' = j => owner = j,
         worker[j].at # "admitting" \/ owner' = j =>
             \A a \in 1..(next - 1) : Eases(fate, age, covered, fate', age', covered', a),
         worker[j].at # "recorded" => fate'[next] = fate[next],
         \A R2 \in Everywhere', v \in Window : R2[v].attempt = next =>
             \E R \in Everywhere \cup {memory[j].rows} : Tells(R[v], R2[v]),
         \A v \in Window : LET r == memory[j].rows[v]
                               r2 == memory'[j].rows[v]
                           IN  /\ r2.attempt = next => Tells(r, r2)
                               /\ r.attempt = next /\ (PendingRow(r, next) \/ Covering(r, v))
                                      => r2.attempt = next,
         worker[j].at \in {"admitted", "sent"} =>
             \A R \in {file'.rows} \cup OwnerRows' : R[worker[j].window].attempt = next
  PROVE  InFlight'
<1> DEFINE w == worker[j].window
           m == memory[j].rows
           n == memory'[j].rows
<1>1. /\ w \in Window /\ next \in Nat \ {0} /\ next \in 1..next
  BY InFlightFacts DEF InFlight
<1>2. \A R2 \in Everywhere' \cup {n}, v \in Window : R2[v].attempt = next =>
         \E R \in Everywhere \cup {m} : Tells(R[v], R2[v])
  OBVIOUS
<1> HIDE DEF m, n
<1>3. Current'
  <2>1. Far(w, next, fate, age, covered) /\ (worker[j].at # "admitting" \/ owner' = j)
            => Far(w, next, fate', age', covered')
    <3> HIDE DEF w
    <3> QED BY <1>1 DEF Far, Eases
  <2>2. /\ worker[j].attempt = next
        /\ \A R \in journal, v \in Window : R[v].attempt < next
        /\ worker[j].at \in {"admitting", "admitted"} => fate[next] = "admitted"
        /\ worker[j].at = "sent" => fate[next] = "sent"
        /\ worker[j].at # "admitting" \/ owner = j => Far(w, next, fate, age, covered)
    BY DEF InFlight, Current
  <2>3. /\ worker[j].at \in {"admitting", "admitted"} => fate'[next] = "admitted"
        /\ worker[j].at = "sent" => fate'[next] = "sent"
        /\ worker[j].at # "admitting" \/ owner' = j => Far(w, next, fate', age', covered')
    BY <2>1, <2>2
  <2> QED BY <2>2, <2>3 DEF Current, Flying
<1>4. Sending'
  <2>1. CASE worker[j].at \in {"admitting", "admitted", "sent"}
    <3>1. /\ m[w].attempt = next /\ \A R \in Everywhere \cup {m} : PendingOnly(R, w, next)
          /\ next \notin volatile
          /\ worker[j].at \in {"admitted", "sent"} => volatile = {}
      BY <2>1 DEF InFlight, Sending, m
    <3>2. n[w].attempt = next
      <4>1. PendingRow(m[w], next)
        BY <1>1, <3>1 DEF PendingOnly
      <4> QED BY <1>1, <3>1, <4>1 DEF m, n
    <3>3. ASSUME NEW R2 \in Everywhere' \cup {n}, NEW v \in Window, R2[v].attempt = next
          PROVE  v = w /\ PendingRow(R2[v], next)
      <4>1. PICK R \in Everywhere \cup {m} : Tells(R[v], R2[v])
        BY <1>2, <3>3
      <4>2. R[v].attempt = next
        BY <3>3, <4>1, TellsFacts
      <4> QED BY <3>1, <4>1, <4>2, TellsFacts DEF PendingOnly
    <3>4. \A R \in Everywhere' \cup {n} : PendingOnly(R, w, next)
      BY <3>3 DEF PendingOnly
    <3> QED BY <3>1, <3>2, <3>4 DEF Sending, n
  <2>2. CASE worker[j].at = "recorded"
    BY <2>2 DEF Sending
  <2> QED BY <2>1, <2>2 DEF Flying
<1>5. Recorded'
  <2>1. CASE worker[j].at = "recorded"
    <3>1. /\ volatile \subseteq {next}
          /\ m[w].attempt = next => Told(Everywhere, m, w, next, covered)
      BY <2>1 DEF InFlight, Recorded, m
    <3>2. ASSUME n[w].attempt = next PROVE Told(Everywhere', n, w, next, covered')
      <4>1. Tells(m[w], n[w])
        BY <1>1, <3>2 DEF m, n
      <4>2. /\ m[w].attempt = next
            /\ n[w].state \in Done <=> m[w].state \in Done
            /\ n[w].state = "pending" <=> m[w].state = "pending"
            /\ n[w].state = "uncertain" <=> m[w].state = "uncertain"
        BY <3>2, <4>1, TellsFacts
      <4>3. Told(Everywhere, m, w, next, covered)
        BY <3>1, <4>2
      <4>4. n[w].state # "pending"
        BY <4>2, <4>3 DEF Told
      <4>5. ASSUME n[w].state \in Done, NEW v \in covered[next], v \in Window PROVE n[v].attempt = next
        <5>1. m[v].attempt = next
          BY <4>2, <4>3, <4>5 DEF Told
        <5>2. Covering(m[v], v) \/ PendingRow(m[v], next)
          BY <4>2, <4>3, <4>5, <5>1 DEF Told
        <5> QED BY <4>5, <5>1, <5>2 DEF m, n
      <4>6. ASSUME n[w].state \in Done, NEW R2 \in Everywhere' \cup {n}, NEW v \in Window,
                   R2[v].attempt = next
            PROVE  Covering(R2[v], v) \/ (v = w /\ PendingRow(R2[v], next))
        <5>1. PICK R \in Everywhere \cup {m} : Tells(R[v], R2[v])
          BY <1>2, <4>6
        <5>2. R[v].attempt = next
          BY <4>6, <5>1, TellsFacts
        <5>3. Covering(R[v], v) \/ (v = w /\ PendingRow(R[v], next))
          BY <4>2, <4>3, <4>6, <5>2 DEF Told
        <5> QED BY <5>1, <5>3, TellsFacts
      <4>7. ASSUME n[w].state \notin Done, NEW v \in Window, n[v].attempt = next PROVE v = w
        <5>1. m[v].attempt = next
          <6>1. Tells(m[v], n[v])
            BY <4>7 DEF m, n
          <6> QED BY <4>7, <6>1, TellsFacts
        <5> QED BY <4>2, <4>3, <4>7, <5>1 DEF Told
      <4>8. ASSUME n[w].state = "uncertain", NEW R2 \in Everywhere' \cup {n}, R2[w].attempt = next
            PROVE  Holding(R2[w], next)
        <5>1. PICK R \in Everywhere \cup {m} : Tells(R[w], R2[w])
          BY <1>1, <1>2, <4>8
        <5>2. R[w].attempt = next
          BY <4>8, <5>1, TellsFacts
        <5>3. Holding(R[w], next)
          BY <4>2, <4>3, <4>8, <5>2 DEF Told
        <5> QED BY <5>1, <5>3, TellsFacts
      <4>9. covered'[next] = covered[next] /\ covered[next] \subseteq Window
        BY InFlightFacts DEF Base, Types, InFlight
      <4> QED BY <4>4, <4>5, <4>6, <4>7, <4>8, <4>9 DEF Told
    <3> QED BY <2>1, <3>1, <3>2 DEF Recorded, n
  <2>2. CASE worker[j].at # "recorded"
    BY <2>2 DEF Recorded
  <2> QED BY <2>1, <2>2
<1> QED BY <1>3, <1>4, <1>5 DEF InFlight

\* The rows file, owner and a worker in flight know of its attempt, before its outcome.
LEMMA FlightRows ==
  ASSUME Base, Locking, InFlight, NEW j \in Instance, worker[j].at \in Flying
  PROVE  /\ \A k \in Instance \ {j} : worker[k].at = "idle"
         /\ worker[j].at \in {"admitted", "sent"} =>
                \A R \in {file.rows} \cup OwnerRows : R[worker[j].window].attempt = next
         /\ worker[j].at # "recorded" => next \notin volatile
         /\ volatile \subseteq {next} \/ worker[j].at = "admitting"
         /\ memory[j].rows[worker[j].window].attempt # next => worker[j].at = "recorded"
<1>1. \A k \in Instance \ {j} : worker[k].at = "idle"
  BY InFlightFacts DEF InFlight
<1> QED BY <1>1 DEF InFlight, Sending, Recorded, Flying

\* The owner confirms beside a worker in flight, its own or another's.
LEMMA ConfirmFlight ==
  ASSUME Base, Locking, InFlight, NEW i \in Instance, NEW v \in Window, Confirm(i, v)
  PROVE  InFlight'
<1>1. /\ owner' = owner /\ file' = file /\ journal' = journal /\ worker' = worker /\ next' = next
      /\ age' = age /\ fate' = fate /\ covered' = covered /\ volatile' = volatile
  BY DEF Confirm, history
<1>2. /\ owner = i /\ \A j \in Instance \ {i} : memory'[j] = memory[j]
      /\ \A u \in Window : Tells(memory[i].rows[u], memory'[i].rows[u])
      /\ \A u \in Window : memory'[i].rows[u].attempt = memory[i].rows[u].attempt
  BY ConfirmEffect DEF Base, Tells
<1>3. OwnerRows = {memory[i].rows} /\ OwnerRows' = {memory'[i].rows}
  BY <1>1, <1>2, EverywhereFacts, NextRows, Numbers
<1>4. CASE \A j \in Instance : worker[j].at \notin Flying
  BY <1>1, <1>4, NobodyNext
<1>5. CASE \E j \in Instance : worker[j].at \in Flying
  <2>1. PICK j \in Instance : worker[j].at \in Flying
    BY <1>5
  <2>2. \A k \in Instance \ {j} : worker[k].at = "idle"
    BY <2>1, FlightRows
  <2>3. \A R2 \in Everywhere', u \in Window : \E R \in Everywhere : Tells(R[u], R2[u])
    <3>1. \A u \in Window, R \in {file.rows} \cup journal : Tells(R[u], R[u])
      BY DEF Tells
    <3> QED BY <1>1, <1>2, <1>3, <3>1, NextRows DEF Everywhere
  <2>4. \A u \in Window : /\ Tells(memory[j].rows[u], memory'[j].rows[u])
                          /\ memory'[j].rows[u].attempt = memory[j].rows[u].attempt
    BY <1>2 DEF Tells
  <2>5. worker[j].at \in {"admitted", "sent"} =>
           \A R \in {file'.rows} \cup OwnerRows' : R[worker[j].window].attempt = next
    <3>1. worker[j].window \in Window
      BY <2>1, InFlightFacts DEF InFlight
    <3> QED BY <1>1, <1>2, <1>3, <2>1, <3>1, FlightRows
  <2>6. \A a \in 1..(next - 1) : Eases(fate, age, covered, fate', age', covered', a)
    BY <1>1, EasesFacts
  <2> QED BY <1>1, <2>1, <2>2, <2>3, <2>4, <2>5, <2>6, FlightStays
<1> QED BY <1>4, <1>5

\* A worker in flight beside a step that leaves its memory and drops what others told.
LEMMA FlightAside ==
  ASSUME Base, Locking, InFlight, NEW j \in Instance, worker[j].at \in Flying,
         \A k \in Instance : worker'[k] = worker[k] \/ (k # j /\ worker'[k].at = "idle"),
         memory'[j] = memory[j],
         next' = next, journal' = journal, covered' = covered, age' = age,
         volatile' \subseteq volatile, owner' = j => owner = j,
         worker[j].at # "admitting" \/ owner' = j => fate' = fate \/
             \A a \in 1..(next - 1) : Eases(fate, age, covered, fate', age', covered', a),
         worker[j].at # "recorded" => fate'[next] = fate[next],
         From(Everywhere', Everywhere),
         worker[j].at \in {"admitted", "sent"} =>
             \A R \in {file'.rows} \cup OwnerRows' : R[worker[j].window].attempt = next
  PROVE  InFlight'
<1>1. worker'[j] = worker[j] /\ \A k \in Instance \ {j} : worker'[k].at = "idle"
  BY FlightRows
<1>2. next \in Nat \ {0}
  BY InFlightFacts DEF InFlight
<1>3. \A R2 \in Everywhere', v \in Window : R2[v].attempt = next =>
         \E R \in Everywhere \cup {memory[j].rows} : Tells(R[v], R2[v])
  BY <1>2 DEF From, Tells
<1>4. \A v \in Window : Tells(memory[j].rows[v], memory'[j].rows[v])
  BY DEF Tells
<1>5. worker[j].at # "admitting" \/ owner' = j =>
             \A a \in 1..(next - 1) : Eases(fate, age, covered, fate', age', covered', a)
  BY EasesFacts
<1> QED BY <1>1, <1>3, <1>4, <1>5, FlightStays

\* Saving beside it.
LEMMA SaveFlight == ASSUME Base, Locking, InFlight, NEW i \in Instance, Save(i) PROVE InFlight'
<1>1. /\ owner' = owner /\ journal' = journal /\ next' = next /\ memory' = memory
      /\ age' = age /\ fate' = fate /\ covered' = covered /\ worker' = worker
      /\ owner = i /\ file'.rows = memory[i].rows /\ volatile' = {}
  <2>1. SaveOK(i, memory[i]) /\ memory[i] \in Documents
    BY DEF Save, Base, Types
  <2> QED BY <2>1, SaveFacts DEF Save, history
<1>2. OwnerRows = {memory[i].rows} /\ OwnerRows' = OwnerRows
  BY <1>1, EverywhereFacts, NextRows, Numbers
<1>3. Everywhere' \subseteq Everywhere /\ From(Everywhere', Everywhere)
  BY <1>1, <1>2, NextRows, FromFacts DEF Everywhere
<1>4. CASE \A j \in Instance : worker[j].at \notin Flying
  BY <1>1, <1>4, NobodyNext
<1>5. ASSUME NEW j \in Instance, worker[j].at \in Flying PROVE InFlight'
  <2>1. worker[j].at \in {"admitted", "sent"} =>
           \A R \in {file'.rows} \cup OwnerRows' : R[worker[j].window].attempt = next
    BY <1>1, <1>2, <1>5, FlightRows
  <2> QED BY <1>1, <1>3, <1>5, <2>1, FlightAside
<1> QED BY <1>4, <1>5

\* Claiming beside it: a new instance takes the generation, the worker goes on.
LEMMA ClaimFlight ==
  ASSUME Base, Locking, InFlight, NEW i \in Instance, Claim(i) PROVE InFlight'
<1>1. /\ file' = file /\ journal' = journal /\ next' = next /\ age' = age /\ covered' = covered
      /\ worker' = worker
  BY DEF Claim
<1>2. /\ fate' = Forgotten /\ volatile' = {} /\ worker[i].at = "idle" /\ owner' = i
      /\ \A j \in Instance \ {i} : j \in up' <=> j \in up /\ worker[j].at # "idle"
      /\ \A j \in Instance \ {i} : memory'[j] = IF j \in up' THEN memory[j] ELSE Empty
  BY ClaimEffect DEF Base
<1>3. CASE \A j \in Instance : worker[j].at \notin Flying
  BY <1>1, <1>3, NobodyNext
<1>4. ASSUME NEW j \in Instance, worker[j].at \in Flying PROVE InFlight'
  <2>1. j # i /\ memory'[j] = memory[j]
    <3>1. worker[j].at # "idle"
      BY <1>4 DEF Flying
    <3> QED BY <1>2, <3>1 DEF Locking
  <2>2. /\ worker[j].window \in Window /\ next \in Attempt /\ next \in Nat \ {0}
    BY <1>4, InFlightFacts DEF InFlight
  <2>3. \A a \in Attempt : Forgotten[a] = IF a \in volatile THEN "sent" ELSE fate[a]
    BY ForgottenFacts DEF Base
  <2>4. worker[j].at # "recorded" => fate'[next] = fate[next]
    BY <1>2, <1>4, <2>2, <2>3, FlightRows
  <2>5. worker[j].at # "admitting" =>
           \A a \in 1..(next - 1) : Eases(fate, age, covered, fate', age', covered', a)
    <3> SUFFICES ASSUME worker[j].at # "admitting", NEW a \in 1..(next - 1)
                 PROVE  Eases(fate, age, covered, fate', age', covered', a)
      OBVIOUS
    <3>1. a \in Attempt /\ a # next
      BY <2>2, Numbers DEF Attempt
    <3>2. a \notin volatile
      BY <1>4, <3>1, FlightRows
    <3> QED BY <1>1, <1>2, <2>3, <3>1, <3>2, EasesFacts
  <2>6. worker[j].at \in {"admitted", "sent"} =>
           \A R \in {file'.rows} \cup OwnerRows' : R[worker[j].window].attempt = next
    <3> SUFFICES ASSUME worker[j].at \in {"admitted", "sent"}
                 PROVE  \A R \in {file'.rows} \cup OwnerRows' : R[worker[j].window].attempt = next
      OBVIOUS
    <3>1. file.rows[worker[j].window].attempt = next
      BY <1>4, FlightRows
    <3>2. memory'[i].rows[worker[j].window] = file.rows[worker[j].window] /\ OwnerRows' = {memory'[i].rows}
      BY <2>2, <3>1, ClaimRows
    <3> QED BY <1>1, <3>1, <3>2
  <2>7. From(Everywhere', Everywhere)
    BY ClaimRows
  <2> QED BY <1>1, <1>2, <1>4, <2>1, <2>4, <2>5, <2>6, <2>7, FlightAside
<1> QED BY <1>3, <1>4

\* Crashing beside it, or with it.
LEMMA CrashFlight ==
  ASSUME Base, Locking, InFlight, NEW i \in Instance, Crash(i) PROVE InFlight'
<1>1. /\ file' = file /\ journal' = journal /\ next' = next /\ age' = age /\ covered' = covered
      /\ owner' = IF owner = i THEN NoInstance ELSE owner
      /\ memory' = [memory EXCEPT ![i] = Empty] /\ GoTo(i, Idle)
      /\ owner = i => fate' = Forgotten /\ volatile' = {}
      /\ owner # i => fate' = fate /\ volatile' = volatile
  BY DEF Crash
<1>2. /\ worker'[i].at = "idle"
      /\ \A j \in Instance \ {i} : worker'[j] = worker[j] /\ memory'[j] = memory[j]
  <2>1. \A j \in Instance \ {i} : memory'[j] = memory[j]
    BY <1>1 DEF Base, Types
  <2> QED BY <1>1, <2>1, MoveFacts, IdleFacts DEF Base
<1>3. CASE \A j \in Instance \ {i} : worker[j].at \notin Flying
  <2>1. \A j \in Instance : worker'[j].at \notin Flying
    BY <1>2, <1>3 DEF Flying
  <2> QED BY <2>1, NobodyNext
<1>4. ASSUME NEW j \in Instance \ {i}, worker[j].at \in Flying PROVE InFlight'
  <2>1. /\ worker[j].window \in Window /\ next \in Attempt /\ next \in Nat \ {0}
    BY <1>4, InFlightFacts DEF InFlight
  <2>2. OwnerRows' \subseteq OwnerRows
    BY <1>1, <1>2, EverywhereFacts, NextRows, OwnerFacts
  <2>3. Everywhere' \subseteq Everywhere /\ From(Everywhere', Everywhere)
    BY <1>1, <2>2, NextRows, FromFacts DEF Everywhere
  <2>4. worker[j].at \in {"admitted", "sent"} =>
           \A R \in {file'.rows} \cup OwnerRows' : R[worker[j].window].attempt = next
    BY <1>1, <1>4, <2>2, FlightRows
  <2>5. \A a \in Attempt : Forgotten[a] = IF a \in volatile THEN "sent" ELSE fate[a]
    BY ForgottenFacts DEF Base
  <2>6. worker[j].at # "recorded" => fate'[next] = fate[next]
    BY <1>1, <1>4, <2>1, <2>5, FlightRows
  <2>7. worker[j].at # "admitting" \/ owner' = j => fate' = fate \/
           \A a \in 1..(next - 1) : Eases(fate, age, covered, fate', age', covered', a)
    <3> SUFFICES ASSUME worker[j].at # "admitting" \/ owner' = j, owner = i,
                        NEW a \in 1..(next - 1)
                 PROVE  Eases(fate, age, covered, fate', age', covered', a)
      BY <1>1
    <3>1. a \in Attempt /\ a # next
      BY <2>1, Numbers DEF Attempt
    <3>2. worker[j].at # "admitting"
      BY <1>1, Numbers
    <3>3. a \notin volatile
      BY <1>4, <3>1, <3>2, FlightRows
    <3> QED BY <1>1, <2>5, <3>1, <3>3, EasesFacts
  <2>8. owner' = j => owner = j
    BY <1>1, Numbers
  <2> QED BY <1>1, <1>2, <1>4, <2>3, <2>4, <2>6, <2>7, <2>8, FlightAside
<1> QED BY <1>3, <1>4

\* Clearing beside it: the row of an admission stays, and those of a success.
LEMMA ClearFlight == ASSUME Base, Locking, InFlight, NEW i \in Instance, Clear(i) PROVE InFlight'
<1>1. /\ owner' = owner /\ file' = file /\ journal' = journal /\ worker' = worker /\ next' = next
      /\ age' = age /\ covered' = covered /\ volatile' = volatile
  BY DEF Clear
<1>2. /\ owner = i /\ \A j \in Instance \ {i} : memory'[j] = memory[j]
      /\ \A u \in Window : memory'[i].rows[u] = IF u \in Gone(i) THEN NoRow ELSE memory[i].rows[u]
      /\ fate' = [a \in Attempt |-> IF /\ fate[a] \in {"sent", "rejected"}
                                       /\ a \in {memory[i].rows[w].attempt : w \in Gone(i)}
                                    THEN "cleared" ELSE fate[a]]
  BY ClearEffect DEF Base
<1>3. OwnerRows = {memory[i].rows} /\ OwnerRows' = {memory'[i].rows}
  BY <1>1, <1>2, EverywhereFacts, NextRows, Numbers
<1>4. \A u \in Gone(i) : Blocked(memory[i].rows[u]) \/ Failed(memory[i].rows[u])
  BY DEF Gone, Cleared
<1>5. CASE \A j \in Instance : worker[j].at \notin Flying
  BY <1>1, <1>5, NobodyNext
<1>6. ASSUME NEW j \in Instance, worker[j].at \in Flying PROVE InFlight'
  <2> DEFINE w == worker[j].window
  <2>1. /\ w \in Window /\ next \in Attempt /\ next \in Nat \ {0}
        /\ \A k \in Instance \ {j} : worker[k].at = "idle"
    BY <1>6, InFlightFacts DEF InFlight
  <2>2. \A u \in Window : /\ memory'[i].rows[u].attempt = next =>
                                 memory'[i].rows[u] = memory[i].rows[u]
                          /\ PendingRow(memory[i].rows[u], next) \/ Covering(memory[i].rows[u], u) =>
                                 memory'[i].rows[u] = memory[i].rows[u]
    <3>1. NoRow.attempt # next
      BY <2>1, RowFacts
    <3>2. \A u \in Window : PendingRow(memory[i].rows[u], next) \/ Covering(memory[i].rows[u], u)
             => u \notin Gone(i)
      BY <1>4 DEF PendingRow, Covering, Done, Failed
    <3> QED BY <1>2, <3>1, <3>2
  <2>3. \A R2 \in Everywhere', u \in Window : R2[u].attempt = next =>
           \E R \in Everywhere \cup {memory[j].rows} : Tells(R[u], R2[u])
    BY <1>1, <1>3, <2>2, NextRows DEF Everywhere, Tells
  <2>4. \A u \in Window : LET r == memory[j].rows[u]
                              r2 == memory'[j].rows[u]
                          IN  /\ r2.attempt = next => Tells(r, r2)
                              /\ r.attempt = next /\ (PendingRow(r, next) \/ Covering(r, u))
                                     => r2.attempt = next
    BY <1>2, <2>2 DEF Tells
  <2>5. ASSUME worker[j].at # "recorded"
        PROVE  /\ \A R \in Everywhere : PendingOnly(R, w, next)
               /\ \A u \in Gone(i) : memory[i].rows[u].attempt # next
    <3>1. \A R \in Everywhere : PendingOnly(R, w, next)
      BY <1>6, <2>5 DEF InFlight, Sending, Flying
    <3>2. memory[i].rows \in Everywhere
      BY <1>3 DEF Everywhere
    <3>3. \A u \in Gone(i) : u \in Window /\ ~PendingRow(memory[i].rows[u], next)
      BY <1>4 DEF PendingRow, Failed, Gone
    <3> QED BY <3>1, <3>2, <3>3 DEF PendingOnly
  <2>6. worker[j].at # "recorded" => fate'[next] = fate[next]
    BY <1>2, <2>1, <2>5
  <2>7. \A a \in 1..(next - 1) : Eases(fate, age, covered, fate', age', covered', a)
    <3> SUFFICES ASSUME NEW a \in 1..(next - 1)
                 PROVE  Eases(fate, age, covered, fate', age', covered', a)
      OBVIOUS
    <3>1. a \in Attempt
      BY <2>1, Numbers DEF Attempt
    <3> QED BY <1>1, <1>2, <3>1 DEF Eases, Unknown, Running
  <2>8. worker[j].at \in {"admitted", "sent"} =>
           \A R \in {file'.rows} \cup OwnerRows' : R[w].attempt = next
    <3> SUFFICES ASSUME worker[j].at \in {"admitted", "sent"}
                 PROVE  \A R \in {file'.rows} \cup OwnerRows' : R[w].attempt = next
      OBVIOUS
    <3>1. file.rows[w].attempt = next /\ memory[i].rows[w].attempt = next
      BY <1>3, <1>6, FlightRows
    <3>2. w \notin Gone(i)
      BY <2>5, <3>1
    <3> QED BY <1>1, <1>2, <1>3, <2>1, <3>1, <3>2
  <2> QED BY <1>1, <1>6, <2>1, <2>3, <2>4, <2>6, <2>7, <2>8, FlightStays
<1> QED BY <1>5, <1>6

\* An admission begins a flight, and nobody else has told of it.
LEMMA AdmitFlight ==
  ASSUME Base, Locking, Ledgers, Remembered, NEW i \in Instance, NEW need \in Needs, Admit(i, need)
  PROVE  InFlight'
<1> DEFINE w == worker'[i].window
           n == memory'[i].rows
<1>1. /\ worker[i].at = "ready" /\ next' = next + 1
      /\ \A j \in Instance \ {i} : memory'[j] = memory[j] /\ worker'[j] = worker[j]
      /\ worker'[i].at = "admitting" /\ worker'[i].attempt = next' /\ w \in Window
      /\ PendingRow(n[w], next') /\ \A v \in Window \ {w} : n[v] = Pruned(memory[i]).rows[v]
  BY AdmitEffect
<1>2. /\ owner' = owner /\ file' = file /\ journal' = journal /\ age' = age
      /\ covered' = covered /\ volatile' = volatile /\ fate' = [fate EXCEPT ![next'] = "admitted"]
  BY DEF Admit
<1>3. /\ next \in Nat /\ next' \in Attempt /\ fate \in [Attempt -> Fates]
      /\ volatile \subseteq 1..next
  BY AdmitEffect, Numbers DEF Base, Types, Ledgers, Kept
<1>4. fate'[next'] = "admitted" /\ \A a \in 1..next : fate'[a] = fate[a]
  <2>1. \A a \in 1..next : a \in Attempt /\ a # next'
    BY <1>1, <1>3, Numbers DEF Attempt
  <2> QED BY <1>2, <1>3, <2>1
<1>5. \A j \in Instance \ {i} : worker'[j].at = "idle"
  BY <1>1 DEF Locking
<1>6. /\ \A R \in {file.rows} \cup journal, v \in Window : R[v].attempt \in Nat /\ R[v].attempt <= next
      /\ \A j \in Instance, v \in Window : memory[j].rows[v].attempt \in Nat /\ memory[j].rows[v].attempt <= next
  <2>1. \A R \in Everywhere, v \in Window : R[v].attempt \in Nat /\ R[v].attempt <= next
    BY EverywhereFacts, RowFacts DEF Sound, Good
  <2>2. \A j \in Instance : memory[j].rows \in Rows /\ Sound(memory[j].rows, next)
    BY RowFacts DEF Base, Types, Numbered, Documents
  <2> QED BY <2>1, <2>2, RowFacts DEF Everywhere, Sound, Good
<1>7. \A v \in Window \ {w} : n[v].attempt \in Nat /\ n[v].attempt <= next
  <2>1. \A v \in Window : Pruned(memory[i]).rows[v] \in {NoRow, memory[i].rows[v]}
    BY PrunedFacts DEF Base, Types
  <2> QED BY <1>1, <1>3, <1>6, <2>1, RowFacts
<1>8. \A k \in Nat : k <= next => k < next' /\ k # next'
  BY <1>1, <1>3
<1> HIDE DEF w, n
<1>9. \A R \in Everywhere' \cup {n} : PendingOnly(R, w, next')
  <2>1. PendingOnly(n, w, next')
    BY <1>1, <1>7, <1>8 DEF PendingOnly
  <2>2. \A R \in {file.rows} \cup journal : PendingOnly(R, w, next')
    BY <1>6, <1>8 DEF PendingOnly
  <2>3. \A j \in Instance \ {i} : PendingOnly(memory'[j].rows, w, next')
    BY <1>1, <1>6, <1>8 DEF PendingOnly
  <2>4. \A R \in OwnerRows' : PendingOnly(R, w, next')
    BY <1>2, <2>1, <2>3, NextRows, OwnerFacts DEF n
  <2> QED BY <1>2, <2>1, <2>2, <2>4, NextRows
<1>10. Current'
  <2>1. owner = i => Far(w, next', fate', age', covered')
    <3> SUFFICES ASSUME owner = i, NEW a \in 1..next
                 PROVE  ~Unknown(fate', age', a) /\ ~Running(fate', age', covered', a, w)
      <4>1. 1..(next' - 1) = 1..next
        BY <1>1, <1>3
      <4> QED BY <4>1 DEF Far
    <3> QED BY <1>2, <1>4, AdmitFar DEF Unknown, Running, w
  <2>2. \A R \in journal', v \in Window : R[v].attempt < next'
    BY <1>2, <1>6, <1>8
  <2> QED BY <1>1, <1>2, <1>4, <1>5, <2>1, <2>2 DEF Current, Flying, w
<1>11. Sending'
  <2>1. next' \notin volatile
    BY <1>1, <1>3
  <2>2. n[w].attempt = next'
    BY <1>1 DEF PendingRow
  <2> QED BY <1>1, <1>2, <1>5, <1>9, <2>1, <2>2 DEF Sending, w, n
<1>12. Recorded'
  BY <1>1, <1>5 DEF Recorded
<1> QED BY <1>10, <1>11, <1>12 DEF InFlight

\* A durable admission: file and owner tell it.
LEMMA SaveAdmissionFlight ==
  ASSUME Base, Locking, InFlight, NEW i \in Instance, SaveAdmission(i) PROVE InFlight'
<1> DEFINE w == worker[i].window
<1>1. /\ worker[i].at = "admitting" /\ owner' = owner /\ journal' = journal /\ next' = next
      /\ age' = age /\ fate' = fate /\ covered' = covered
      /\ \/ SaveOK(i, memory[i]) /\ GoTo(i, [worker[i] EXCEPT !.at = "admitted"]) /\ memory' = memory
         \/ Ends(i)
  BY DEF SaveAdmission, SaveFails, history
<1>2. /\ w \in Window /\ worker[i].attempt = next /\ \A j \in Instance \ {i} : worker[j].at = "idle"
  BY <1>1, InFlightFacts DEF InFlight, Flying
<1>3. CASE Ends(i)
  <2>1. \A j \in Instance : worker'[j].at = "idle"
    BY <1>2, <1>3, EndsFacts, IdleFacts DEF Base
  <2> QED BY <2>1, NobodyNext DEF Flying
<1>4. CASE SaveOK(i, memory[i]) /\ GoTo(i, [worker[i] EXCEPT !.at = "admitted"]) /\ memory' = memory
  <2>1. /\ worker'[i].at = "admitted" /\ worker'[i].attempt = next /\ worker'[i].window = w
        /\ \A j \in Instance \ {i} : worker'[j].at = "idle"
    <3>1. "admitted" \in Steps
      BY DEF Steps, Flying
    <3> QED BY <1>2, <1>4, <3>1, GoesFacts DEF Base
  <2>2. owner = i /\ file'.rows = memory[i].rows /\ volatile' = {}
    <3>1. memory[i] \in Documents
      BY DEF Base, Types
    <3> QED BY <1>4, <3>1, SaveFacts
  <2>3. OwnerRows = {memory[i].rows} /\ OwnerRows' = OwnerRows /\ file'.rows \in OwnerRows
    BY <1>1, <1>4, <2>2, EverywhereFacts, NextRows, Numbers
  <2>4. Everywhere' \subseteq Everywhere
    BY <1>1, <2>3, NextRows DEF Everywhere
  <2>5. /\ memory[i].rows[w].attempt = next
        /\ \A R \in Everywhere \cup {memory[i].rows} : PendingOnly(R, w, next)
        /\ \A R \in journal, v \in Window : R[v].attempt < next
        /\ fate[next] = "admitted" /\ Far(w, next, fate, age, covered)
    BY <1>1, <2>2 DEF InFlight, Current, Sending, Flying
  <2> HIDE DEF w
  <2>6. Current'
    BY <1>1, <2>1, <2>5 DEF Current, Flying
  <2>7. Sending'
    BY <1>1, <1>4, <2>1, <2>2, <2>3, <2>4, <2>5 DEF Sending
  <2>8. Recorded'
    BY <2>1 DEF Recorded
  <2> QED BY <2>6, <2>7, <2>8 DEF InFlight
<1> QED BY <1>1, <1>3, <1>4

\* Sending.
LEMMA SendFlight ==
  ASSUME Base, Locking, InFlight, NEW i \in Instance, Send(i) PROVE InFlight'
<1> DEFINE w == worker[i].window
<1>1. /\ worker[i].at = "admitted" /\ GoTo(i, [worker[i] EXCEPT !.at = "sent"])
      /\ fate' = [fate EXCEPT ![worker[i].attempt] = "sent"]
      /\ memory' = memory /\ owner' = owner /\ file' = file /\ journal' = journal
      /\ next' = next /\ age' = age /\ covered' = covered /\ volatile' = volatile
  BY DEF Send
<1>2. /\ w \in Window /\ worker[i].attempt = next /\ next \in Nat \ {0} /\ next \in Attempt
      /\ \A j \in Instance \ {i} : worker[j].at = "idle"
  BY <1>1, InFlightFacts DEF InFlight, Flying
<1>3. /\ worker'[i].at = "sent" /\ worker'[i].attempt = next /\ worker'[i].window = w
      /\ \A j \in Instance \ {i} : worker'[j].at = "idle"
  <2>1. "sent" \in Steps
    BY DEF Steps, Flying
  <2> QED BY <1>1, <1>2, <2>1, GoesFacts DEF Base
<1>4. fate'[next] = "sent" /\ \A a \in Attempt \ {next} : fate'[a] = fate[a]
  BY <1>1, <1>2 DEF Base, Types
<1>5. OwnerRows' = OwnerRows /\ Everywhere' = Everywhere
  BY <1>1 DEF OwnerRows, Everywhere
<1>6. /\ memory[i].rows[w].attempt = next
      /\ \A R \in Everywhere \cup {memory[i].rows} : PendingOnly(R, w, next)
      /\ volatile = {} /\ \A R \in {file.rows} \cup OwnerRows : R[w].attempt = next
      /\ \A R \in journal, v \in Window : R[v].attempt < next
      /\ Far(w, next, fate, age, covered)
  BY <1>1 DEF InFlight, Current, Sending, Flying
<1> HIDE DEF w
<1>7. Far(w, next, fate', age', covered')
  <2>1. \A a \in 1..(next - 1) : a \in Attempt \ {next}
    BY <1>2, Numbers DEF Attempt
  <2> QED BY <1>1, <1>4, <1>6, <2>1 DEF Far, Unknown, Running
<1>8. Current'
  BY <1>1, <1>3, <1>4, <1>6, <1>7 DEF Current, Flying
<1>9. Sending'
  BY <1>1, <1>3, <1>5, <1>6 DEF Sending
<1>10. Recorded'
  BY <1>3 DEF Recorded
<1> QED BY <1>8, <1>9, <1>10 DEF InFlight

\* Recording an outcome: from here on it is told as the worker's memory has it.
LEMMA RecordFlight ==
  ASSUME Base, Locking, InFlight, NEW i \in Instance,
         NEW state \in State \ {"pending", "confirmed"}, NEW final \in BOOLEAN, Record(i, state, final)
  PROVE  InFlight'
<1> DEFINE w == worker[i].window
           m == memory[i].rows
           n == memory'[i].rows
<1>1. /\ worker[i].at \in {"admitted", "sent"} /\ worker'[i].at = "recorded"
      /\ worker'[i].attempt = worker[i].attempt /\ worker'[i].window = w
      /\ \A j \in Instance \ {i} : memory'[j] = memory[j] /\ worker'[j] = worker[j]
      /\ \A b \in Attempt \ {worker[i].attempt} : covered'[b] = covered[b]
  BY RecordEffect DEF Base
<1>2. /\ owner' = owner /\ journal' = journal /\ next' = next /\ age' = age
  BY DEF Record
<1>3. /\ w \in Window /\ worker[i].attempt = next /\ next \in Nat \ {0} /\ next \in Attempt
      /\ \A j \in Instance \ {i} : worker[j].at = "idle"
  BY <1>1, InFlightFacts DEF InFlight, Flying
<1>4. /\ volatile = {} /\ \A R \in Everywhere \cup {m} : PendingOnly(R, w, next)
      /\ \A R \in journal, v \in Window : R[v].attempt < next
      /\ Far(w, next, fate, age, covered)
  BY <1>1 DEF InFlight, Current, Sending, Flying
<1>5. /\ \A v \in Window \ {w} : RecordedRow(m[v], n[v], v, next, v \in covered'[next], state)
      /\ n[w].attempt = next /\ n[w].state = state
      /\ state = "uncertain" => Holding(n[w], next)
      /\ state = "completed" => \A v \in covered'[next] : n[v].attempt = next /\ Covering(n[v], v)
      /\ state = "completed" => w \in covered'[next]
      /\ state # "completed" => \A v \in Window \ {w} : n[v] = m[v]
  BY RecordRows DEF InFlight
<1>6. /\ file'.rows \in {file.rows, n} /\ volatile' \subseteq {next}
      /\ \A b \in Attempt \ {next} : fate'[b] = fate[b]
      /\ owner = NoInstance \/ owner \in Instance
  <2>1. memory'[i] \in Documents
    BY RecordEffect DEF Base
  <2>2. SaveOK(i, memory'[i]) => file'.rows = n /\ volatile' = {}
    BY <2>1, SaveFacts
  <2>3. Becomes(next, state) => \A b \in Attempt \ {next} : fate'[b] = fate[b]
    BY <1>3, BecomesFacts DEF Base, Types
  <2>4. \/ SaveOK(i, memory'[i]) /\ Becomes(next, state)
        \/ /\ owner = i /\ Becomes(next, state)
           /\ file' = file /\ volatile' = volatile \cup {next}
        \/ owner # i /\ UNCHANGED <<fate, file, volatile>>
    BY <1>3, RecordEffect DEF Base
  <2> QED BY <1>4, <2>2, <2>3, <2>4, OwnerFacts
<1>7. \A R \in Everywhere' : R = n \/ R \in Everywhere
  <2>1. \A R \in OwnerRows' : R = n \/ R \in OwnerRows
    BY <1>1, <1>2, <1>6, NextRows, EverywhereFacts
  <2> QED BY <1>2, <1>6, <2>1, NextRows DEF Everywhere
<1> HIDE DEF w, m, n
<1>8. Current'
  <2>1. \A a \in 1..(next - 1) : a \in Attempt \ {next}
    BY <1>3, Numbers DEF Attempt
  <2>2. Far(w, next, fate', age', covered')
    BY <1>1, <1>2, <1>3, <1>4, <1>6, <2>1 DEF Far, Unknown, Running
  <2> QED BY <1>1, <1>2, <1>3, <1>4, <2>2 DEF Current, Flying
<1>9. Sending'
  BY <1>1, <1>3 DEF Sending
<1>10. Told(Everywhere', n, w, next, covered')
  <2>1. \A R \in Everywhere, v \in Window : R[v].attempt = next => v = w /\ PendingRow(R[v], next)
    BY <1>4 DEF PendingOnly
  <2>2. state # "pending" /\ (state \in Done => state = "completed") /\ "completed" \in Done
    BY DEF Done
  <2>3. ASSUME state = "completed", NEW R \in Everywhere' \cup {n}, NEW v \in Window, R[v].attempt = next
        PROVE  Covering(R[v], v) \/ (v = w /\ PendingRow(R[v], next))
    <3>1. CASE R \in Everywhere
      BY <2>1, <2>3, <3>1
    <3>2. CASE R = n /\ v = w
      BY <1>5, <2>3, <3>2
    <3>3. CASE R = n /\ v # w
      <4>1. RecordedRow(m[v], n[v], v, next, v \in covered'[next], state)
        BY <1>5, <3>3
      <4>2. m[v].attempt # next
        BY <1>4, <3>3 DEF PendingOnly
      <4> QED BY <2>3, <3>3, <4>1, <4>2 DEF RecordedRow
    <3> QED BY <1>7, <3>1, <3>2, <3>3
  <2>4. ASSUME state # "completed", NEW v \in Window, n[v].attempt = next PROVE v = w
    BY <1>4, <1>5, <2>4 DEF PendingOnly
  <2>5. ASSUME state = "uncertain", NEW R \in Everywhere' \cup {n}, R[w].attempt = next
        PROVE  Holding(R[w], next)
    <3>1. CASE R = n
      BY <1>5, <2>5, <3>1
    <3>2. CASE R \in Everywhere
      BY <1>3, <2>1, <2>5, <3>2, Numbers DEF PendingRow, Holding, w
    <3> QED BY <1>7, <3>1, <3>2
  <2> QED BY <1>5, <2>2, <2>3, <2>4, <2>5 DEF Told
<1>11. Recorded'
  BY <1>1, <1>2, <1>3, <1>6, <1>10 DEF Recorded, n
<1> QED BY <1>8, <1>9, <1>11 DEF InFlight

\* Every step keeps what is known of the attempt in flight.
LEMMA InFlightStep ==
  ASSUME Base, Locking, Ledgers, Remembered, InFlight, [Next]_vars PROVE InFlight'
<1>1. ASSUME NEW i \in Instance, Acquire(i) PROVE InFlight'
  <2>1. \A j \in Instance : worker'[j].at \in {"idle", "merged", "ready"}
    BY <1>1, AcquireEffect DEF Base
  <2> QED BY <2>1, NobodyNext DEF Flying
<1>2. ASSUME NEW i \in Instance, Compact(i) \/ ClearJournal(i) PROVE InFlight'
  <2>1. PICK at \in {"saved", "ready"} : GoTo(i, [Idle EXCEPT !.at = at])
    BY <1>2 DEF Compact, ClearJournal
  <2>2. at \in Steps
    BY DEF Steps
  <2>3. worker'[i].at = at /\ \A j \in Instance \ {i} : worker'[j] = worker[j]
    BY <2>1, <2>2, MoveFacts, RestFacts DEF Base
  <2>4. \A j \in Instance \ {i} : worker[j].at = "idle"
    BY <1>2 DEF Locking, Compact, ClearJournal
  <2> QED BY <2>3, <2>4, NobodyNext DEF Flying
<1>3. ASSUME NEW i \in Instance, Abandon(i) \/ Finish(i) PROVE InFlight'
  <2>1. Ends(i) /\ worker[i].at # "idle"
    BY <1>3 DEF Abandon, Finish
  <2>2. \A j \in Instance : worker'[j].at = "idle"
    BY <2>1, EndsFacts, IdleFacts DEF Base, Locking
  <2> QED BY <2>2, NobodyNext DEF Flying
<1>4. CASE Tick
  BY <1>4, TickFacts, NobodyNext
<1>5. CASE UNCHANGED vars
  <2>1. OwnerRows' = OwnerRows /\ Everywhere' = Everywhere
    BY <1>5 DEF OwnerRows, Everywhere, vars
  <2> QED BY <1>5, <2>1 DEF vars, history, InFlight, Current, Sending, Recorded
<1>6. CASE Next
  BY <1>1, <1>2, <1>3, <1>4, <1>6, AdmitFlight, SaveAdmissionFlight, SendFlight, RecordFlight,
     ConfirmFlight, SaveFlight, ClearFlight, ClaimFlight, CrashFlight DEF Next
<1> QED BY <1>5, <1>6
-----------------------------------------------------------------------------
(* The theorems.                                                            *)

\* The initial state.
LEMMA InvInit == Init => Inv
<1> SUFFICES ASSUME Init PROVE Inv
  OBVIOUS
<1>1. \A i \in Instance : worker[i].at \notin Flying
  BY IdleFacts DEF Init, Flying
<1> QED BY <1>1, BaseInit, LockingInit, LedgersInit, RememberedInit, NobodyInFlight DEF Inv

\* The conjunction of all parts is inductive.
LEMMA InvStep == Inv /\ [Next]_vars => Inv'
  BY BaseStep, LockingStep, LedgersStep, RememberedStep, InFlightStep DEF Inv

\* The invariant: who knows what, and what stands in the way of what, whatever crashes.
THEOREM InvHolds == Spec => []Inv
  BY InvInit, InvStep, PTL DEF Spec

\* Memories, file, journal and workers have their types (banStoreDocument, warmupEntry).
THEOREM TypeCorrect == Spec => []TypeOK
<1>1. Inv => TypeOK
  <2> SUFFICES ASSUME Inv PROVE TypeOK
    OBVIOUS
  <2>1. \A i \in Instance : worker[i].attempt \in 0..next /\ worker[i].need \subseteq Window
    <3>1. \A i \in Instance : worker[i] \in Worker /\ worker[i].attempt <= next
      BY DEF Inv, Base, Types, Numbered
    <3>2. next \in Nat /\ MaxAttempt \in Nat
      BY Numbers DEF Inv, Base, Types
    <3> QED BY <3>1, <3>2 DEF Worker
  <2> QED BY <2>1 DEF TypeOK, Inv, Base, Types
<1> QED BY <1>1, InvHolds, PTL

\* In no day more requests may have run than the budget allows: all of them are in the
\* ledger of the file, and no ledger has more of one day (warmup_policy.go:16-17).
THEOREM BudgetHolds == Spec => []BudgetIsKept
<1>1. Inv => BudgetIsKept
  <2> SUFFICES ASSUME Inv PROVE BudgetIsKept
    OBVIOUS
  <2> DEFINE S == {a \in 1..next : fate[a] \in Ran /\ age[a] < Day}
             T == {a \in file.ledger : age[a] < Day}
  <2>1. next \in Nat /\ MaxPerDay \in Nat /\ 1..next \subseteq Attempt
    BY Numbers DEF Inv, Base, Types, Attempt
  <2>2. Kept(file, next, age) /\ \A a \in Attempt : fate[a] \in Ran => a \in file.ledger
    BY DEF Inv, Ledgers
  <2>3. S \subseteq T /\ T \subseteq 1..next
    BY <2>1, <2>2 DEF Kept
  <2>4. Cardinality(T) <= MaxPerDay
    BY <2>2 DEF Kept
  <2> HIDE DEF S, T
  <2>5. Cardinality(S) <= Cardinality(T) /\ Cardinality(S) \in Nat /\ Cardinality(T) \in Nat
    BY <2>1, <2>3, FewerFacts
  <2>6. Cardinality(S) <= MaxPerDay
    BY <2>1, <2>4, <2>5
  <2> QED BY <2>6 DEF BudgetIsKept, Ran, S
<1> QED BY <1>1, InvHolds, PTL

\* File and journal tell of a success that reached the disk until its cycle is over
\* (warmup_instance_lease.go:180-183).
THEOREM OutcomesStay == Spec => []OutcomesSurvive
<1>1. Inv => OutcomesSurvive
  <2> SUFFICES ASSUME Inv, NEW a \in (1..next) \ volatile, fate[a] = "completed",
                      NEW v \in covered[a], age[a] < Length[v]
               PROVE  LET r == Merged({file.rows} \cup journal)[v]
                      IN  r.attempt > a \/ (r.attempt = a /\ r.state # "pending")
    BY DEF OutcomesSurvive
  <2> DEFINE S == {file.rows} \cup journal
             M == Merged(S)
  <2>1. a \in Attempt /\ a \in Nat \ {0} /\ v \in Window
    <3>1. a \in Attempt /\ a \in Nat \ {0}
      BY Numbers DEF Inv, Base, Types, Attempt
    <3> QED BY <3>1 DEF Inv, Base, Types
  <2>2. Running(fate, age, covered, a, v)
    BY DEF Running
  <2>3. DoneGuard(S, Everywhere, a, v)
    BY <2>1, <2>2 DEF Inv, Remembered, OnDisk, Guarding, Guarded
  <2>4. PICK R \in S : R[v].attempt >= a /\ R[v].state \in Done
    BY <2>3 DEF DoneGuard
  <2>5. S \subseteq Rows
    BY RowFacts DEF Inv, Base, Types, Documents
  <2> HIDE DEF S
  <2>6. M \in Rows /\ ~Newer(R[v], M[v])
    BY <2>1, <2>4, <2>5, MergedFacts
  <2> HIDE DEF M
  <2>7. R[v] \in Row /\ M[v] \in Row
    BY <2>1, <2>4, <2>5, <2>6, RowFacts
  <2>8. R[v].attempt \in Nat /\ M[v].attempt \in Nat /\ Phase(R[v]) \in 1..2 /\ Phase(M[v]) \in 0..2
    BY <2>4, <2>7, RowFacts DEF Phase, Done
  <2>9. M[v].attempt > a \/ (M[v].attempt = a /\ Phase(M[v]) >= 1)
    BY <2>1, <2>4, <2>6, <2>8 DEF Newer
  <2>10. M[v].attempt > a \/ (M[v].attempt = a /\ M[v].state # "pending")
    BY <2>9 DEF Phase
  <2> QED BY <2>10 DEF M, S
<1> QED BY <1>1, InvHolds, PTL

\* What is sent is far from every earlier request that may have run, and nothing later was
\* admitted (warmup.go:284, :1029-1031).
LEMMA SendFar ==
  ASSUME Inv, NEW i \in Instance, Send(i)
  PROVE  LET w == worker[i]
         IN  \A a \in Attempt \ {w.attempt} :
              /\ fate[a] = "sent" => age[a] >= Uncertain
              /\ fate[a] = "completed" /\ w.window \in covered[a] => age[a] >= Length[w.window]
<1> DEFINE w == worker[i].window
<1>1. worker[i].at = "admitted"
  BY DEF Send
<1>2. /\ w \in Window /\ worker[i].attempt = next /\ next \in Nat \ {0}
  BY <1>1, InFlightFacts DEF Inv, InFlight, Flying
<1>3. Far(w, next, fate, age, covered)
  BY <1>1 DEF Inv, InFlight, Current, Flying
<1>4. \A a \in Attempt : a > next => fate[a] = "none"
  BY DEF Inv, Base, Numbered
<1> SUFFICES ASSUME NEW a \in Attempt \ {next}
             PROVE  /\ fate[a] = "sent" => age[a] >= Uncertain
                    /\ fate[a] = "completed" /\ w \in covered[a] => age[a] >= Length[w]
  BY <1>2
<1> HIDE DEF w
<1>5. age[a] \in Nat /\ Uncertain \in Nat /\ Length[w] \in Nat
  BY <1>2, Numbers DEF Inv, Base, Types
<1>6. CASE a > next
  BY <1>4, <1>6
<1>7. CASE a \in 1..(next - 1)
  BY <1>2, <1>3, <1>5, <1>7 DEF Far, Unknown, Running
<1>8. a > next \/ a \in 1..(next - 1)
  BY <1>2, Numbers DEF Attempt
<1> QED BY <1>6, <1>7, <1>8

\* No request is repeated while an earlier one may have run: whichever instance sent it,
\* whatever crashed, and whoever owns the generation (warmup.go:284, :1029-1031).
THEOREM RepeatsStayApart == Spec => RepeatsKeepDistance
<1> DEFINE Apart(i) ==
      Send(i) => LET w == worker[i] IN
          \A a \in Attempt \ {w.attempt} :
              /\ fate[a] = "sent" => age[a] >= Uncertain
              /\ fate[a] = "completed" /\ w.window \in covered[a] => age[a] >= Length[w.window]
<1>1. ASSUME Inv, NEW i \in Instance PROVE Apart(i)
  BY <1>1, SendFar
<1>2. Inv /\ [Next]_vars => [\A i \in Instance : Apart(i)]_vars
  BY <1>1
<1> QED BY <1>2, InvHolds, PTL DEF Spec, RepeatsKeepDistance
=============================================================================
