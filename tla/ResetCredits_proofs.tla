------------------------- MODULE ResetCredits_proofs -------------------------
(***************************************************************************)
(* Proofs about ResetCredits for any instances, accounts, cards, attempts  *)
(* and bans: types, that what was verified is over, that newer bans stay,  *)
(* and that the writes are those RedemptionWrites allows.                  *)
(*                                                                         *)
(* The invariant has two halves.  Books relates the journal to what was    *)
(* sent: no two attempts were ever for one card, and at most one of an     *)
(* account is not verified, dropped entries included.  Batches says what a *)
(* worker may still rely on of what it has read, whatever the others did.  *)
(***************************************************************************)
EXTENDS ResetCredits, TLAPS, FiniteSetTheorems, WellFoundedInduction

\* Every attempt that was journalled or sent, and what for.
Attempted == DOMAIN journal \cup DOMAIN written
CardOf(a) == IF a \in DOMAIN journal THEN journal[a].card ELSE written[a].card
AccountOf(a) == IF a \in DOMAIN journal THEN journal[a].account ELSE written[a].account

Writes == [card : Card, account : Account]

\* The entry of a says what happened to it, or less.
Faithful(a) ==
    /\ journal[a].phase = "verified" => a \in verified
    /\ journal[a].phase = "confirmed" => a \in handled
    /\ journal[a].phase \in {"confirmed", "unknown"} => a \in DOMAIN written
    /\ a \in DOMAIN written => /\ journal[a].card = written[a].card
                               /\ journal[a].account = written[a].account
    /\ cards[journal[a].card] # "future"

Books ==
    /\ \A a \in DOMAIN written : written[a] \in Writes
    /\ \A a \in DOMAIN journal : Faithful(a)
    /\ DOMAIN written \subseteq DOMAIN journal \cup verified
    /\ \A a, b \in Attempted : a # b => CardOf(a) # CardOf(b)
    /\ \A a, b \in Attempted \ verified : a # b => AccountOf(a) # AccountOf(b)

Before == {"listed", "clear", "reserve"}
Holding == {"reserved", "posted", "recorded", "gone"}

\* The list worker w read shows no card of an attempt that left the journal; what it
\* lacked of an attempt older than it is gone.
Reading(w) ==
    /\ w.mark <= next
    /\ \A c \in w.seen : cards[c] # "future"
    /\ w.at = "listed" => \A a \in DOMAIN journal :
            a <= w.mark => journal[a].card \in w.seen \/ cards[journal[a].card] = "gone"
    /\ \A a \in w.old : a \in verified /\ written[a].card \notin w.seen
    /\ w.at \in Before =>
            \A a \in DOMAIN written \ DOMAIN journal : written[a].card \notin w.seen
    /\ w.at # "idle" => w.auth \in Auth
    /\ w.at \notin {"idle", "listed"} => w.seen # {}
    /\ w.at \notin {"idle", "listed", "clear"} => w.card \in w.seen

\* The attempt worker w is at is its own until the outcome is journalled.
Attempting(w) ==
    /\ w.at \in {"reserved", "posted"} =>
            /\ w.attempt \in DOMAIN journal
            /\ journal[w.attempt].phase = "pending"
            /\ journal[w.attempt].card = w.card
            /\ journal[w.attempt].account = KeyOf[w.auth]
    /\ w.at = "reserved" => w.attempt \notin DOMAIN written
    /\ w.at \in {"posted", "recorded", "gone"} =>
            /\ w.attempt \in DOMAIN written
            /\ written[w.attempt].card = w.card
            /\ written[w.attempt].account = KeyOf[w.auth]
    /\ w.at \in {"recorded", "gone"} => w.attempt \in handled
    /\ w.at = "gone" => cards[w.card] = "gone"

\* The ban worker w saw is no newer than its write.
BanSeen(w) ==
    /\ w.at \in {"reserve", "reserved"} => w.ban <= bans
    /\ w.at \in {"posted", "recorded", "gone", "recover", "lift"} => w.ban <= w.bans

Batch(i) == Reading(worker[i]) /\ Attempting(worker[i]) /\ BanSeen(worker[i])

Apart(i, j) == worker[i].at \in Holding /\ worker[j].at \in Holding /\ i # j
                  => worker[i].attempt # worker[j].attempt

Batches == (\A i \in Instance : Batch(i)) /\ \A i, j \in Instance : Apart(i, j)

Inv == TypeOK /\ VerifiedWritesAreOver /\ Books /\ Batches
-----------------------------------------------------------------------------
(* Cards and entries.                                                       *)

SmallerThan == {p \in Nat \X Nat : p[1] < p[2]}

\* Numbers have no infinite descent.
LEMMA SmallerIsWellFounded == IsWellFoundedOn(SmallerThan, Nat)
<1>1. OpToRel(<, Nat) = SmallerThan
  BY Zenon DEF OpToRel, SmallerThan
<1> QED BY <1>1, NatLessThanWellFounded

\* A set of cards with a member has an earliest one.
LEMMA EarliestExists ==
  ASSUME NEW C, C \subseteq Card, C # {}
  PROVE  Earliest(C) \in C
<1>1. C \subseteq Nat
  BY CreditAssumption DEF Card
<1>2. PICK c \in C : \A d \in C : <<d, c>> \notin SmallerThan
  BY <1>1, SmallerIsWellFounded, WFMin
<1>3. ASSUME NEW d \in C PROVE c <= d
  <2> DEFINE p == <<d, c>>
  <2>1. p \in Nat \X Nat /\ p[1] = d /\ p[2] = c
    BY <1>1
  <2> HIDE DEF p
  <2>2. ~(p[1] < p[2])
    BY <1>2, <2>1 DEF p, SmallerThan
  <2> QED BY <1>1, <2>1, <2>2
<1> QED BY <1>3 DEF Earliest

\* A list that shows a card has between one and all of them.
LEMMA CountIsCard ==
  ASSUME NEW C, C \subseteq Card, C # {}
  PROVE  Cardinality(C) \in Card
<1>1. IsFiniteSet(Card) /\ Cardinality(Card) = MaxCard
  <2>1. MaxCard \in Nat /\ 1 \in Int /\ MaxCard \in Int
    BY CreditAssumption
  <2>2. IsFiniteSet(1..MaxCard) /\ Cardinality(1..MaxCard) = MaxCard
    BY <2>1, FS_Interval
  <2> QED BY <2>2 DEF Card
<1>2. IsFiniteSet(C) /\ Cardinality(C) =< MaxCard
  BY <1>1, FS_Subset
<1>3. Cardinality(C) \in Nat /\ Cardinality(C) # 0
  BY <1>2, FS_CardinalityType, FS_EmptySet
<1> QED BY <1>2, <1>3, CreditAssumption DEF Card

Phases == {"pending", "unknown", "confirmed", "verified"}

\* The entry of a worker's attempt.
LEMMA EntryFacts ==
  ASSUME NEW w \in Workers, NEW phase \in Phases, w.auth \in Auth, w.card \in w.seen
  PROVE  LET e == Entry(w, phase)
         IN  e \in Entries /\ e.card = w.card /\ e.account = KeyOf[w.auth] /\ e.phase = phase
<1>1. w.seen \subseteq Card
  BY DEF Workers
<1>2. KeyOf[w.auth] \in Account /\ Cardinality(w.seen) \in Card /\ w.card \in Card
  BY <1>1, CountIsCard, CreditAssumption
<1> QED BY <1>2 DEF Entry, Entries, Phases

\* A journal with one more or another entry.
LEMMA PutFacts ==
  ASSUME NEW j, NEW a, NEW e
  PROVE  /\ DOMAIN Put(j, a, e) = DOMAIN j \cup {a}
         /\ Put(j, a, e)[a] = e
         /\ \A b \in DOMAIN j : b # a => Put(j, a, e)[b] = j[b]
  BY DEF Put

\* A journal transaction is applied and told, applied and not told, or not applied.
LEMMA CommitCases ==
  ASSUME NEW i, NEW change, NEW ok, NEW not, Commit(i, change, ok, not)
  PROVE  \/ journal' = change /\ GoTo(i, ok)
         \/ journal' = change /\ GoTo(i, not)
         \/ journal' = journal /\ GoTo(i, not)
  BY CreditAssumption DEF Commit

\* One worker goes on, the others stay where they are.
LEMMA GoToFacts ==
  ASSUME worker \in [Instance -> Workers], NEW i \in Instance, NEW w \in Workers, GoTo(i, w)
  PROVE  /\ worker' \in [Instance -> Workers] /\ worker'[i] = w
         /\ \A j \in Instance \ {i} : worker'[j] = worker[j]
  BY DEF GoTo

\* A worker at rest.
LEMMA IdleFacts ==
  /\ Idle \in Workers /\ Idle.at = "idle" /\ Idle.mark = 0 /\ Idle.seen = {} /\ Idle.old = {}
<1>1. MaxCard \in Nat /\ MaxAttempt \in Nat /\ MaxBan \in Nat
  BY CreditAssumption
<1> QED BY <1>1 DEF Idle, Workers
-----------------------------------------------------------------------------
(* What the steps of others leave a worker.                                 *)

\* Cards that were there are there or gone, and what was sent or verified stays so.
Grows ==
    /\ \A c \in Card : /\ cards[c] = "gone" => cards'[c] = "gone"
                       /\ cards[c] # "future" => cards'[c] # "future"
    /\ next <= next' /\ bans <= bans'
    /\ verified \subseteq verified' /\ handled \subseteq handled'
    /\ \A a \in DOMAIN written : a \in DOMAIN written' /\ written'[a] = written[a]
    /\ \A a \in DOMAIN journal' : \/ a \in DOMAIN journal /\ journal'[a].card = journal[a].card
                                  \/ a \in Nat /\ a > next
                                  \/ cards'[journal'[a].card] = "gone"
    /\ DOMAIN written' \ DOMAIN journal' \subseteq (DOMAIN written \ DOMAIN journal) \cup Aged

\* The entry of an attempt that worker i has not sent, or had no answer to, is left alone.
EntryLeft(i) ==
    worker[i].at \in {"reserved", "posted"} =>
        /\ worker[i].attempt \in DOMAIN journal'
        /\ journal'[worker[i].attempt] = journal[worker[i].attempt]
        /\ worker[i].at = "reserved" => worker[i].attempt \notin DOMAIN written'

\* Numbers of the state.
LEMMA Numbers ==
  ASSUME TypeOK
  PROVE  /\ next \in Nat /\ bans \in Nat /\ MaxAttempt \in Nat /\ MaxBan \in Nat /\ MaxCard \in Nat
         /\ \A i \in Instance : /\ worker[i] \in Workers /\ worker[i].mark \in Nat
                                /\ worker[i].ban \in Nat /\ worker[i].bans \in Nat
                                /\ worker[i].attempt \in Nat
         /\ DOMAIN journal \subseteq Nat /\ DOMAIN written \subseteq Nat
<1>1. MaxCard \in Nat /\ MaxAttempt \in Nat /\ MaxBan \in Nat
  BY CreditAssumption
<1>2. next \in Nat /\ bans \in Nat
  BY <1>1 DEF TypeOK
<1>3. ASSUME NEW i \in Instance
      PROVE  /\ worker[i] \in Workers /\ worker[i].mark \in Nat
             /\ worker[i].ban \in Nat /\ worker[i].bans \in Nat /\ worker[i].attempt \in Nat
  BY <1>1 DEF TypeOK, Workers
<1> QED BY <1>1, <1>2, <1>3 DEF TypeOK

\* A worker that stays where it is keeps what it relies on.
LEMMA BatchKept ==
  ASSUME TypeOK, Books, NEW i \in Instance, Batch(i), worker'[i] = worker[i], Grows, EntryLeft(i),
         next' \in Nat, bans' \in Nat
  PROVE  Batch(i)'
<1> DEFINE w == worker[i]
<1>1. /\ w \in Workers /\ w.mark \in Nat /\ w.ban \in Nat /\ w.bans \in Nat
      /\ next \in Nat /\ bans \in Nat /\ w.seen \subseteq Card
      /\ DOMAIN journal \subseteq Nat /\ DOMAIN written \subseteq Nat
      /\ \A a \in DOMAIN journal : journal[a].card \in Card
  BY Numbers DEF TypeOK, Workers, Entries
<1>2. Reading(w) /\ Attempting(w) /\ BanSeen(w)
  BY DEF Batch
<1>3. w.at \in Before => Aged \subseteq w.old
  BY DEF Aged, Before
<1> HIDE DEF w
<1>4. w.mark <= next' /\ \A c \in w.seen : cards'[c] # "future"
  BY <1>1, <1>2 DEF Reading, Grows
<1>5. ASSUME w.at = "listed", NEW a \in DOMAIN journal', a <= w.mark
      PROVE  journal'[a].card \in w.seen \/ cards'[journal'[a].card] = "gone"
  <2>1. CASE a \in DOMAIN journal /\ journal'[a].card = journal[a].card
    BY <1>1, <1>2, <1>5, <2>1 DEF Reading, Grows
  <2>2. CASE a \in Nat /\ a > next
    <3>1. w.mark <= next
      BY <1>2 DEF Reading
    <3> QED BY <1>1, <1>5, <2>2, <3>1
  <2> QED BY <2>1, <2>2 DEF Grows
<1>6. \A a \in w.old : a \in verified' /\ written'[a].card \notin w.seen
  <2>1. verified \subseteq DOMAIN written
    BY DEF TypeOK
  <2> QED BY <1>2, <2>1 DEF Reading, Grows
<1>7. ASSUME w.at \in Before, NEW a \in DOMAIN written' \ DOMAIN journal'
      PROVE  written'[a].card \notin w.seen
  <2>1. CASE a \in DOMAIN written \ DOMAIN journal
    BY <1>2, <1>7, <2>1 DEF Reading, Grows
  <2>2. CASE a \in Aged
    BY <1>3, <1>6, <1>7, <2>2
  <2> QED BY <1>7, <2>1, <2>2 DEF Grows
<1>8. Reading(worker[i])'
  BY <1>2, <1>4, <1>5, <1>6, <1>7 DEF Reading, w
<1>9. Attempting(worker[i])'
  <2>1. w.at = "gone" => cards'[w.card] = "gone"
    <3>1. w.at = "gone" => w.card \in Card
      BY <1>1, <1>2 DEF Reading
    <3> QED BY <1>2, <3>1 DEF Attempting, Grows
  <2>2. w.at \in {"posted", "recorded", "gone"} =>
            /\ w.attempt \in DOMAIN written'
            /\ written'[w.attempt].card = w.card
            /\ written'[w.attempt].account = KeyOf[w.auth]
    BY <1>2 DEF Attempting, Grows
  <2>3. w.at \in {"recorded", "gone"} => w.attempt \in handled'
    BY <1>2 DEF Attempting, Grows
  <2>4. w.at \in {"reserved", "posted"} =>
            /\ w.attempt \in DOMAIN journal'
            /\ journal'[w.attempt].phase = "pending"
            /\ journal'[w.attempt].card = w.card
            /\ journal'[w.attempt].account = KeyOf[w.auth]
    BY <1>2 DEF Attempting, EntryLeft, w
  <2>5. w.at = "reserved" => w.attempt \notin DOMAIN written'
    BY DEF EntryLeft, w
  <2> QED BY <2>1, <2>2, <2>3, <2>4, <2>5 DEF Attempting, w
<1>10. BanSeen(worker[i])'
  <2>1. w.ban <= bans => w.ban <= bans'
    BY <1>1 DEF Grows
  <2> QED BY <1>2, <2>1 DEF BanSeen, w
<1> QED BY <1>8, <1>9, <1>10 DEF Batch

\* A step of worker i keeps the batches if it leaves the others what they rely on.
LEMMA BatchesKept ==
  ASSUME Inv, NEW i \in Instance, \A j \in Instance \ {i} : worker'[j] = worker[j], Grows,
         \A j \in Instance \ {i} : EntryLeft(j), next' \in Nat, bans' \in Nat, Batch(i)',
         worker'[i].at \in Holding =>
             \/ worker[i].at \in Holding /\ worker'[i].attempt = worker[i].attempt
             \/ \A j \in Instance : worker[j].at \in Holding
                                      => worker[j].attempt # worker'[i].attempt
  PROVE  Batches'
<1>1. \A j \in Instance \ {i} : Batch(j)'
  BY BatchKept DEF Inv, Batches
<1>2. ASSUME NEW j \in Instance, NEW k \in Instance PROVE Apart(j, k)'
  BY DEF Inv, Batches, Apart
<1> QED BY <1>1, <1>2 DEF Batches

\* Without a change of the journal or of what was sent nothing is lost, whatever cards
\* and bans do.
LEMMA GrowsQuiet ==
  ASSUME Inv, UNCHANGED <<journal, written, verified>>, handled \subseteq handled',
         \A c \in Card : /\ cards[c] = "gone" => cards'[c] = "gone"
                         /\ cards[c] # "future" => cards'[c] # "future",
         next' \in Nat, next <= next', bans' \in Nat, bans <= bans'
  PROVE  /\ Grows /\ (\A j \in Instance : EntryLeft(j))
         /\ Books' /\ VerifiedWritesAreOver'
<1>1. next \in Nat
  BY Numbers DEF Inv
<1>2. Grows
  BY <1>1 DEF Grows
<1>3. \A j \in Instance : EntryLeft(j)
  BY DEF EntryLeft, Inv, Batches, Batch, Attempting
<1>4. Books'
  <2>1. \A a \in DOMAIN journal : Faithful(a)'
    <3>1. \A a \in DOMAIN journal : journal[a].card \in Card
      BY DEF Inv, TypeOK, Entries
    <3> QED BY <3>1 DEF Inv, Books, Faithful
  <2> QED BY <2>1 DEF Inv, Books, Attempted, CardOf, AccountOf
<1>5. VerifiedWritesAreOver'
  <2>1. \A a \in verified : written[a].card \in Card
    BY DEF Inv, TypeOK, Books, Writes
  <2> QED BY <2>1 DEF Inv, VerifiedWritesAreOver
<1> QED BY <1>1, <1>2, <1>3, <1>4, <1>5

\* A worker at rest relies on nothing.
LEMMA IdleBatch ==
  ASSUME NEW i \in Instance, worker'[i] = Idle, next' \in Nat
  PROVE  Batch(i)' /\ worker'[i].at \notin Holding
  BY IdleFacts DEF Batch, Reading, Attempting, BanSeen, Before, Holding

\* A step of one worker alone, as far as the journal goes.
LEMMA QuietStep ==
  ASSUME Inv, NEW i \in Instance, NEW w \in Workers, GoTo(i, w),
         UNCHANGED <<upstream, journal, owner, bans, history>>, ban' \in [Auth -> 0..bans],
         next' \in 0..MaxAttempt, next <= next', worker'[i] = w => Batch(i)',
         w.at \in Holding => worker[i].at \in Holding /\ w.attempt = worker[i].attempt
  PROVE  Inv'
<1>1. worker' \in [Instance -> Workers] /\ worker'[i] = w
      /\ \A j \in Instance \ {i} : worker'[j] = worker[j]
  BY GoToFacts DEF Inv, TypeOK
<1>2. UNCHANGED <<cards, handled, sent, journal, owner, bans, written, verified>>
      /\ next \in Nat /\ next' \in Nat /\ bans \in Nat /\ MaxAttempt \in Nat
  BY Numbers, CreditAssumption DEF upstream, history, Inv
<1>3. /\ Grows /\ (\A j \in Instance : EntryLeft(j))
      /\ Books' /\ VerifiedWritesAreOver'
  BY <1>2, GrowsQuiet
<1>4. Batches'
  BY <1>1, <1>2, <1>3, BatchesKept
<1>5. TypeOK'
  BY <1>1, <1>2 DEF Inv, TypeOK
<1> QED BY <1>3, <1>4, <1>5 DEF Inv

\* A worker that stops.
LEMMA QuietStop ==
  ASSUME Inv, NEW i \in Instance, GoTo(i, Idle),
         UNCHANGED <<upstream, journal, owner, bans, history>>, ban' \in [Auth -> 0..bans],
         next' \in 0..MaxAttempt, next <= next'
  PROVE  Inv'
<1>1. next' \in Nat
  BY CreditAssumption
<1>2. worker'[i] = Idle => Batch(i)'
  BY <1>1, IdleBatch
<1>3. Idle \in Workers /\ Idle.at \notin Holding
  BY IdleFacts DEF Holding
<1> QED BY <1>2, <1>3, QuietStep

\* A list shows what is available, and lacks what is gone.
LEMMA InvReadList ==
  ASSUME Inv, NEW i \in Instance, NEW a \in Auth, ReadList(i, a)
  PROVE  Inv'
<1> DEFINE seen == Available
           old == Verified(journal)
           w == [Idle EXCEPT !.at = "listed", !.auth = a, !.seen = seen, !.mark = next,
                             !.old = old]
<1>1. GoTo(i, w) /\ UNCHANGED <<upstream, journal, next, owner, ban, bans, history>>
  BY DEF ReadList, banStore
<1>2. MaxAttempt \in Nat /\ next \in 0..MaxAttempt /\ next \in Nat /\ ban \in [Auth -> 0..bans]
      /\ MaxCard \in Nat /\ MaxBan \in Nat
  BY CreditAssumption DEF Inv, TypeOK
<1>3. seen \in SUBSET Card /\ old \in SUBSET Attempt
  <2>1. DOMAIN journal \subseteq 1..next /\ 1..next \subseteq 1..MaxAttempt
    BY <1>2 DEF Inv, TypeOK
  <2> QED BY <2>1 DEF Available, Verified, Attempt
<1>4. /\ old \subseteq verified
      /\ \A c \in seen : cards[c] = "available"
      /\ \A b \in DOMAIN journal : journal[b].card \in seen \/ cards[journal[b].card] = "gone"
      /\ \A b \in old : written[b].card \notin seen
      /\ \A b \in DOMAIN written \ DOMAIN journal : written[b].card \notin seen
  <2>1. old \subseteq verified
    BY DEF Verified, Inv, Books, Faithful
  <2>2. \A b \in verified : cards[written[b].card] = "gone"
    BY DEF Inv, VerifiedWritesAreOver
  <2>3. \A c \in seen : cards[c] = "available"
    BY DEF Available
  <2>4. ASSUME NEW b \in DOMAIN journal
        PROVE  journal[b].card \in seen \/ cards[journal[b].card] = "gone"
    <3>1. journal[b].card \in Card /\ cards[journal[b].card] # "future"
      BY DEF Inv, TypeOK, Books, Faithful, Entries
    <3>2. cards[journal[b].card] \in {"future", "available", "gone"}
      BY <3>1 DEF Inv, TypeOK
    <3> QED BY <3>1, <3>2 DEF Available
  <2>5. \A b \in DOMAIN written \ DOMAIN journal : b \in verified
    BY DEF Inv, Books
  <2> QED BY <2>1, <2>2, <2>3, <2>4, <2>5
<1> HIDE DEF seen, old
<1>5. w \in Workers /\ w.at = "listed" /\ w.auth = a /\ w.seen = seen /\ w.mark = next
      /\ w.old = old
  BY <1>2, <1>3, IdleFacts DEF Workers
<1> HIDE DEF w
<1>6. ASSUME worker'[i] = w PROVE Batch(i)'
  <2>1. UNCHANGED <<cards, journal, next, written, verified>>
    BY <1>1 DEF upstream, history
  <2>2. Reading(worker[i])'
    BY <1>2, <1>4, <1>5, <1>6, <2>1 DEF Reading, Before
  <2> QED BY <1>5, <1>6, <2>2 DEF Batch, Attempting, BanSeen
<1> QED BY <1>1, <1>2, <1>5, <1>6, QuietStep DEF Holding

\* The earliest card of the list is chosen, and the ban of the credential noted.
LEMMA InvPrepare ==
  ASSUME Inv, NEW i \in Instance, Prepare(i)
  PROVE  Inv'
<1> DEFINE o == worker[i]
           card == Earliest(o.seen)
           saw == ban[o.auth]
           w == [o EXCEPT !.at = "reserve", !.card = card, !.ban = saw]
<1>1. /\ o.at = "clear" /\ (GoTo(i, w) \/ GoTo(i, Idle))
      /\ UNCHANGED <<upstream, journal, next, owner, ban, bans, history>>
  BY DEF Prepare, banStore
<1>2. /\ MaxAttempt \in Nat /\ next \in 0..MaxAttempt /\ next \in Nat /\ ban \in [Auth -> 0..bans]
      /\ bans \in Nat /\ bans \in 0..MaxBan /\ MaxBan \in Nat
  BY CreditAssumption DEF Inv, TypeOK
<1>3. CASE GoTo(i, Idle)
  BY <1>1, <1>2, <1>3, QuietStop
<1>4. CASE o.at = "clear" /\ GoTo(i, w)
  <2>1. o \in Workers /\ o.seen \subseteq Card /\ o.seen # {} /\ o.auth \in Auth
        /\ Reading(o) /\ Attempting(o) /\ BanSeen(o)
    BY <1>4 DEF Inv, TypeOK, Batches, Batch, Reading, Workers
  <2>2. card \in o.seen /\ card \in Card
    BY <2>1, EarliestExists
  <2>3. saw \in Nat /\ saw <= bans /\ saw \in 0..MaxBan /\ card \in 0..MaxCard
    <3>1. saw \in 0..bans
      BY <1>2, <2>1
    <3> QED BY <1>2, <2>2, <3>1, CreditAssumption DEF Card
  <2> HIDE DEF card, saw, o
  <2>4. w \in Workers /\ w.at = "reserve" /\ w.card = card /\ w.ban = saw /\ w.auth = o.auth
        /\ w.seen = o.seen /\ w.mark = o.mark /\ w.old = o.old
    BY <2>1, <2>3 DEF Workers
  <2> HIDE DEF w
  <2>5. ASSUME worker'[i] = w PROVE Batch(i)'
    <3>1. UNCHANGED <<cards, journal, next, written, verified, bans>>
      BY <1>1 DEF upstream, history
    <3>2. Reading(worker[i])'
      BY <1>4, <2>1, <2>2, <2>4, <2>5, <3>1 DEF Reading, Before
    <3>3. BanSeen(worker[i])' /\ Attempting(worker[i])'
      BY <2>3, <2>4, <2>5, <3>1 DEF BanSeen, Attempting
    <3> QED BY <3>2, <3>3 DEF Batch
  <2> QED BY <1>1, <1>2, <1>4, <2>4, <2>5, QuietStep DEF Holding
<1> QED BY <1>1, <1>3, <1>4

\* The verifying read sees that the card is gone.
LEMMA InvVerify ==
  ASSUME Inv, NEW i \in Instance, Verify(i)
  PROVE  Inv'
<1> DEFINE o == worker[i]
           w == [o EXCEPT !.at = "gone"]
<1>1. /\ o.at = "recorded" /\ UNCHANGED <<upstream, journal, next, owner, ban, bans, history>>
      /\ (o.card \notin Available /\ GoTo(i, w)) \/ GoTo(i, Idle)
  BY DEF Verify, banStore
<1>2. next \in 0..MaxAttempt /\ next \in Nat /\ ban \in [Auth -> 0..bans]
  BY CreditAssumption DEF Inv, TypeOK
<1>3. CASE GoTo(i, Idle)
  BY <1>1, <1>2, <1>3, QuietStop
<1>4. CASE o.card \notin Available /\ GoTo(i, w)
  <2>1. o \in Workers /\ Reading(o) /\ Attempting(o) /\ BanSeen(o)
    BY DEF Inv, TypeOK, Batches, Batch
  <2>2. cards[o.card] = "gone"
    <3>1. o.card \in Card /\ cards[o.card] # "future"
      BY <1>1, <2>1 DEF Reading, Workers
    <3>2. cards[o.card] \in {"future", "available", "gone"}
      BY <3>1 DEF Inv, TypeOK
    <3> QED BY <1>4, <3>1, <3>2 DEF Available
  <2> HIDE DEF o
  <2>3. w \in Workers /\ w.at = "gone" /\ w.card = o.card /\ w.ban = o.ban /\ w.auth = o.auth
        /\ w.seen = o.seen /\ w.mark = o.mark /\ w.old = o.old /\ w.attempt = o.attempt
        /\ w.bans = o.bans
    BY <2>1 DEF Workers
  <2> HIDE DEF w
  <2>4. ASSUME worker'[i] = w PROVE Batch(i)'
    <3>1. UNCHANGED <<cards, handled, journal, next, written, verified, bans>>
      BY <1>1 DEF upstream, history
    <3>2. Reading(worker[i])'
      BY <1>1, <2>1, <2>3, <2>4, <3>1 DEF Reading, Before
    <3>3. BanSeen(worker[i])' /\ Attempting(worker[i])'
      BY <1>1, <2>1, <2>2, <2>3, <2>4, <3>1 DEF BanSeen, Attempting
    <3> QED BY <3>2, <3>3 DEF Batch
  <2> QED BY <1>1, <1>2, <1>4, <2>3, <2>4, QuietStep DEF Holding, o
<1> QED BY <1>1, <1>3, <1>4

\* Renewed quota is read before the ban is lifted.
LEMMA InvRecover ==
  ASSUME Inv, NEW i \in Instance, Recover(i)
  PROVE  Inv'
<1> DEFINE o == worker[i]
           w == [o EXCEPT !.at = "lift"]
<1>1. /\ o.at = "recover" /\ UNCHANGED <<upstream, journal, next, owner, ban, bans, history>>
      /\ (GoTo(i, w) \/ GoTo(i, Idle))
  BY DEF Recover, banStore
<1>2. next \in 0..MaxAttempt /\ next \in Nat /\ ban \in [Auth -> 0..bans]
  BY CreditAssumption DEF Inv, TypeOK
<1>3. CASE GoTo(i, Idle)
  BY <1>1, <1>2, <1>3, QuietStop
<1>4. CASE GoTo(i, w)
  <2>1. o \in Workers /\ Reading(o) /\ BanSeen(o)
    BY DEF Inv, TypeOK, Batches, Batch
  <2> HIDE DEF o
  <2>2. w \in Workers /\ w.at = "lift" /\ w.card = o.card /\ w.ban = o.ban /\ w.auth = o.auth
        /\ w.seen = o.seen /\ w.mark = o.mark /\ w.old = o.old /\ w.bans = o.bans
    BY <2>1 DEF Workers
  <2> HIDE DEF w
  <2>3. ASSUME worker'[i] = w PROVE Batch(i)'
    <3>1. UNCHANGED <<cards, journal, next, written, verified, bans>>
      BY <1>1 DEF upstream, history
    <3>2. Reading(worker[i])'
      BY <1>1, <2>1, <2>2, <2>3, <3>1 DEF Reading, Before
    <3>3. BanSeen(worker[i])' /\ Attempting(worker[i])'
      BY <1>1, <2>1, <2>2, <2>3, <3>1 DEF BanSeen, Attempting
    <3> QED BY <3>2, <3>3 DEF Batch
  <2> QED BY <1>1, <1>2, <1>4, <2>2, <2>3, QuietStep DEF Holding
<1> QED BY <1>1, <1>3, <1>4

\* A batch ends, and may lift a ban that is no newer than its write.
LEMMA InvLift ==
  ASSUME Inv, NEW i \in Instance, Lift(i) \/ Stop(i)
  PROVE  Inv'
<1>1. /\ UNCHANGED <<upstream, journal, next, owner, bans, history>> /\ GoTo(i, Idle)
      /\ ban' = ban \/ \E a : ban' = [ban EXCEPT ![a] = 0]
  BY DEF Lift, Stop, banStore
<1>2. next \in 0..MaxAttempt /\ next \in Nat /\ ban \in [Auth -> 0..bans] /\ bans \in Nat
  BY CreditAssumption DEF Inv, TypeOK
<1>3. ban' \in [Auth -> 0..bans]
  BY <1>1, <1>2
<1> QED BY <1>1, <1>2, <1>3, QuietStop

\* What happens outside the workers: cards come and go, bans too, and the owner changes.
LEMMA OutsideStep ==
  ASSUME Inv, UNCHANGED <<journal, next, worker, written, verified>>,
         handled \subseteq handled', handled' \subseteq Attempt, sent' \subseteq Attempt,
         cards' \in [Card -> {"future", "available", "gone"}], owner' \in Instance,
         ban' \in [Auth -> 0..bans'], bans' \in 0..MaxBan, bans <= bans',
         \A c \in Card : /\ cards[c] = "gone" => cards'[c] = "gone"
                         /\ cards[c] # "future" => cards'[c] # "future"
  PROVE  Inv'
<1>1. next \in Nat /\ bans' \in Nat
  BY Numbers, CreditAssumption DEF Inv
<1>2. /\ Grows /\ (\A j \in Instance : EntryLeft(j)) /\ Books' /\ VerifiedWritesAreOver'
  BY <1>1, GrowsQuiet
<1>3. \A j \in Instance : Batch(j)'
  BY <1>1, <1>2, BatchKept DEF Inv, Batches
<1>4. Batches'
  BY <1>3 DEF Inv, Batches, Apart
<1>5. TypeOK'
  BY DEF Inv, TypeOK
<1> QED BY <1>2, <1>4, <1>5 DEF Inv

\* A write arrives, however late, and spends some card.
LEMMA InvProcess ==
  ASSUME Inv, NEW a \in Attempt, Process(a)
  PROVE  Inv'
<1>1. /\ sent' = sent \ {a} /\ handled' = handled \cup {a}
      /\ UNCHANGED <<journal, next, owner, worker, ban, bans, written, verified>>
      /\ cards' = cards \/ \E c \in Available : cards' = [cards EXCEPT ![c] = "gone"]
  BY DEF Process, banStore, history
<1>2. cards \in [Card -> {"future", "available", "gone"}] /\ handled \subseteq Attempt
      /\ sent \subseteq Attempt /\ owner \in Instance /\ ban \in [Auth -> 0..bans]
      /\ bans \in 0..MaxBan /\ bans \in Nat
  BY CreditAssumption DEF Inv, TypeOK
<1>3. /\ cards' \in [Card -> {"future", "available", "gone"}]
      /\ \A c \in Card : /\ cards[c] = "gone" => cards'[c] = "gone"
                         /\ cards[c] # "future" => cards'[c] # "future"
  BY <1>1, <1>2
<1> QED BY <1>1, <1>2, <1>3, OutsideStep

\* Cards are granted, expire, or are used by the user; bans come and go; another
\* generation takes over.
LEMMA InvOutside ==
  ASSUME Inv,
         \/ \E c \in Card : Grant(c) \/ Vanish(c)
         \/ \E a \in Bannable : Ban(a) \/ Unban(a)
         \/ \E i \in Instance : TakeOver(i)
  PROVE  Inv'
<1>1. cards \in [Card -> {"future", "available", "gone"}] /\ handled \subseteq Attempt
      /\ sent \subseteq Attempt /\ owner \in Instance /\ ban \in [Auth -> 0..bans]
      /\ bans \in 0..MaxBan /\ bans \in Nat /\ MaxBan \in Nat /\ Bannable \subseteq Auth
  BY CreditAssumption DEF Inv, TypeOK
<1>2. ASSUME NEW c \in Card, Grant(c) \/ Vanish(c) PROVE Inv'
  <2>1. UNCHANGED <<handled, sent, journal, next, owner, worker, ban, bans, written, verified>>
        /\ \/ cards[c] = "future" /\ cards' = [cards EXCEPT ![c] = "available"]
           \/ cards[c] = "available" /\ cards' = [cards EXCEPT ![c] = "gone"]
    BY <1>2 DEF Grant, Vanish, banStore, history
  <2>2. /\ cards' \in [Card -> {"future", "available", "gone"}]
        /\ \A d \in Card : /\ cards[d] = "gone" => cards'[d] = "gone"
                           /\ cards[d] # "future" => cards'[d] # "future"
    BY <1>1, <2>1
  <2> QED BY <1>1, <2>1, <2>2, OutsideStep
<1>3. ASSUME NEW a \in Bannable, Ban(a) \/ Unban(a) PROVE Inv'
  <2>1. UNCHANGED <<cards, handled, sent, journal, next, owner, worker, written, verified>>
        /\ \/ bans < MaxBan /\ bans' = bans + 1 /\ ban' = [ban EXCEPT ![a] = bans + 1]
           \/ bans' = bans /\ ban' = [ban EXCEPT ![a] = 0]
    BY <1>3 DEF Ban, Unban, upstream, history
  <2>2. ban' \in [Auth -> 0..bans'] /\ bans' \in 0..MaxBan /\ bans <= bans'
    BY <1>1, <2>1
  <2> QED BY <1>1, <2>1, <2>2, OutsideStep
<1>4. ASSUME NEW i \in Instance, TakeOver(i) PROVE Inv'
  <2>1. UNCHANGED <<cards, handled, sent, journal, next, worker, ban, bans, written, verified>>
        /\ owner' \in Instance
    BY <1>4 DEF TakeOver, upstream, history, banStore
  <2> QED BY <1>1, <2>1, OutsideStep
<1> QED BY <1>2, <1>3, <1>4
-----------------------------------------------------------------------------
(* Steps of the journal.                                                    *)

\* What a step of worker i owes besides the workers.
Kept(i) ==
    /\ Grows /\ Books' /\ VerifiedWritesAreOver'
    /\ \A j \in Instance \ {i} : EntryLeft(j)
    /\ next' \in 0..MaxAttempt
    /\ DOMAIN journal' \subseteq 1..next' /\ DOMAIN written' \subseteq 1..next'
    /\ \A a \in DOMAIN journal' : journal'[a] \in Entries
    /\ verified' \subseteq DOMAIN written'

\* Such a step keeps the invariant wherever the worker goes, if what it relies on there holds.
LEMMA MoveOn ==
  ASSUME Inv, NEW i \in Instance, NEW w \in Workers, GoTo(i, w), Kept(i),
         UNCHANGED <<cards, handled, owner, banStore>>, sent' \subseteq Attempt,
         worker'[i] = w => Batch(i)',
         w.at \in Holding =>
             \/ worker[i].at \in Holding /\ w.attempt = worker[i].attempt
             \/ \A j \in Instance : worker[j].at \in Holding => worker[j].attempt # w.attempt
  PROVE  Inv'
<1>1. worker' \in [Instance -> Workers] /\ worker'[i] = w
      /\ \A j \in Instance \ {i} : worker'[j] = worker[j]
  BY GoToFacts DEF Inv, TypeOK
<1>2. next' \in Nat /\ bans' \in Nat
  BY Numbers, CreditAssumption DEF Kept, Inv, banStore
<1>3. Batches'
  BY <1>1, <1>2, BatchesKept DEF Kept
<1>4. TypeOK'
  BY <1>1 DEF Kept, Inv, TypeOK, banStore
<1> QED BY <1>3, <1>4 DEF Kept, Inv

\* Or it stops.
LEMMA MoveOff ==
  ASSUME Inv, NEW i \in Instance, GoTo(i, Idle), Kept(i),
         UNCHANGED <<cards, handled, owner, banStore>>, sent' \subseteq Attempt
  PROVE  Inv'
<1>1. next' \in Nat
  BY CreditAssumption DEF Kept
<1>2. worker'[i] = Idle => Batch(i)'
  BY <1>1, IdleBatch
<1>3. Idle \in Workers /\ Idle.at \notin Holding
  BY IdleFacts DEF Holding
<1> QED BY <1>2, <1>3, MoveOn

\* Attempts that stay for what they are stay apart.
LEMMA SameAttempts ==
  ASSUME Books, Attempted' \subseteq Attempted, verified \subseteq verified',
         \A a \in Attempted' : CardOf(a)' = CardOf(a) /\ AccountOf(a)' = AccountOf(a)
  PROVE  /\ \A a, b \in Attempted' : a # b => CardOf(a)' # CardOf(b)'
         /\ \A a, b \in Attempted' \ verified' : a # b => AccountOf(a)' # AccountOf(b)'
  BY DEF Books

\* A step that leaves the journal and what was sent alone.
LEMMA KeptQuiet ==
  ASSUME Inv, NEW i \in Instance, UNCHANGED <<cards, handled, journal, written, verified, bans>>,
         next' \in 0..MaxAttempt, next <= next'
  PROVE  Kept(i)
<1>1. next \in Nat /\ next' \in Nat /\ bans' \in Nat /\ bans <= bans'
  BY Numbers, CreditAssumption DEF Inv
<1>2. /\ Grows /\ (\A j \in Instance : EntryLeft(j)) /\ Books' /\ VerifiedWritesAreOver'
  BY <1>1, GrowsQuiet
<1>3. 1..next \subseteq 1..next'
  BY <1>1
<1> QED BY <1>2, <1>3 DEF Kept, Inv, TypeOK

\* The outcome of worker i's attempt is journalled as what is known of it.
LEMMA KeptPut ==
  ASSUME Inv, NEW i \in Instance, worker[i].at \in {"posted", "recorded", "gone"},
         NEW phase \in {"confirmed", "unknown", "verified"},
         journal' = Put(journal, worker[i].attempt, Entry(worker[i], phase)),
         UNCHANGED <<cards, handled, next, bans, written>>,
         phase = "confirmed" => worker[i].attempt \in handled,
         phase = "verified" => worker[i].at = "gone",
         verified' = IF phase = "verified" THEN verified \cup {worker[i].attempt} ELSE verified,
         phase # "verified" => worker[i].attempt \in DOMAIN journal
  PROVE  Kept(i)
<1> DEFINE w == worker[i]
           n == w.attempt
           e == Entry(w, phase)
<1>1. w \in Workers /\ Reading(w) /\ Attempting(w) /\ w.seen \subseteq Card
  BY DEF Inv, TypeOK, Batches, Batch, Workers
<1>2. /\ w.auth \in Auth /\ w.card \in w.seen /\ cards[w.card] # "future"
      /\ n \in DOMAIN written /\ written[n].card = w.card /\ written[n].account = KeyOf[w.auth]
      /\ (w.at = "gone" => n \in handled /\ cards[w.card] = "gone")
  BY <1>1 DEF Reading, Attempting
<1>3. e \in Entries /\ e.card = w.card /\ e.account = KeyOf[w.auth] /\ e.phase = phase
  BY <1>1, <1>2, EntryFacts DEF Phases
<1>4. /\ DOMAIN journal' = DOMAIN journal \cup {n} /\ journal'[n] = e
      /\ \A a \in DOMAIN journal : a # n => journal'[a] = journal[a]
  <2>1. journal' = Put(journal, n, e)
    OBVIOUS
  <2> HIDE DEF n, e
  <2>2. journal' = [b \in DOMAIN journal \cup {n} |-> IF b = n THEN e ELSE journal[b]]
    BY <2>1 DEF Put
  <2> QED BY <2>2
<1>5. ASSUME NEW j \in Instance \ {i} PROVE EntryLeft(j)
  <2>1. worker[j].at \in {"reserved", "posted"} => worker[j].attempt # n
    BY DEF Inv, Batches, Apart, Holding
  <2>2. Attempting(worker[j])
    BY DEF Inv, Batches, Batch
  <2> QED BY <1>4, <2>1, <2>2 DEF EntryLeft, Attempting
<1>6. n \in Nat /\ next \in Nat /\ bans \in Nat /\ n \in 1..next
  BY <1>2, Numbers DEF Inv, TypeOK
<1> HIDE DEF e, n
<1>7. n \in DOMAIN journal => journal[n].card = w.card /\ journal[n].account = KeyOf[w.auth]
  BY <1>2 DEF Inv, Books, Faithful
<1>8. n \notin DOMAIN journal => phase = "verified" /\ w.at = "gone"
  BY DEF n
<1> HIDE DEF w
<1>9. Grows
  BY <1>2, <1>3, <1>4, <1>6, <1>7, <1>8 DEF Grows, n, w
<1>10. /\ Attempted' = Attempted
       /\ \A a \in Attempted : CardOf(a)' = CardOf(a) /\ AccountOf(a)' = AccountOf(a)
  BY <1>2, <1>3, <1>4, <1>7 DEF Attempted, CardOf, AccountOf
<1>11. VerifiedWritesAreOver'
  BY <1>2 DEF Inv, VerifiedWritesAreOver, n, w
<1>12. ASSUME NEW a \in DOMAIN journal' PROVE Faithful(a)'
  <2>1. CASE a = n
    BY <1>2, <1>3, <1>4, <2>1 DEF Faithful, n, w
  <2>2. CASE a # n
    BY <1>4, <2>2 DEF Faithful, Inv, Books
  <2> QED BY <2>1, <2>2
<1>13. Books'
  <2>1. /\ \A a, b \in Attempted' : a # b => CardOf(a)' # CardOf(b)'
        /\ \A a, b \in Attempted' \ verified' : a # b => AccountOf(a)' # AccountOf(b)'
    BY <1>10, SameAttempts DEF Inv
  <2>2. DOMAIN written' \subseteq DOMAIN journal' \cup verified'
    BY <1>4 DEF Inv, Books
  <2> QED BY <1>12, <2>1, <2>2 DEF Inv, Books
<1>14. verified' \subseteq DOMAIN written'
  BY <1>2 DEF Inv, TypeOK, n, w
<1> QED BY <1>3, <1>4, <1>5, <1>6, <1>9, <1>11, <1>13, <1>14 DEF Kept, Inv, TypeOK

\* The answer, or that there is none, is journalled.
LEMMA InvRecord ==
  ASSUME Inv, NEW i \in Instance, Record(i)
  PROVE  Inv'
<1> DEFINE o == worker[i]
           w == [o EXCEPT !.at = "recorded"]
           confirmed == Put(journal, o.attempt, Entry(o, "confirmed"))
           unknown == Put(journal, o.attempt, Entry(o, "unknown"))
<1>1. /\ o.at = "posted" /\ UNCHANGED <<upstream, next, owner, banStore, history>>
      /\ \/ o.attempt \in handled /\ Commit(i, confirmed, w, w)
         \/ Commit(i, unknown, Idle, Idle)
  BY DEF Record
<1> HIDE DEF w, confirmed, unknown
<1>2. UNCHANGED <<cards, handled, sent, next, owner, banStore, bans, written, verified>>
      /\ sent' \subseteq Attempt /\ next' \in 0..MaxAttempt /\ next <= next'
  <2>1. next \in Nat
    BY Numbers DEF Inv
  <2> QED BY <1>1, <2>1 DEF upstream, history, banStore, Inv, TypeOK
<1>3. o \in Workers /\ Reading(o) /\ Attempting(o) /\ BanSeen(o)
  BY DEF Inv, TypeOK, Batches, Batch
<1>4. o.attempt \in DOMAIN journal
  BY <1>1, <1>3 DEF Attempting
<1>5. CASE o.attempt \in handled /\ Commit(i, confirmed, w, w)
  <2>1. (journal' = confirmed \/ journal' = journal) /\ GoTo(i, w)
    BY <1>5, CommitCases
  <2>2. Kept(i)
    <3>1. CASE journal' = confirmed
      BY <1>1, <1>2, <1>4, <1>5, <3>1, KeptPut DEF confirmed
    <3>2. CASE journal' = journal
      BY <1>2, <3>2, KeptQuiet
    <3> QED BY <2>1, <3>1, <3>2
  <2> HIDE DEF o
  <2>3. w \in Workers /\ w.at = "recorded" /\ w.card = o.card /\ w.ban = o.ban /\ w.auth = o.auth
        /\ w.seen = o.seen /\ w.mark = o.mark /\ w.old = o.old /\ w.attempt = o.attempt
        /\ w.bans = o.bans
    BY <1>3 DEF Workers, w
  <2>4. ASSUME worker'[i] = w PROVE Batch(i)'
    <3>1. Reading(worker[i])'
      BY <1>1, <1>2, <1>3, <2>3, <2>4 DEF Reading, Before
    <3>2. BanSeen(worker[i])' /\ Attempting(worker[i])'
      BY <1>1, <1>2, <1>3, <1>5, <2>3, <2>4 DEF BanSeen, Attempting
    <3> QED BY <3>1, <3>2 DEF Batch
  <2>5. worker[i].at \in Holding /\ w.attempt = worker[i].attempt
    BY <1>1, <2>3 DEF Holding, o
  <2> QED BY <1>2, <2>1, <2>2, <2>3, <2>4, <2>5, MoveOn
<1>6. CASE Commit(i, unknown, Idle, Idle)
  <2>1. (journal' = unknown \/ journal' = journal) /\ GoTo(i, Idle)
    BY <1>6, CommitCases
  <2>2. Kept(i)
    <3>1. CASE journal' = unknown
      BY <1>1, <1>2, <1>4, <3>1, KeptPut DEF unknown
    <3>2. CASE journal' = journal
      BY <1>2, <3>2, KeptQuiet
    <3> QED BY <2>1, <3>1, <3>2
  <2> QED BY <1>2, <2>1, <2>2, MoveOff
<1> QED BY <1>1, <1>5, <1>6

\* The verified outcome is journalled, and the recovery of the quota is looked at.
LEMMA InvConclude ==
  ASSUME Inv, NEW i \in Instance, Conclude(i)
  PROVE  Inv'
<1> DEFINE o == worker[i]
           n == o.attempt
           w == [o EXCEPT !.at = "recover"]
           e == Entry(o, "verified")
           change == Put(journal, n, e)
<1>1. /\ o.at = "gone" /\ UNCHANGED <<upstream, next, owner, banStore, written>>
      /\ verified' = verified \cup Verified(journal')
      /\ Commit(i, change, w, Idle)
  BY DEF Conclude
<1>2. UNCHANGED <<cards, handled, sent, next, owner, banStore, bans, written>>
      /\ sent' \subseteq Attempt /\ next' \in 0..MaxAttempt /\ next <= next'
  <2>1. next \in Nat
    BY Numbers DEF Inv
  <2> QED BY <1>1, <2>1 DEF upstream, banStore, Inv, TypeOK
<1>3. o \in Workers /\ Reading(o) /\ Attempting(o) /\ BanSeen(o)
  BY DEF Inv, TypeOK, Batches, Batch
<1>4. e.phase = "verified"
  BY DEF Entry
<1>5. Verified(journal) \subseteq verified
  BY DEF Verified, Inv, Books, Faithful
<1>6. \/ journal' = change /\ (GoTo(i, w) \/ GoTo(i, Idle))
      \/ journal' = journal /\ GoTo(i, Idle)
  <2> HIDE DEF change, w
  <2> QED BY <1>1, CommitCases
<1>7. CASE journal' = change /\ (GoTo(i, w) \/ GoTo(i, Idle))
  <2>1. verified' = verified \cup {n}
    <3> HIDE DEF n, e
    <3>1. journal' = [b \in DOMAIN journal \cup {n} |-> IF b = n THEN e ELSE journal[b]]
      BY <1>7 DEF Put
    <3>2. n \in Verified(journal') /\ Verified(journal') \subseteq Verified(journal) \cup {n}
      BY <1>4, <3>1 DEF Verified
    <3> QED BY <1>1, <1>5, <3>2
  <2>2. Kept(i)
    BY <1>1, <1>2, <1>7, <2>1, KeptPut
  <2> HIDE DEF o
  <2>3. w \in Workers /\ w.at = "recover" /\ w.card = o.card /\ w.ban = o.ban /\ w.auth = o.auth
        /\ w.seen = o.seen /\ w.mark = o.mark /\ w.old = o.old /\ w.bans = o.bans
    BY <1>3 DEF Workers
  <2> HIDE DEF w
  <2>4. ASSUME worker'[i] = w PROVE Batch(i)'
    <3>1. verified \subseteq verified'
      BY <2>1
    <3>2. Reading(worker[i])'
      BY <1>1, <1>2, <1>3, <2>3, <2>4, <3>1 DEF Reading, Before
    <3>3. BanSeen(worker[i])' /\ Attempting(worker[i])'
      BY <1>1, <1>2, <1>3, <2>3, <2>4 DEF BanSeen, Attempting
    <3> QED BY <3>2, <3>3 DEF Batch
  <2>5. w.at \notin Holding
    BY <2>3 DEF Holding
  <2> QED BY <1>2, <1>7, <2>2, <2>3, <2>4, <2>5, MoveOn, MoveOff
<1>8. CASE journal' = journal /\ GoTo(i, Idle)
  <2>1. verified' = verified
    BY <1>1, <1>5, <1>8
  <2>2. Kept(i)
    BY <1>2, <1>8, <2>1, KeptQuiet
  <2> QED BY <1>2, <1>8, <2>2, MoveOff
<1> QED BY <1>6, <1>7, <1>8

\* Confirmed attempts are settled by a later list that lacks their card: the card of each
\* is gone, and its write has arrived.
LEMMA SettledAreOver ==
  ASSUME Inv, NEW i \in Instance, worker[i].at = "listed", NEW a \in Settled(worker[i])
  PROVE  /\ a \in DOMAIN journal /\ journal[a].phase = "confirmed" /\ a \in handled
         /\ a \in DOMAIN written
         /\ journal[a].card = written[a].card /\ journal[a].account = written[a].account
         /\ cards[written[a].card] = "gone"
<1>1. /\ a \in DOMAIN journal /\ journal[a].phase = "confirmed" /\ a <= worker[i].mark
      /\ journal[a].card \notin worker[i].seen
  BY DEF Settled
<1>2. Faithful(a) /\ Reading(worker[i])
  BY <1>1 DEF Inv, Books, Batches, Batch
<1> QED BY <1>1, <1>2 DEF Faithful, Reading

\* The entries of settled attempts are marked verified.
LEMMA KeptSettled ==
  ASSUME Inv, NEW i \in Instance, worker[i].at = "listed",
         UNCHANGED <<cards, handled, next, bans, written>>,
         journal' = [a \in DOMAIN journal |->
                        IF a \in Settled(worker[i]) THEN [journal[a] EXCEPT !.phase = "verified"]
                        ELSE journal[a]],
         verified' = verified \cup Settled(worker[i])
  PROVE  Kept(i)
<1> DEFINE S == Settled(worker[i])
<1>1. \A a \in S : /\ a \in DOMAIN journal /\ journal[a].phase = "confirmed" /\ a \in handled
                   /\ a \in DOMAIN written
                   /\ journal[a].card = written[a].card /\ journal[a].account = written[a].account
                   /\ cards[written[a].card] = "gone"
  BY SettledAreOver
<1> HIDE DEF S
<1>2. /\ DOMAIN journal' = DOMAIN journal
      /\ \A a \in DOMAIN journal : a \notin S => journal'[a] = journal[a]
      /\ \A a \in DOMAIN journal : a \in S => journal'[a] = [journal[a] EXCEPT !.phase = "verified"]
  BY DEF S
<1>3. \A a \in S : /\ journal'[a] \in Entries /\ journal'[a].phase = "verified"
                   /\ journal'[a].card = journal[a].card
                   /\ journal'[a].account = journal[a].account
  <2> TAKE a \in S
  <2>1. journal[a] \in Entries /\ journal'[a] = [journal[a] EXCEPT !.phase = "verified"]
    BY <1>1, <1>2 DEF Inv, TypeOK
  <2> DEFINE e == journal[a]
  <2> HIDE DEF e
  <2>2. e \in Entries /\ journal'[a] = [e EXCEPT !.phase = "verified"]
    BY <2>1 DEF e
  <2>3. /\ journal'[a] \in Entries /\ journal'[a].phase = "verified"
        /\ journal'[a].card = e.card /\ journal'[a].account = e.account
    BY <2>2 DEF Entries
  <2> QED BY <2>3 DEF e
<1>4. /\ \A a \in DOMAIN journal : journal'[a].card = journal[a].card
      /\ \A a \in DOMAIN journal : journal'[a].account = journal[a].account
      /\ verified' = verified \cup S
  BY <1>2, <1>3 DEF S
<1>5. next \in Nat /\ bans \in Nat
  BY Numbers DEF Inv
<1>6. Grows
  BY <1>2, <1>4, <1>5 DEF Grows
<1>7. ASSUME NEW j \in Instance PROVE EntryLeft(j)
  <2>1. Attempting(worker[j])
    BY DEF Inv, Batches, Batch
  <2>2. \A a \in DOMAIN journal : journal[a].phase = "pending" => journal'[a] = journal[a]
    BY <1>1, <1>2
  <2> QED BY <1>2, <2>1, <2>2 DEF EntryLeft, Attempting
<1>8. VerifiedWritesAreOver'
  BY <1>1, <1>4 DEF Inv, VerifiedWritesAreOver
<1>9. ASSUME NEW a \in DOMAIN journal' PROVE Faithful(a)'
  <2>1. Faithful(a)
    BY <1>2 DEF Inv, Books
  <2>2. CASE a \in S
    BY <1>1, <1>3, <1>4, <2>1, <2>2 DEF Faithful
  <2>3. CASE a \notin S
    BY <1>2, <1>4, <2>1, <2>3 DEF Faithful
  <2> QED BY <2>2, <2>3
<1>10. /\ Attempted' = Attempted
       /\ \A a \in Attempted : CardOf(a)' = CardOf(a) /\ AccountOf(a)' = AccountOf(a)
  BY <1>2, <1>4 DEF Attempted, CardOf, AccountOf
<1>11. Books'
  <2>1. /\ \A a, b \in Attempted' : a # b => CardOf(a)' # CardOf(b)'
        /\ \A a, b \in Attempted' \ verified' : a # b => AccountOf(a)' # AccountOf(b)'
    BY <1>4, <1>10, SameAttempts DEF Inv
  <2>2. DOMAIN written' \subseteq DOMAIN journal' \cup verified'
    BY <1>2, <1>4 DEF Inv, Books
  <2> QED BY <1>9, <2>1, <2>2 DEF Inv, Books
<1>12. \A a \in DOMAIN journal' : journal'[a] \in Entries
  BY <1>2, <1>3 DEF Inv, TypeOK
<1>13. verified' \subseteq DOMAIN written' /\ next' \in 0..MaxAttempt
       /\ DOMAIN journal' \subseteq 1..next' /\ DOMAIN written' \subseteq 1..next'
  BY <1>1, <1>2, <1>4 DEF Inv, TypeOK
<1> QED BY <1>6, <1>7, <1>8, <1>11, <1>12, <1>13 DEF Kept

\* What the list read says about earlier attempts is journalled.
LEMMA InvReconcile ==
  ASSUME Inv, NEW i \in Instance, Reconcile(i)
  PROVE  Inv'
<1> DEFINE o == worker[i]
           w == [o EXCEPT !.at = "clear", !.mark = 0]
           settled == [a \in DOMAIN journal |->
                         IF a \in Settled(o) THEN [journal[a] EXCEPT !.phase = "verified"]
                         ELSE journal[a]]
           on == IF Unsettled(o) = {} /\ o.seen # {} THEN w ELSE Idle
<1>1. /\ o.at = "listed" /\ UNCHANGED <<upstream, next, owner, banStore, written>>
      /\ verified' = verified \cup Verified(journal')
      /\ Commit(i, settled, on, Idle)
  BY DEF Reconcile
<1>2. UNCHANGED <<cards, handled, sent, next, owner, banStore, bans, written>>
      /\ sent' \subseteq Attempt /\ next' \in 0..MaxAttempt /\ next <= next' /\ next \in Nat
  <2>1. next \in Nat
    BY Numbers DEF Inv
  <2> QED BY <1>1, <2>1 DEF upstream, banStore, Inv, TypeOK
<1>3. o \in Workers /\ Reading(o)
  BY DEF Inv, TypeOK, Batches, Batch
<1>4. Verified(journal) \subseteq verified
  BY DEF Verified, Inv, Books, Faithful
<1>5. journal' \in {journal, settled} /\ (GoTo(i, on) \/ GoTo(i, Idle))
  <2> HIDE DEF settled, on
  <2> QED BY <1>1, CommitCases
<1>6. Kept(i)
  <2>1. CASE journal' = journal
    <3>1. verified' = verified
      BY <1>1, <1>4, <2>1
    <3> QED BY <1>2, <2>1, <3>1, KeptQuiet
  <2>2. CASE journal' = settled
    <3>1. Verified(journal') = Verified(journal) \cup Settled(o)
      <4>1. \A a \in DOMAIN journal : journal[a] \in Entries
        BY DEF Inv, TypeOK
      <4>2. Settled(o) \subseteq DOMAIN journal
        BY DEF Settled
      <4> DEFINE S == Settled(o)
      <4> HIDE DEF S
      <4>3. journal' = [a \in DOMAIN journal |->
                 IF a \in S THEN [journal[a] EXCEPT !.phase = "verified"] ELSE journal[a]]
        BY <2>2 DEF S
      <4>4. \A a \in S : journal'[a].phase = "verified"
        <5> TAKE a \in S
        <5>1. a \in DOMAIN journal /\ journal[a] \in Entries
          BY <4>1, <4>2 DEF S
        <5> DEFINE e == journal[a]
        <5> HIDE DEF e
        <5>2. e \in Entries /\ journal'[a] = [e EXCEPT !.phase = "verified"]
          BY <4>3, <5>1 DEF e
        <5> QED BY <5>2 DEF Entries
      <4>5. \A a \in DOMAIN journal \ S : journal'[a] = journal[a]
        BY <4>3
      <4>6. DOMAIN journal' = DOMAIN journal /\ S \subseteq DOMAIN journal
        BY <4>2, <4>3 DEF S
      <4>7. Verified(journal') = Verified(journal) \cup S
        BY <4>4, <4>5, <4>6 DEF Verified
      <4> QED BY <4>7 DEF S
    <3>2. verified' = verified \cup Settled(o)
      BY <1>1, <1>4, <3>1
    <3> QED BY <1>1, <1>2, <2>2, <3>2, KeptSettled
  <2> QED BY <1>5, <2>1, <2>2
<1>7. CASE GoTo(i, Idle)
  BY <1>2, <1>6, <1>7, MoveOff
<1>8. CASE GoTo(i, w) /\ o.seen # {}
  <2> HIDE DEF o
  <2>1. w \in Workers /\ w.at = "clear" /\ w.auth = o.auth /\ w.seen = o.seen /\ w.mark = 0
        /\ w.old = o.old
    <3>1. 0 \in 0..MaxAttempt
      BY CreditAssumption
    <3>2. o \in Workers
      BY <1>3
    <3> QED BY <3>1, <3>2 DEF Workers
  <2> HIDE DEF w
  <2>2. ASSUME worker'[i] = w PROVE Batch(i)'
    <3>1. verified \subseteq verified' /\ DOMAIN journal' = DOMAIN journal
      BY <1>1, <1>5
    <3>2. Reading(worker[i])'
      BY <1>1, <1>2, <1>3, <1>8, <2>1, <2>2, <3>1 DEF Reading, Before
    <3>3. BanSeen(worker[i])' /\ Attempting(worker[i])'
      BY <2>1, <2>2 DEF BanSeen, Attempting
    <3> QED BY <3>2, <3>3 DEF Batch
  <2>3. w.at \notin Holding
    BY <2>1 DEF Holding
  <2> QED BY <1>2, <1>6, <1>8, <2>1, <2>2, <2>3, MoveOn
<1> QED BY <1>5, <1>7, <1>8

\* A new attempt is journalled, and entries of verified ones may be dropped: it is for a card
\* no attempt was for, and of an account whose earlier attempts are verified.
LEMMA KeptReserved ==
  ASSUME Inv, NEW i \in Instance, worker[i].at = "reserve", NEW old \in SUBSET Aged,
         \A b \in DOMAIN journal \ old : ~Blocks(worker[i], b),
         next < MaxAttempt, next' = next + 1,
         journal' = Put([b \in DOMAIN journal \ old |-> journal[b]], next + 1,
                        Entry(worker[i], "pending")),
         UNCHANGED <<cards, handled, bans, written, verified>>
  PROVE  Kept(i)
<1>0. PICK n : n = next + 1
  OBVIOUS
<1> DEFINE w == worker[i]
           e == Entry(w, "pending")
           kept == DOMAIN journal \ old
<1>1. next \in Nat /\ MaxAttempt \in Nat /\ bans \in Nat /\ w \in Workers /\ Reading(w)
  BY Numbers DEF Inv, Batches, Batch
<1>2. w.auth \in Auth /\ w.card \in w.seen /\ cards[w.card] # "future"
  BY <1>1 DEF Reading
<1>3. e \in Entries /\ e.card = w.card /\ e.account = KeyOf[w.auth] /\ e.phase = "pending"
  BY <1>1, <1>2, EntryFacts DEF Phases
<1>4. n \in Nat /\ n > next /\ n \in 1..n /\ n \in 0..MaxAttempt /\ 1..next \subseteq 1..n
      /\ n \notin DOMAIN journal /\ n \notin DOMAIN written
  BY <1>0, <1>1 DEF Inv, TypeOK
<1>5. journal' = Put([b \in kept |-> journal[b]], n, e) /\ next' = n
  BY <1>0
<1> HIDE DEF e
<1>6. /\ DOMAIN journal' = kept \cup {n} /\ journal'[n] = e
      /\ \A a \in kept : journal'[a] = journal[a]
  <2> HIDE DEF kept
  <2>1. journal' = [b \in kept \cup {n} |->
                       IF b = n THEN e ELSE [c \in kept |-> journal[c]][b]]
    BY <1>5 DEF Put
  <2>2. n \notin kept
    BY <1>4 DEF kept
  <2> QED BY <2>1, <2>2
<1>7. \A a \in old : /\ a \in DOMAIN journal /\ journal[a].phase = "verified"
                     /\ a \in verified /\ a \in DOMAIN written /\ a \in w.old
                     /\ journal[a].card = written[a].card
                     /\ journal[a].account = written[a].account
  <2> TAKE a \in old
  <2>1. a \in DOMAIN journal /\ journal[a].phase = "verified" /\ a \in w.old
    BY DEF Aged, Verified
  <2>2. Faithful(a)
    BY <2>1 DEF Inv, Books
  <2> QED BY <2>1, <2>2 DEF Faithful, Inv, TypeOK
<1>8. /\ Attempted' = Attempted \cup {n} /\ n \notin Attempted
      /\ \A a \in Attempted : CardOf(a)' = CardOf(a) /\ AccountOf(a)' = AccountOf(a)
      /\ CardOf(n)' = w.card /\ AccountOf(n)' = KeyOf[w.auth]
  <2>1. Attempted' = Attempted \cup {n} /\ n \notin Attempted
    BY <1>4, <1>6, <1>7 DEF Attempted
  <2>2. ASSUME NEW a \in Attempted PROVE CardOf(a)' = CardOf(a) /\ AccountOf(a)' = AccountOf(a)
    <3>1. a # n
      BY <2>1
    <3>2. CASE a \in old
      BY <1>6, <1>7, <3>1, <3>2 DEF CardOf, AccountOf
    <3>3. CASE a \notin old
      BY <1>6, <3>1, <3>3 DEF CardOf, AccountOf
    <3> QED BY <3>2, <3>3
  <2>3. CardOf(n)' = w.card /\ AccountOf(n)' = KeyOf[w.auth]
    BY <1>3, <1>6 DEF CardOf, AccountOf
  <2> QED BY <2>1, <2>2, <2>3
<1>9. ASSUME NEW a \in Attempted PROVE CardOf(a) # w.card
  <2>1. CASE a \in kept
    BY <2>1 DEF CardOf, Blocks
  <2>2. CASE a \in old
    BY <1>1, <1>2, <1>7, <2>2 DEF CardOf, Reading
  <2>3. CASE a \notin DOMAIN journal
    BY <1>1, <1>2, <2>3 DEF CardOf, Attempted, Reading, Before
  <2> QED BY <2>1, <2>2, <2>3
<1>10. ASSUME NEW a \in Attempted \ verified PROVE AccountOf(a) # KeyOf[w.auth]
  <2>1. a \in DOMAIN journal /\ Faithful(a)
    BY DEF Attempted, Inv, Books
  <2>2. a \in kept /\ journal[a].phase # "verified"
    BY <1>7, <2>1 DEF Faithful
  <2> QED BY <2>1, <2>2 DEF AccountOf, Blocks
<1> HIDE DEF w
<1>11. Grows
  BY <1>1, <1>4, <1>5, <1>6 DEF Grows
<1>12. ASSUME NEW j \in Instance PROVE EntryLeft(j)
  <2>1. Attempting(worker[j])
    BY DEF Inv, Batches, Batch
  <2>2. \A a \in DOMAIN journal : journal[a].phase = "pending"
                                    => a \in DOMAIN journal' /\ journal'[a] = journal[a]
    BY <1>6, <1>7
  <2> QED BY <2>1, <2>2 DEF EntryLeft, Attempting
<1>13. VerifiedWritesAreOver'
  BY DEF Inv, VerifiedWritesAreOver
<1>14. ASSUME NEW a \in DOMAIN journal' PROVE Faithful(a)'
  <2>1. CASE a = n
    BY <1>2, <1>3, <1>4, <1>6, <2>1 DEF Faithful
  <2>2. CASE a # n
    BY <1>6, <2>2 DEF Faithful, Inv, Books
  <2> QED BY <2>1, <2>2
<1>15. Books'
  <2>1. ASSUME NEW a \in Attempted', NEW b \in Attempted', a # b PROVE CardOf(a)' # CardOf(b)'
    BY <1>8, <1>9, <2>1 DEF Inv, Books
  <2>2. ASSUME NEW a \in Attempted' \ verified', NEW b \in Attempted' \ verified', a # b
        PROVE  AccountOf(a)' # AccountOf(b)'
    BY <1>8, <1>10, <2>2 DEF Inv, Books
  <2>3. DOMAIN written' \subseteq DOMAIN journal' \cup verified'
    BY <1>6, <1>7 DEF Inv, Books
  <2> QED BY <1>14, <2>1, <2>2, <2>3 DEF Inv, Books
<1>16. \A a \in DOMAIN journal' : journal'[a] \in Entries
  BY <1>3, <1>6 DEF Inv, TypeOK
<1>17. verified' \subseteq DOMAIN written' /\ next' \in 0..MaxAttempt
       /\ DOMAIN journal' \subseteq 1..next' /\ DOMAIN written' \subseteq 1..next'
  BY <1>4, <1>5, <1>6 DEF Inv, TypeOK
<1> QED BY <1>11, <1>12, <1>13, <1>15, <1>16, <1>17 DEF Kept

\* The attempts of workers are numbered already.
LEMMA HeldIsNumbered ==
  ASSUME Inv, NEW j \in Instance, worker[j].at \in Holding
  PROVE  worker[j].attempt # next + 1
<1>1. Attempting(worker[j]) /\ next \in Nat
  BY Numbers DEF Inv, Batches, Batch
<1>2. worker[j].attempt \in DOMAIN journal \cup DOMAIN written
  BY <1>1 DEF Attempting, Holding
<1> QED BY <1>1, <1>2 DEF Inv, TypeOK

\* An attempt is journalled before its write is sent, unless an earlier one forbids it.
LEMMA InvReserve ==
  ASSUME Inv, NEW i \in Instance, Reserve(i)
  PROVE  Inv'
<1> DEFINE o == worker[i]
           n == next + 1
           w == [o EXCEPT !.at = "reserved", !.attempt = n, !.old = {}]
           e == Entry(o, "pending")
<1>1. o.at = "reserve" /\ UNCHANGED <<upstream, owner, banStore, history>>
  BY DEF Reserve
<1>2. UNCHANGED <<cards, handled, sent, owner, ban, bans, banStore, written, verified>>
      /\ sent' \subseteq Attempt
  BY <1>1 DEF upstream, banStore, history, Inv, TypeOK
<1>3. o \in Workers /\ Reading(o) /\ BanSeen(o) /\ next \in Nat /\ MaxAttempt \in Nat
      /\ next \in 0..MaxAttempt
  BY Numbers DEF Inv, TypeOK, Batches, Batch
<1>4. PICK old \in SUBSET Aged :
         LET kept == [b \in DOMAIN journal \ old |-> journal[b]] IN
         IF \E b \in DOMAIN kept : Blocks(o, b)
         THEN GoTo(i, Idle) /\ UNCHANGED <<journal, next>>
         ELSE /\ next < MaxAttempt /\ next' = n
              /\ Commit(i, Put(kept, n, e), w, Idle)
  BY DEF Reserve
<1> DEFINE kept == [b \in DOMAIN journal \ old |-> journal[b]]
           change == Put(kept, n, e)
<1>5. CASE GoTo(i, Idle) /\ UNCHANGED <<journal, next>>
  BY <1>2, <1>3, <1>5, KeptQuiet, MoveOff
<1>6. CASE (\A b \in DOMAIN journal \ old : ~Blocks(o, b)) /\ next < MaxAttempt /\ next' = n
           /\ Commit(i, change, w, Idle)
  <2>1. /\ journal' = change \/ journal' = journal
        /\ (GoTo(i, w) /\ journal' = change) \/ GoTo(i, Idle)
    <3> HIDE DEF change, w
    <3> QED BY <1>6, CommitCases
  <2>2. Kept(i)
    <3>1. CASE journal' = change
      BY <1>1, <1>2, <1>6, <3>1, KeptReserved
    <3>2. CASE journal' = journal
      <4>1. next' \in 0..MaxAttempt /\ next <= next'
        BY <1>3, <1>6
      <4> QED BY <1>2, <3>2, <4>1, KeptQuiet
    <3> QED BY <2>1, <3>1, <3>2
  <2>3. CASE GoTo(i, Idle)
    BY <1>2, <2>2, <2>3, MoveOff
  <2>4. CASE GoTo(i, w) /\ journal' = change
    <3>1. journal' = [b \in (DOMAIN journal \ old) \cup {n} |-> IF b = n THEN e ELSE kept[b]]
      BY <2>4 DEF Put
    <3>2. e.card = o.card /\ e.account = KeyOf[o.auth] /\ e.phase = "pending"
      BY DEF Entry
    <3>3. n \in 0..MaxAttempt /\ next' = n /\ \A m \in Nat : m <= next => m <= next'
      BY <1>3, <1>6
    <3>4. n \notin DOMAIN written'
      BY <1>2, <1>3 DEF Inv, TypeOK
    <3>5. \A j \in Instance : worker[j].at \in Holding => worker[j].attempt # n
      BY HeldIsNumbered
    <3> HIDE DEF e, n, kept, change, o
    <3>6. w \in Workers /\ w.at = "reserved" /\ w.card = o.card /\ w.ban = o.ban
          /\ w.auth = o.auth /\ w.seen = o.seen /\ w.mark = o.mark /\ w.old = {}
          /\ w.attempt = n /\ o.mark \in Nat
      <4>1. o.mark \in Nat
        BY <1>3 DEF Workers
      <4>2. o \in Workers
        BY <1>3
      <4>3. w \in Workers
        BY <4>2, <3>3 DEF Workers
      <4> QED BY <4>1, <4>2, <4>3 DEF Workers
    <3> HIDE DEF w
    <3>7. ASSUME worker'[i] = w PROVE Batch(i)'
      <4>1. Reading(worker[i])'
        BY <1>1, <1>2, <1>3, <3>3, <3>6, <3>7 DEF Reading, Before
      <4>2. Attempting(worker[i])'
        BY <3>1, <3>2, <3>4, <3>6, <3>7 DEF Attempting
      <4>3. BanSeen(worker[i])'
        BY <1>1, <1>2, <1>3, <3>6, <3>7 DEF BanSeen
      <4> QED BY <4>1, <4>2, <4>3 DEF Batch
    <3> QED BY <1>2, <2>2, <2>4, <3>5, <3>6, <3>7, MoveOn
  <2> QED BY <2>1, <2>3, <2>4
<1>7. \/ GoTo(i, Idle) /\ UNCHANGED <<journal, next>>
      \/ /\ \A b \in DOMAIN journal \ old : ~Blocks(o, b)
         /\ next < MaxAttempt /\ next' = n /\ Commit(i, change, w, Idle)
  <2> HIDE DEF o, e, n, w
  <2> QED BY <1>4
<1> QED BY <1>5, <1>6, <1>7

\* The write of a journalled attempt is sent.
LEMMA KeptSent ==
  ASSUME Inv, NEW i \in Instance, worker[i].at = "reserved",
         written' = Put(written, worker[i].attempt,
                        [card |-> worker[i].card, account |-> KeyOf[worker[i].auth]]),
         UNCHANGED <<cards, handled, journal, next, bans, verified>>
  PROVE  Kept(i)
<1> DEFINE w == worker[i]
<1>0. PICK n : n = w.attempt
  OBVIOUS
<1>1. /\ n \in DOMAIN journal /\ journal[n].phase = "pending" /\ n \notin DOMAIN written
      /\ journal[n].card = w.card /\ journal[n].account = KeyOf[w.auth]
  BY <1>0 DEF Inv, Batches, Batch, Attempting
<1> DEFINE new == [card |-> w.card, account |-> KeyOf[w.auth]]
<1>2. new.card = w.card /\ new.account = KeyOf[w.auth] /\ new \in Writes
  <2>1. journal[n] \in Entries
    BY <1>1 DEF Inv, TypeOK
  <2>2. w.card \in Card /\ KeyOf[w.auth] \in Account
    BY <1>1, <2>1 DEF Entries
  <2> QED BY <2>2 DEF Writes
<1> HIDE DEF new
<1>3. /\ DOMAIN written' = DOMAIN written \cup {n} /\ written'[n] = new
      /\ \A a \in DOMAIN written : written'[a] = written[a]
  <2>1. written' = [b \in DOMAIN written \cup {n} |-> IF b = n THEN new ELSE written[b]]
    BY <1>0 DEF Put, new
  <2> QED BY <1>1, <2>1
<1>4. next \in Nat /\ bans \in Nat /\ next \in 0..MaxAttempt
  BY Numbers DEF Inv, TypeOK
<1>5. Grows
  BY <1>1, <1>3, <1>4 DEF Grows
<1>6. ASSUME NEW j \in Instance \ {i} PROVE EntryLeft(j)
  <2>1. worker[j].at \in {"reserved", "posted"} => worker[j].attempt # n
    BY <1>0 DEF Inv, Batches, Apart, Holding
  <2>2. Attempting(worker[j])
    BY DEF Inv, Batches, Batch
  <2> QED BY <1>3, <2>1, <2>2 DEF EntryLeft, Attempting
<1> HIDE DEF w
<1>7. VerifiedWritesAreOver'
  BY <1>3 DEF Inv, TypeOK, VerifiedWritesAreOver
<1>8. ASSUME NEW a \in DOMAIN journal' PROVE Faithful(a)'
  <2>1. a \in DOMAIN journal /\ Faithful(a)
    BY DEF Inv, Books
  <2>2. CASE a = n
    BY <1>1, <1>2, <1>3, <2>1, <2>2 DEF Faithful
  <2>3. CASE a # n
    BY <1>3, <2>1, <2>3 DEF Faithful
  <2> QED BY <2>2, <2>3
<1>9. /\ Attempted' = Attempted
      /\ \A a \in Attempted : CardOf(a)' = CardOf(a) /\ AccountOf(a)' = AccountOf(a)
  BY <1>1, <1>3 DEF Attempted, CardOf, AccountOf
<1>10. Books'
  <2>1. /\ \A a, b \in Attempted' : a # b => CardOf(a)' # CardOf(b)'
        /\ \A a, b \in Attempted' \ verified' : a # b => AccountOf(a)' # AccountOf(b)'
    BY <1>9, SameAttempts DEF Inv
  <2>2. DOMAIN written' \subseteq DOMAIN journal' \cup verified'
    BY <1>1, <1>3 DEF Inv, Books
  <2>3. \A a \in DOMAIN written' : written'[a] \in Writes
    BY <1>2, <1>3 DEF Inv, Books
  <2> QED BY <1>8, <2>1, <2>2, <2>3 DEF Books
<1>11. /\ verified' \subseteq DOMAIN written' /\ next' \in 0..MaxAttempt
       /\ DOMAIN journal' \subseteq 1..next' /\ DOMAIN written' \subseteq 1..next'
       /\ \A a \in DOMAIN journal' : journal'[a] \in Entries
  BY <1>1, <1>3, <1>4 DEF Inv, TypeOK
<1> QED BY <1>5, <1>6, <1>7, <1>10, <1>11 DEF Kept

\* The write is sent, or is not because the authorization was lost.
LEMMA InvPost ==
  ASSUME Inv, NEW i \in Instance, Post(i)
  PROVE  Inv'
<1> DEFINE o == worker[i]
           w == [o EXCEPT !.at = "posted", !.bans = bans]
           new == [card |-> o.card, account |-> KeyOf[o.auth]]
<1>1. /\ o.at = "reserved"
      /\ UNCHANGED <<cards, handled, journal, next, owner, banStore, ban, bans, verified>>
      /\ \/ sent' = sent \cup {o.attempt} /\ written' = Put(written, o.attempt, new) /\ GoTo(i, w)
         \/ GoTo(i, Idle) /\ UNCHANGED <<sent, written>>
  BY DEF Post, banStore
<1>2. o \in Workers /\ Reading(o) /\ Attempting(o) /\ BanSeen(o)
      /\ next \in Nat /\ next \in 0..MaxAttempt /\ sent \subseteq Attempt
      /\ DOMAIN journal \subseteq 1..next /\ MaxAttempt \in Nat /\ bans \in 0..MaxBan
  BY Numbers DEF Inv, TypeOK, Batches, Batch
<1>3. CASE GoTo(i, Idle) /\ UNCHANGED <<sent, written>>
  BY <1>1, <1>2, <1>3, KeptQuiet, MoveOff
<1>4. CASE sent' = sent \cup {o.attempt} /\ written' = Put(written, o.attempt, new) /\ GoTo(i, w)
  <2>1. Kept(i)
    BY <1>1, <1>4, KeptSent
  <2>2. sent' \subseteq Attempt
    <3>1. o.attempt \in 1..next
      BY <1>1, <1>2 DEF Attempting
    <3> QED BY <1>2, <1>4, <3>1 DEF Attempt
  <2>3. worker[i].at \in Holding
    BY <1>1 DEF Holding
  <2>4. o.attempt \in DOMAIN written' /\ written'[o.attempt] = new
    BY <1>4 DEF Put
  <2>5. new.card = o.card /\ new.account = KeyOf[o.auth]
    OBVIOUS
  <2>6. w \in Workers /\ w.at = "posted" /\ w.card = o.card /\ w.ban = o.ban
        /\ w.auth = o.auth /\ w.seen = o.seen /\ w.mark = o.mark /\ w.old = o.old
        /\ w.attempt = o.attempt /\ w.bans = bans
    <3> HIDE DEF o
    <3> QED BY <1>2 DEF Workers
  <2>7. w.attempt = worker[i].attempt
    BY <2>6
  <2> HIDE DEF o, w, new
  <2>8. ASSUME worker'[i] = w PROVE Batch(i)'
    <3>0. \A a \in verified : written'[a] = written[a]
      BY <2>1 DEF Kept, Grows, Inv, TypeOK
    <3>1. Reading(worker[i])'
      BY <1>1, <1>2, <2>6, <2>8, <3>0 DEF Reading, Before
    <3>2. Attempting(worker[i])'
      BY <1>1, <1>2, <2>4, <2>5, <2>6, <2>8 DEF Attempting
    <3>3. BanSeen(worker[i])'
      BY <1>1, <1>2, <2>6, <2>8 DEF BanSeen
    <3> QED BY <3>1, <3>2, <3>3 DEF Batch
  <2> QED BY <1>1, <1>4, <2>1, <2>2, <2>3, <2>6, <2>7, <2>8, MoveOn
<1> QED BY <1>1, <1>3, <1>4
-----------------------------------------------------------------------------
\* It holds before the first list is read.
LEMMA InvInit == Init => Inv
<1> SUFFICES ASSUME Init PROVE Inv
  OBVIOUS
<1>1. MaxCard \in Nat /\ MaxAttempt \in Nat /\ MaxBan \in Nat
  BY CreditAssumption
<1>2. /\ DOMAIN journal = {} /\ DOMAIN written = {} /\ verified = {} /\ handled = {} /\ sent = {}
      /\ next = 0 /\ bans = 0 /\ owner \in Instance /\ worker = [i \in Instance |-> Idle]
      /\ cards \in [Card -> {"future", "available"}] /\ ban = [a \in Auth |-> 0]
  BY DEF Init
<1>3. cards \in [Card -> {"future", "available", "gone"}]
  BY <1>2
<1>4. TypeOK
  BY <1>1, <1>2, <1>3, IdleFacts DEF TypeOK
<1>5. VerifiedWritesAreOver /\ Books
  BY <1>2 DEF VerifiedWritesAreOver, Books, Attempted
<1>6. Batches
  BY <1>2, IdleFacts DEF Batches, Batch, Apart, Reading, Attempting, BanSeen, Before, Holding
<1> QED BY <1>4, <1>5, <1>6 DEF Inv

\* Every step keeps it.
LEMMA InvStep == Inv /\ [Next]_vars => Inv'
<1> SUFFICES ASSUME Inv, [Next]_vars PROVE Inv'
  OBVIOUS
<1>1. CASE UNCHANGED vars
  BY <1>1 DEF vars, upstream, banStore, history, Inv, TypeOK, VerifiedWritesAreOver, Books,
     Attempted, CardOf, AccountOf, Faithful, Batches, Batch, Reading, Attempting, BanSeen, Apart
<1>2. ASSUME NEW i \in Instance, NEW a \in Auth, ReadList(i, a) PROVE Inv'
  BY <1>2, InvReadList
<1>3. ASSUME NEW i \in Instance,
             \/ Reconcile(i) \/ Prepare(i) \/ Reserve(i) \/ Post(i) \/ Record(i) \/ Verify(i)
             \/ Conclude(i) \/ Recover(i) \/ Lift(i) \/ Stop(i)
      PROVE  Inv'
  BY <1>3, InvReconcile, InvPrepare, InvReserve, InvPost, InvRecord, InvVerify, InvConclude,
     InvRecover, InvLift
<1>4. ASSUME NEW a \in Attempt, Process(a) PROVE Inv'
  BY <1>4, InvProcess
<1>5. ASSUME \/ \E c \in Card : Grant(c) \/ Vanish(c)
             \/ \E a \in Bannable : Ban(a) \/ Unban(a)
             \/ \E i \in Instance : TakeOver(i)
      PROVE  Inv'
  BY <1>5, InvOutside
<1> QED BY <1>1, <1>2, <1>3, <1>4, <1>5 DEF Next

\* The invariant holds in every behaviour.
THEOREM InvHolds == Spec => []Inv
  BY InvInit, InvStep, PTL DEF Spec

\* Journal, workers and bans have their types.
THEOREM TypeCorrect == Spec => []TypeOK
<1>1. Inv => TypeOK
  BY DEF Inv
<1> QED BY <1>1, InvHolds, PTL

\* What was verified has happened: the write has arrived and its card is gone
\* (reset_credits.go:399).
THEOREM WritesOver == Spec => []VerifiedWritesAreOver
<1>1. Inv => VerifiedWritesAreOver
  BY DEF Inv
<1> QED BY <1>1, InvHolds, PTL

\* A redemption ends no ban recorded after its write was sent (reset_credits.go:596-598).
THEOREM BansStay == Spec => NewerBansStay
<1>1. ASSUME Inv, NEW i \in Instance, Lift(i), NEW a \in Auth, ban'[a] # ban[a]
      PROVE  ban[a] <= worker[i].bans
  <2>1. worker[i].at = "lift" /\ BanSeen(worker[i]) /\ ban \in [Auth -> 0..bans]
    BY <1>1 DEF Lift, Inv, TypeOK, Batches, Batch
  <2>2. a = worker[i].auth /\ ban[worker[i].auth] = worker[i].ban
    BY <1>1, <2>1 DEF Lift, Lifts
  <2> QED BY <2>1, <2>2 DEF BanSeen
<1>2. Inv /\ [Next]_vars => [\A i \in Instance : Lift(i) =>
            \A a \in Auth : ban'[a] # ban[a] => ban[a] <= worker[i].bans]_vars
  BY <1>1
<1> QED BY <1>2, InvHolds, PTL DEF Spec, NewerBansStay
-----------------------------------------------------------------------------
(* The writes are those RedemptionWrites allows.                            *)

\* What an attempt whose write was sent stands for there.
Sent(a) == [card |-> written[a].card, account |-> written[a].account, closed |-> a \in verified]
Sends == [a \in DOMAIN written |-> Sent(a)]

\* Its parts.
LEMMA SentFacts ==
  ASSUME NEW a
  PROVE  /\ Sent(a).card = written[a].card /\ Sent(a).account = written[a].account
         /\ Sent(a).closed <=> a \in verified
  BY DEF Sent

\* The attempt whose write is sent has sent none, and the card and the account are free.
LEMMA PostFacts ==
  ASSUME Inv, NEW i \in Instance, Post(i), NEW n, NEW c, NEW k,
         n = worker[i].attempt, c = worker[i].card, k = KeyOf[worker[i].auth]
  PROVE  /\ n \in Attempt \ DOMAIN written /\ n \notin verified /\ c \in Card /\ k \in Account
         /\ \A a \in DOMAIN written : written[a].card # c
         /\ \A a \in DOMAIN written \ verified : written[a].account # k
<1>1. /\ n \in DOMAIN journal /\ journal[n].phase = "pending" /\ n \notin DOMAIN written
      /\ journal[n].card = c /\ journal[n].account = k /\ n \notin verified
  BY DEF Post, Inv, TypeOK, Batches, Batch, Attempting
<1>2. c \in Card /\ k \in Account
  <2>1. journal[n] \in Entries
    BY <1>1 DEF Inv, TypeOK
  <2> QED BY <1>1, <2>1 DEF Entries
<1>3. n \in Attempt
  <2>1. n \in 1..next /\ next \in 0..MaxAttempt /\ MaxAttempt \in Nat
    BY <1>1, CreditAssumption DEF Inv, TypeOK
  <2> QED BY <2>1 DEF Attempt
<1>4. \A a \in DOMAIN written : CardOf(a) = written[a].card /\ AccountOf(a) = written[a].account
  BY DEF CardOf, AccountOf, Inv, Books, Faithful
<1>5. \A a \in DOMAIN written : written[a].card # c
  BY <1>1, <1>4 DEF Inv, Books, Attempted, CardOf
<1>6. \A a \in DOMAIN written \ verified : written[a].account # k
  <2> TAKE a \in DOMAIN written \ verified
  <2>1. a \in Attempted \ verified /\ n \in Attempted \ verified /\ a # n
    BY <1>1 DEF Attempted
  <2>2. AccountOf(a) # AccountOf(n) /\ AccountOf(n) = k
    BY <1>1, <2>1 DEF Inv, Books, AccountOf
  <2> QED BY <1>4, <2>2
<1> QED BY <1>1, <1>2, <1>3, <1>5, <1>6

\* So it is a write that may be sent.
LEMMA SendStep ==
  ASSUME Inv, NEW i \in Instance, Post(i)
  PROVE  RW!Next \/ UNCHANGED Sends
<1>1. CASE UNCHANGED written
  BY <1>1 DEF Post, Sends, Sent
<1>2. CASE written' # written
  <2>1. PICK n, c, k : n = worker[i].attempt /\ c = worker[i].card /\ k = KeyOf[worker[i].auth]
    OBVIOUS
  <2>2. /\ n \in Attempt \ DOMAIN written /\ n \notin verified /\ c \in Card /\ k \in Account
        /\ \A a \in DOMAIN written : written[a].card # c
        /\ \A a \in DOMAIN written \ verified : written[a].account # k
    BY <2>1, PostFacts
  <2>3. written' = Put(written, n, [card |-> c, account |-> k]) /\ verified' = verified
    BY <1>2, <2>1 DEF Post
  <2>4. /\ DOMAIN written' = DOMAIN written \cup {n}
        /\ written'[n].card = c /\ written'[n].account = k
        /\ \A a \in DOMAIN written : written'[a] = written[a]
    <3>1. written' = [b \in DOMAIN written \cup {n} |->
                         IF b = n THEN [card |-> c, account |-> k] ELSE written[b]]
      BY <2>3 DEF Put
    <3> QED BY <2>2, <3>1
  <2>5. \A a \in DOMAIN Sends : Sends[a].card # c
    BY <2>2, SentFacts DEF Sends
  <2>6. {a \in DOMAIN Sends : Sends[a].account = k /\ ~Sends[a].closed} = {}
    BY <2>2, SentFacts DEF Sends
  <2>7. Sends' = [m \in DOMAIN Sends \cup {n} |->
                     IF m = n THEN [card |-> c, account |-> k, closed |-> FALSE] ELSE Sends[m]]
    <3>1. \A a \in DOMAIN written : Sent(a)' = Sent(a)
      BY <2>3, <2>4 DEF Sent
    <3>2. Sent(n)' = [card |-> c, account |-> k, closed |-> FALSE]
      <4>1. (n \in verified') = FALSE
        BY <2>2, <2>3
      <4> QED BY <2>4, <4>1 DEF Sent
    <3>3. Sends' = [m \in DOMAIN written \cup {n} |-> Sent(m)']
      BY <2>4 DEF Sends
    <3>4. DOMAIN Sends = DOMAIN written /\ \A a \in DOMAIN written : Sends[a] = Sent(a)
      BY DEF Sends
    <3> QED BY <2>2, <3>1, <3>2, <3>3, <3>4
  <2>8. n \notin DOMAIN Sends
    BY <2>2 DEF Sends
  <2>9. RW!Send(n, c, k)
    BY <2>5, <2>6, <2>7, <2>8 DEF RW!Send, RW!Open, Sends, Sent
  <2>10. n \in Attempt /\ c \in Card /\ k \in Account
    BY <2>2
  <2>11. RW!Next
    BY <2>9, <2>10, Zenon DEF RW!Next
  <2> QED BY <2>11
<1> QED BY <1>1, <1>2

\* Writes of one account at most are closed, and no two of them are open.
LEMMA CloseStep ==
  ASSUME Inv, written' = written, verified \subseteq verified', verified' \subseteq DOMAIN written,
         \A a, b \in verified' \ verified : written[a].account = written[b].account
  PROVE  RW!Next \/ UNCHANGED Sends
<1>1. CASE verified' = verified
  BY <1>1 DEF Sends, Sent
<1>2. CASE verified' # verified
  <2>1. PICK n \in verified' : n \notin verified
    BY <1>2
  <2>2. \A a \in DOMAIN written : CardOf(a) = written[a].card /\ AccountOf(a) = written[a].account
    BY DEF CardOf, AccountOf, Inv, Books, Faithful
  <2>3. verified' = verified \cup {n} /\ n \in DOMAIN written
    <3>1. ASSUME NEW a \in verified' \ verified PROVE a = n
      <4>1. a \in Attempted \ verified /\ n \in Attempted \ verified
        BY <2>1 DEF Attempted
      <4>2. AccountOf(a) = AccountOf(n)
        BY <2>1, <2>2
      <4> QED BY <4>1, <4>2 DEF Inv, Books
    <3> QED BY <2>1, <3>1
  <2>4. n \in DOMAIN Sends /\ ~Sends[n].closed
    BY <2>1, <2>3, SentFacts DEF Sends
  <2>5. Sends' = [Sends EXCEPT ![n].closed = TRUE]
    <3>1. \A a \in DOMAIN written \ {n} : Sent(a)' = Sent(a)
      <4> TAKE a \in DOMAIN written \ {n}
      <4>1. (a \in verified') = (a \in verified)
        BY <2>3
      <4> QED BY <4>1 DEF Sent
    <3>2. Sent(n)' = [Sent(n) EXCEPT !.closed = TRUE]
      <4>1. (n \in verified') = TRUE
        BY <2>3
      <4>2. Sent(n)' = [card |-> written[n].card, account |-> written[n].account, closed |-> TRUE]
        BY <4>1 DEF Sent
      <4>3. PICK s, b : s = Sent(n) /\ s = [card |-> written[n].card,
                                           account |-> written[n].account, closed |-> b]
        BY DEF Sent
      <4>4. \A d : [s EXCEPT !.closed = d]
                     = [card |-> written[n].card, account |-> written[n].account, closed |-> d]
        BY <4>3
      <4>5. [s EXCEPT !.closed = TRUE]
              = [card |-> written[n].card, account |-> written[n].account, closed |-> TRUE]
        BY <4>4, Zenon
      <4> QED BY <4>2, <4>3, <4>5
    <3>3. Sends' = [a \in DOMAIN written |-> Sent(a)']
      BY DEF Sends
    <3>4. [Sends EXCEPT ![n].closed = TRUE]
             = [a \in DOMAIN written |-> IF a = n THEN [Sent(n) EXCEPT !.closed = TRUE] ELSE Sent(a)]
      BY <2>3 DEF Sends
    <3> QED BY <3>1, <3>2, <3>3, <3>4
  <2>6. RW!Close(n)
    BY <2>4, <2>5 DEF RW!Close, Sends, Sent
  <2>7. \E a \in DOMAIN Sends : RW!Close(a)
    BY <2>4, <2>6
  <2>8. RW!Next
    BY <2>7, Zenon DEF RW!Next, Sends, Sent
  <2> QED BY <2>8
<1> QED BY <1>1, <1>2

\* Every step sends a write, closes one, or leaves them alone.
LEMMA WritesStep == Inv /\ Inv' /\ [Next]_vars => RW!Next \/ UNCHANGED Sends
<1> SUFFICES ASSUME Inv, Inv', [Next]_vars PROVE RW!Next \/ UNCHANGED Sends
  OBVIOUS
<1>1. CASE UNCHANGED <<written, verified>>
  BY <1>1 DEF Sends, Sent
<1>2. ASSUME NEW i \in Instance, Post(i) PROVE RW!Next \/ UNCHANGED Sends
  BY <1>2, SendStep
<1>3. ASSUME NEW i \in Instance, Conclude(i) PROVE RW!Next \/ UNCHANGED Sends
  <2> DEFINE o == worker[i]
             e == Entry(o, "verified")
             change == Put(journal, o.attempt, e)
  <2>1. written' = written /\ verified' = verified \cup Verified(journal')
        /\ (journal' = change \/ journal' = journal)
    <3>1. /\ written' = written /\ verified' = verified \cup Verified(journal')
          /\ Commit(i, change, [o EXCEPT !.at = "recover"], Idle)
      BY <1>3 DEF Conclude
    <3> HIDE DEF change
    <3> QED BY <3>1, CommitCases
  <2>2. Verified(journal) \subseteq verified
    BY DEF Verified, Inv, Books, Faithful
  <2>3. Verified(journal') \subseteq verified \cup {o.attempt}
    <3> HIDE DEF o, e
    <3>1. CASE journal' = change
      <4>1. journal' = [b \in DOMAIN journal \cup {o.attempt} |->
                           IF b = o.attempt THEN e ELSE journal[b]]
        BY <3>1 DEF Put
      <4> QED BY <2>2, <4>1 DEF Verified
    <3>2. CASE journal' = journal
      BY <2>2, <3>2
    <3> QED BY <2>1, <3>1, <3>2
  <2>4. \A a, b \in verified' \ verified : written[a].account = written[b].account
    BY <2>1, <2>3
  <2>5. verified' \subseteq DOMAIN written
    BY <2>1 DEF Inv, TypeOK
  <2> QED BY <2>1, <2>4, <2>5, CloseStep
<1>4. ASSUME NEW i \in Instance, Reconcile(i) PROVE RW!Next \/ UNCHANGED Sends
  <2> DEFINE o == worker[i]
             S == Settled(o)
             settled == [a \in DOMAIN journal |->
                           IF a \in S THEN [journal[a] EXCEPT !.phase = "verified"] ELSE journal[a]]
             on == IF Unsettled(o) = {} /\ o.seen # {} THEN [o EXCEPT !.at = "clear", !.mark = 0]
                   ELSE Idle
  <2>1. o.at = "listed" /\ written' = written /\ verified' = verified \cup Verified(journal')
        /\ (journal' = settled \/ journal' = journal)
    <3>1. /\ o.at = "listed" /\ written' = written /\ verified' = verified \cup Verified(journal')
          /\ Commit(i, settled, on, Idle)
      BY <1>4 DEF Reconcile
    <3> HIDE DEF settled, on
    <3> QED BY <3>1, CommitCases
  <2>2. Verified(journal) \subseteq verified
    BY DEF Verified, Inv, Books, Faithful
  <2>3. \A a \in S : written[a].account = KeyOf[o.auth]
    <3>1. \A a \in S : journal[a].account = KeyOf[o.auth]
      BY DEF Settled
    <3> QED BY <2>1, <3>1, SettledAreOver
  <2>4. Verified(journal') \subseteq verified \cup S
    <3> HIDE DEF S
    <3>1. CASE journal' = settled
      BY <2>2, <3>1 DEF Verified
    <3>2. CASE journal' = journal
      BY <2>2, <3>2
    <3> QED BY <2>1, <3>1, <3>2
  <2>5. \A a, b \in verified' \ verified : written[a].account = written[b].account
    <3> HIDE DEF S
    <3> QED BY <2>1, <2>3, <2>4
  <2>6. verified' \subseteq DOMAIN written
    BY <2>1 DEF Inv, TypeOK
  <2> QED BY <2>1, <2>5, <2>6, CloseStep
<1>5. ASSUME NEW i \in Instance,
             \/ \E a \in Auth : ReadList(i, a)
             \/ Prepare(i) \/ Reserve(i) \/ Record(i) \/ Verify(i)
             \/ Recover(i) \/ Lift(i) \/ Stop(i) \/ TakeOver(i)
      PROVE  UNCHANGED <<written, verified>>
  BY <1>5 DEF ReadList, Prepare, Reserve, Record, Verify, Recover, Lift, Stop, TakeOver, history
<1>6. ASSUME \/ \E a \in Attempt : Process(a)
             \/ \E c \in Card : Grant(c) \/ Vanish(c)
             \/ \E a \in Bannable : Ban(a) \/ Unban(a)
      PROVE  UNCHANGED <<written, verified>>
  BY <1>6 DEF Process, Grant, Vanish, Ban, Unban, history
<1>7. CASE UNCHANGED vars
  BY <1>1, <1>7 DEF vars, history
<1> QED BY <1>1, <1>2, <1>3, <1>4, <1>5, <1>6, <1>7 DEF Next

\* Over lost answers, crashes, hand-overs, failed journal writes and dropped entries, a card
\* is the target of one write and an account has one open write (reset_credits.go:501-502).
THEOREM ImplementsWrites == Spec => WriteSpec
<1>1. Init => RW!Init
  <2> SUFFICES ASSUME Init PROVE Sends \in [{} -> RW!Write]
    BY DEF RW!Init, Sends, Sent
  <2>1. DOMAIN written = {}
    BY DEF Init
  <2> QED BY <2>1 DEF Sends
<1>2. Inv /\ Inv' /\ [Next]_vars => [RW!Next]_Sends
  BY WritesStep
<1> QED BY <1>1, <1>2, InvHolds, PTL DEF Spec, WriteSpec, RW!Spec, Sends, Sent

\* No request is repeated: of a reserved attempt at most one write is ever sent
\* (reset_credits.go:501-502).
THEOREM NoRetry ==
  Spec => [][\A i \in Instance : Post(i) => worker[i].attempt \notin DOMAIN written]_vars
<1>1. ASSUME Inv, NEW i \in Instance, Post(i)
      PROVE  worker[i].attempt \notin DOMAIN written
  <2>1. PICK n, c, k : n = worker[i].attempt /\ c = worker[i].card /\ k = KeyOf[worker[i].auth]
    OBVIOUS
  <2> QED BY <1>1, <2>1, PostFacts
<1>2. Inv /\ [Next]_vars =>
        [\A i \in Instance : Post(i) => worker[i].attempt \notin DOMAIN written]_vars
  BY <1>1
<1> QED BY <1>2, InvHolds, PTL DEF Spec
=============================================================================
