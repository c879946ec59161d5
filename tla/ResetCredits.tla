---------------------------- MODULE ResetCredits ----------------------------
(***************************************************************************)
(* Automatic redemption of reset credits (reset_credits.go).  A worker in  *)
(* each loaded instance reads the list of cards, settles what the journal  *)
(* says about earlier attempts, and spends the earliest card: the attempt  *)
(* is journalled, the write is sent once, its outcome journalled, and the  *)
(* effect verified by another read.  Journal transactions run under the    *)
(* generation lock and only for the instance that owns the generation;     *)
(* the reads and the write do not, and what they found may be stale.       *)
(*                                                                         *)
(* Simplifications.  All credentials see the cards of one upstream         *)
(* account; which account key they journal under is KeyOf (the account ID, *)
(* or the auth index where none is known).  Cards are numbered in the      *)
(* order of expiry.  Whether the earliest card is due, supported and of    *)
(* use at present, whether the worker is still authorized, and whether a   *)
(* read fails are choices: each only ends the attempt.  An incomplete list *)
(* changes nothing and is not read at all.                                 *)
(***************************************************************************)
EXTENDS Integers, FiniteSets

CONSTANTS Instance,     \* loaded plugin instances
          Auth,         \* credentials
          Account,      \* keys of the journal
          KeyOf,        \* resetCreditAccount: [Auth -> Account]
          MaxCard,      \* cards 1..MaxCard, the earliest to expire first
          MaxAttempt,   \* bound: attempts ever reserved
          MaxBan,       \* bound: bans ever recorded
          Bannable,     \* bound: credentials that are banned at all
          Outcomes,     \* how a journal transaction may end
          NoAuth        \* no credential

ASSUME CreditAssumption ==
    /\ MaxCard \in Nat /\ MaxAttempt \in Nat /\ MaxBan \in Nat
    /\ KeyOf \in [Auth -> Account] /\ NoAuth \notin Auth /\ Bannable \subseteq Auth
    \* no effect; durable; or durable and reported as failed
    /\ Outcomes \subseteq {"ok", "failed", "unsure"}

Card == 1..MaxCard
Attempt == 1..MaxAttempt

VARIABLES
    cards,     \* upstream: [Card -> future, available or gone]
    handled,   \* upstream: writes it processed
    sent,      \* writes that were sent and may still arrive
    journal,   \* [reserved attempts -> record]
    next,      \* number of attempts reserved so far
    owner,     \* the instance whose journal transactions commit
    worker,    \* [Instance -> the worker's progress]
    ban,       \* [Auth -> the number of its quota ban, 0 for none]
    bans,      \* number of bans recorded so far
    written,   \* history: [attempts whose write was sent -> what it was sent for]
    verified   \* history: attempts once marked verified

upstream == <<cards, handled, sent>>
banStore == <<ban, bans>>
history == <<written, verified>>
vars == <<upstream, journal, next, owner, worker, banStore, history>>
-----------------------------------------------------------------------------
\* Where a worker is and what it carries along: the credential, the list it read
\* (seen), how many attempts were older than it (mark) and which were verified (old), the
\* card it is about to spend, the attempt, the ban it saw before, and as history the number of
\* bans recorded when the write was sent.
Idle == [at |-> "idle", auth |-> NoAuth, seen |-> {}, mark |-> 0, old |-> {}, card |-> 0,
         attempt |-> 0, ban |-> 0, bans |-> 0]

Available == {c \in Card : cards[c] = "available"}
Earliest(C) == CHOOSE c \in C : \A d \in C : c <= d

GoTo(i, w) == worker' = [worker EXCEPT ![i] = w]

\* withGenerationOwnerCommit: change is applied if i owns the generation and the file
\* can be written; ok and not tell how the worker goes on.
Commit(i, change, ok, not) ==
    \/ /\ owner = i
       /\ \E outcome \in Outcomes :
            /\ journal' = IF outcome = "failed" THEN journal ELSE change
            /\ GoTo(i, IF outcome = "ok" THEN ok ELSE not)
    \/ /\ owner # i
       /\ GoTo(i, not)
       /\ UNCHANGED journal

\* The entry of worker w's attempt, and a journal with it.
Entry(w, phase) == [account |-> KeyOf[w.auth], card |-> w.card,
                    before |-> Cardinality(w.seen), phase |-> phase]
Put(j, a, entry) == [b \in DOMAIN j \cup {a} |-> IF b = a THEN entry ELSE j[b]]

\* Mutant: entries that are still pending count as verified.
VerifiedUnlessUnknown(j) == {a \in DOMAIN j : j[a].phase # "unknown"}

Verified(j) == {a \in DOMAIN j : j[a].phase = "verified"}
-----------------------------------------------------------------------------
Init ==
    /\ cards \in [Card -> {"future", "available"}]
    /\ handled = {}
    /\ sent = {}
    /\ journal = <<>>
    /\ next = 0
    /\ owner \in Instance
    /\ worker = [i \in Instance |-> Idle]
    /\ ban = [a \in Auth |-> 0] /\ bans = 0
    /\ written = <<>> /\ verified = {}

\* refreshResetCredits: read the complete list with credential a.
ReadList(i, a) ==
    /\ worker[i].at = "idle"
    /\ GoTo(i, [Idle EXCEPT !.at = "listed", !.auth = a, !.seen = Available, !.mark = next,
                            !.old = Verified(journal)])
    /\ UNCHANGED <<upstream, journal, next, owner, banStore, history>>

\* Mutant: a shorter list settles a confirmed attempt, whatever card is gone.
SettledByCount(w) ==
    {a \in DOMAIN journal : /\ journal[a].account = KeyOf[w.auth]
                            /\ journal[a].phase = "confirmed"
                            /\ Cardinality(w.seen) < journal[a].before}

\* A confirmed attempt is settled by a later list that is shorter and lacks the card.
Settled(w) ==
    {a \in DOMAIN journal : /\ journal[a].account = KeyOf[w.auth]
                            /\ journal[a].phase = "confirmed"
                            /\ a <= w.mark
                            /\ Cardinality(w.seen) < journal[a].before
                            /\ journal[a].card \notin w.seen}

Unsettled(w) ==
    {a \in DOMAIN journal : /\ journal[a].account = KeyOf[w.auth]
                            /\ journal[a].phase # "verified"} \ Settled(w)

\* reconcileResetCreditAttempt
Reconcile(i) ==
    LET w == worker[i]
        settled == [a \in DOMAIN journal |->
                       IF a \in Settled(w) THEN [journal[a] EXCEPT !.phase = "verified"]
                       ELSE journal[a]]
        going == [w EXCEPT !.at = "clear", !.mark = 0]
    IN  /\ w.at = "listed"
        /\ Commit(i, settled, IF Unsettled(w) = {} /\ w.seen # {} THEN going ELSE Idle, Idle)
        /\ verified' = verified \cup Verified(journal')
        /\ UNCHANGED <<upstream, next, owner, banStore, written>>

\* The list read again has the same earliest card and the same count.
Unchanged(w) ==
    /\ Available # {}
    /\ Earliest(Available) = Earliest(w.seen)
    /\ Cardinality(Available) = Cardinality(w.seen)

\* maybeAutoUseResetCredit up to the second read; the ban is looked up before it.
Prepare(i) ==
    LET w == worker[i] IN
    /\ w.at = "clear"
    /\ \/ /\ Unchanged(w)
          /\ GoTo(i, [w EXCEPT !.at = "reserve", !.card = Earliest(w.seen), 
                             !.ban = ban[w.auth]])
       \/ GoTo(i, Idle)
    /\ UNCHANGED <<upstream, journal, next, owner, banStore, history>>

\* Mutant: only open attempts of the account count.
BlocksOpen(w, a) == journal[a].account = KeyOf[w.auth] /\ journal[a].phase # "verified"

\* An earlier attempt that forbids this one.  (That a verified one is less than a
\* minute old only delays and is left out.)
Blocks(w, a) ==
    \/ journal[a].card = w.card
    \/ journal[a].account = KeyOf[w.auth] /\ journal[a].phase # "verified"

\* Verified entries that may be older than ninety days: as a batch lasts half a minute,
\* each batch that has not reserved its attempt yet read the list after they were verified.
\* (An attempt is verified within ninety days or never.)
Aged == {a \in Verified(journal) :
            \A i \in Instance : worker[i].at \in {"listed", "clear", "reserve"}
                                  => a \in worker[i].old}

\* The attempt is journalled before anything is sent; aged entries are dropped.
Reserve(i) ==
    LET w == worker[i]
        a == next + 1
    IN  /\ w.at = "reserve"
        /\ \E old \in SUBSET Aged :
             LET kept == [b \in DOMAIN journal \ old |-> journal[b]] IN
             IF \E b \in DOMAIN kept : Blocks(w, b)
             THEN GoTo(i, Idle) /\ UNCHANGED <<journal, next>>
             ELSE /\ next < MaxAttempt
                  /\ next' = a
                  /\ Commit(i, Put(kept, a, Entry(w, "pending")),
                            [w EXCEPT !.at = "reserved", !.attempt = a, !.old = {}], Idle)
        /\ UNCHANGED <<upstream, owner, banStore, history>>

\* The write is sent, unless the worker lost its authorization meanwhile.
Post(i) ==
    LET w == worker[i] IN
    /\ w.at = "reserved"
    /\ \/ /\ sent' = sent \cup {w.attempt}
          /\ written' = Put(written, w.attempt, [card |-> w.card, account |-> KeyOf[w.auth]])
          /\ GoTo(i, [w EXCEPT !.at = "posted", !.bans = bans])
       \/ /\ GoTo(i, Idle)
          /\ UNCHANGED <<sent, written>>
    /\ UNCHANGED <<cards, handled, journal, next, owner, banStore, verified>>

\* External: the write arrives and spends a card the upstream selects.
Process(a) ==
    /\ a \in sent
    /\ sent' = sent \ {a}
    /\ handled' = handled \cup {a}
    /\ IF Available = {} THEN UNCHANGED cards
       ELSE \E c \in Available : cards' = [cards EXCEPT ![c] = "gone"]
    /\ UNCHANGED <<journal, next, owner, worker, banStore, history>>

\* The answer comes, or none: a timeout, a lost answer, a cancelled call, an unknown
\* code.  The outcome is journalled; an error of that is ignored.
Record(i) ==
    LET w == worker[i] IN
    /\ w.at = "posted"
    /\ \/ /\ w.attempt \in handled
          /\ LET on == [w EXCEPT !.at = "recorded"]
             IN  Commit(i, Put(journal, w.attempt, Entry(w, "confirmed")), on, on)
       \/ Commit(i, Put(journal, w.attempt, Entry(w, "unknown")), Idle, Idle)
    /\ UNCHANGED <<upstream, next, owner, banStore, history>>

\* The verifying read.
Verify(i) ==
    LET w == worker[i] IN
    /\ w.at = "recorded"
    /\ GoTo(i, IF Cardinality(Available) < Cardinality(w.seen) /\ w.card \notin Available
               THEN [w EXCEPT !.at = "gone"] ELSE Idle)
    /\ UNCHANGED <<upstream, journal, next, owner, banStore, history>>

\* The verified outcome is journalled.
Conclude(i) ==
    LET w == worker[i] IN
    /\ w.at = "gone"
    /\ Commit(i, Put(journal, w.attempt, Entry(w, "verified")), [w EXCEPT !.at = "recover"], Idle)
    /\ verified' = verified \cup Verified(journal')
    /\ UNCHANGED <<upstream, next, owner, banStore, written>>

\* verifyResetCreditQuotaRecovery: renewed quota was read and no other ban is found;
\* the host is asked to end its own cooldown.
Recover(i) ==
    LET w == worker[i] IN
    /\ w.at = "recover"
    /\ GoTo(i, IF ban[w.auth] \in {0, w.ban} THEN [w EXCEPT !.at = "lift"] ELSE Idle)
    /\ UNCHANGED <<upstream, journal, next, owner, banStore, history>>

\* Mutant: the credential's ban is lifted, whichever it is by now.
LiftsAny(w) == TRUE

\* Only the ban seen before the attempt is lifted.
Lifts(w) == w.ban # 0 /\ ban[w.auth] = w.ban

Lift(i) ==
    /\ worker[i].at = "lift"
    /\ ban' = IF Lifts(worker[i]) THEN [ban EXCEPT ![worker[i].auth] = 0] ELSE ban
    /\ GoTo(i, Idle)
    /\ UNCHANGED <<upstream, journal, next, owner, bans, history>>

\* A read fails, the worker is cancelled, or the process dies and is loaded again; a
\* write that was sent may still arrive.
Stop(i) ==
    /\ worker[i].at # "idle"
    /\ GoTo(i, Idle)
    /\ UNCHANGED <<upstream, journal, next, owner, banStore, history>>

\* Another generation is claimed, by any instance and whatever the workers do.
TakeOver(i) ==
    /\ owner # i
    /\ owner' = i
    /\ UNCHANGED <<upstream, journal, next, worker, banStore, history>>

\* External: a card is granted, or expires or is used by the user.
Grant(c) ==
    /\ cards[c] = "future"
    /\ cards' = [cards EXCEPT ![c] = "available"]
    /\ UNCHANGED <<handled, sent, journal, next, owner, worker, banStore, history>>
Vanish(c) ==
    /\ cards[c] = "available"
    /\ cards' = [cards EXCEPT ![c] = "gone"]
    /\ UNCHANGED <<handled, sent, journal, next, owner, worker, banStore, history>>

\* A 429 is recorded; a ban ends for other reasons.
Ban(a) ==
    /\ bans < MaxBan
    /\ bans' = bans + 1
    /\ ban' = [ban EXCEPT ![a] = bans + 1]
    /\ UNCHANGED <<upstream, journal, next, owner, worker, history>>
Unban(a) ==
    /\ ban[a] # 0
    /\ ban' = [ban EXCEPT ![a] = 0]
    /\ UNCHANGED <<upstream, journal, next, owner, worker, bans, history>>

Next ==
    \/ \E i \in Instance : \/ \E a \in Auth : ReadList(i, a)
                           \/ Reconcile(i) \/ Prepare(i) \/ Reserve(i) \/ Post(i)
                           \/ Record(i) \/ Verify(i) \/ Conclude(i) \/ Recover(i) \/ Lift(i)
                           \/ Stop(i) \/ TakeOver(i)
    \/ \E a \in Attempt : Process(a)
    \/ \E c \in Card : Grant(c) \/ Vanish(c)
    \/ \E a \in Bannable : Ban(a) \/ Unban(a)

Spec == Init /\ [][Next]_vars
-----------------------------------------------------------------------------
Entries == [account : Account, card : Card, before : Card,
            phase : {"pending", "unknown", "confirmed", "verified"}]
Workers == [at : {"idle", "listed", "clear", "reserve", "reserved", "posted",
                  "recorded", "gone", "recover", "lift"},
            auth : Auth \cup {NoAuth}, seen : SUBSET Card, mark : 0..MaxAttempt,
            old : SUBSET Attempt, card : 0..MaxCard, attempt : 0..MaxAttempt,
            ban : 0..MaxBan, bans : 0..MaxBan]

TypeOK ==
    /\ cards \in [Card -> {"future", "available", "gone"}]
    /\ handled \subseteq Attempt /\ sent \subseteq Attempt
    /\ DOMAIN journal \subseteq 1..next
    /\ \A a \in DOMAIN journal : journal[a] \in Entries
    /\ next \in 0..MaxAttempt /\ owner \in Instance
    /\ worker \in [Instance -> Workers]
    /\ ban \in [Auth -> 0..bans] /\ bans \in 0..MaxBan
    /\ DOMAIN written \subseteq 1..next /\ verified \subseteq DOMAIN written

\* The write to an account is sent once at a time and never again to the same card, over
\* lost answers, crashes, hand-overs, failed journal writes and entries dropped for their
\* age (reset_credits.go:501-502).
RW == INSTANCE RedemptionWrites WITH
          writes <- [a \in DOMAIN written |->
                        [card |-> written[a].card, account |-> written[a].account,
                         closed |-> a \in verified]]
WriteSpec == RW!Spec

\* What was verified has happened: the write has arrived, so that it cannot spend a card
\* later, and the card it was sent for is gone (reset_credits.go:399).
VerifiedWritesAreOver ==
    \A a \in verified : a \in handled /\ cards[written[a].card] = "gone"

\* A redemption ends no ban recorded after its write was sent: that ban says that the
\* renewed quota is used up again (reset_credits.go:596-598).
NewerBansStay ==
    [][\A i \in Instance : Lift(i) =>
          \A a \in Auth : ban'[a] # ban[a] => ban[a] <= worker[i].bans]_vars
=============================================================================
