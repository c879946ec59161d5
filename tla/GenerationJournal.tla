-------------------------- MODULE GenerationJournal -------------------------
(***************************************************************************)
(* updateSchedulerGenerationRecord (generation_owner.go:407-641): the      *)
(* generation record in a file of JSON lines under an operating-system     *)
(* lock.  GenerationOwner takes each call for one step; here is what the   *)
(* call does to the file, and what a death or an error in the middle of it *)
(* leaves for the next caller.                                             *)
(*                                                                         *)
(* Simplifications.  Of the record its two numbers are kept; owner and     *)
(* dates change nothing about the file.  The size of the file is counted   *)
(* in lines.  A process may die and a system call may fail anywhere; the   *)
(* machine does not lose power (all who know a ticket would be gone).      *)
(***************************************************************************)
EXTENDS Naturals, Sequences

CONSTANTS
    Caller,        \* calls at a time; each has its own descriptor of the lock file
    Torn,          \* a line that is only the beginning of a record
    Legacy,        \* journals an older version may have left
    CompactAt,     \* generationRecordCompactAt
    MaxLines,      \* generationRecordMaxBytes
    RecoveryMax,   \* generationRecordRecoveryMaxBytes
    MaxReserved    \* bound: the highest ticket

\* validateSchedulerGenerationRecord lets no other pass.
Record == {r \in [highest : Nat, active : Nat] : r.active <= r.highest}

ASSUME TornAssumption == Torn \notin Record
ASSUME SizeAssumption ==
    /\ CompactAt \in Nat \ {0} /\ MaxLines \in Nat /\ RecoveryMax \in Nat
    /\ CompactAt < MaxLines /\ MaxLines < RecoveryMax

VARIABLES
    file,          \* the lines of the journal, and whether the last has its newline
    worker         \* [Caller -> where the call is, and the record it holds]

journalVars == <<file, worker>>
-----------------------------------------------------------------------------
NoRecord == [highest |-> 0, active |-> 0]

Whole(f) == {k \in DOMAIN f.lines : f.lines[k] # Torn}
TornTail(f) == f.lines # <<>> /\ f.lines[Len(f.lines)] = Torn /\ ~f.ended

Latest(f) == IF Whole(f) = {} THEN NoRecord
             ELSE f.lines[CHOOSE k \in Whole(f) : \A j \in Whole(f) : j <= k]

\* The check against a journal that goes back.
NotBelow(r, s) == r.highest <= s.highest /\ r.active <= s.active

\* readSchedulerGenerationRecordLocked gives up: too long, a line that is no record other
\* than an unfinished last one, a record that falls behind, or no record at all.
Unreadable(f) ==
    \/ Len(f.lines) > RecoveryMax
    \/ \E k \in DOMAIN f.lines \ Whole(f) : k # Len(f.lines) \/ f.ended
    \/ \E j, k \in Whole(f) : j < k /\ ~NotBelow(f.lines[j], f.lines[k])
    \/ f.lines # <<>> /\ Whole(f) = {}

Journals == [lines : Seq(Record \cup {Torn}), ended : BOOLEAN]
ASSUME LegacyAssumption == \A f \in Legacy : f \in Journals /\ ~Unreadable(f)

LatestEnded(f) ==
    LET ended == {k \in Whole(f) : k < Len(f.lines) \/ f.ended} IN
    IF ended = {} THEN NoRecord
    ELSE f.lines[CHOOSE k \in ended : \A j \in ended : j <= k]

\* What the callbacks make of a record: a reservation, a claim of the newest ticket, or a
\* tombstone, which repeats the numbers.
Change ==
    {p \in Record \X Record :
        \/ p[2] = [p[1] EXCEPT !.highest = @ + 1]
        \/ p[1].active < p[1].highest /\ p[2] = [p[1] EXCEPT !.active = p[1].highest]
        \/ p[2] = p[1]}

Changed(r) ==
    (IF r.highest < MaxReserved THEN {[r EXCEPT !.highest = @ + 1]} ELSE {})
    \cup (IF r.active < r.highest THEN {[r EXCEPT !.active = r.highest]} ELSE {})
    \cup {r}

Outside == {"over", "waiting", "answered"}
Before == {"reading", "compacting", "updating", "separating", "appending", "prefix"}
Done == {"read", "object", "written"}

GoTo(c, at, r) == worker' = [worker EXCEPT ![c] = [at |-> at, rec |-> r]]
-----------------------------------------------------------------------------
JournalInit ==
    /\ file \in {[lines |-> <<>>, ended |-> TRUE]} \cup Legacy
    /\ worker = [c \in Caller |-> [at |-> "over", rec |-> NoRecord]]

Begin(c) ==
    /\ worker[c].at \in {"over", "answered"}
    /\ GoTo(c, "waiting", NoRecord)
    /\ UNCHANGED file

Lock(c) ==
    /\ worker[c].at = "waiting"
    /\ \A d \in Caller : worker[d].at \in Outside
    /\ GoTo(c, "reading", NoRecord)
    /\ UNCHANGED file

\* Mutants: a torn tail alone is no reason to compact; only what has its newline counts.
ReadAsItIs(c) ==
    /\ worker[c].at = "reading"
    /\ ~Unreadable(file)
    /\ GoTo(c, IF Len(file.lines) >= CompactAt THEN "compacting" ELSE "updating", Latest(file))
    /\ UNCHANGED file

ReadEnded(c) ==
    /\ worker[c].at = "reading"
    /\ ~Unreadable(file)
    /\ GoTo(c, IF ~file.ended \/ Len(file.lines) >= CompactAt THEN "compacting" ELSE "updating",
            LatestEnded(file))
    /\ UNCHANGED file

ReadRecord(c) ==
    /\ worker[c].at = "reading"
    /\ ~Unreadable(file)
    /\ GoTo(c, IF TornTail(file) \/ Len(file.lines) >= CompactAt THEN "compacting" ELSE "updating",
            Latest(file))
    /\ UNCHANGED file

\* The record goes to a file of its own that replaces the journal.
Compact(c) ==
    /\ worker[c].at = "compacting"
    /\ file' = [lines |-> <<worker[c].rec>>, ended |-> TRUE]
    /\ GoTo(c, "updating", worker[c].rec)

\* The callback looks only, or wants its change written.
Update(c) ==
    /\ worker[c].at = "updating"
    /\ \/ GoTo(c, "read", worker[c].rec)
       \/ \E r \in Changed(worker[c].rec) : GoTo(c, "separating", r)
    /\ UNCHANGED file

\* appendSchedulerGenerationRecordLocked: a newline first if the last line has none.
Separate(c) ==
    /\ worker[c].at = "separating"
    /\ Len(file.lines) < MaxLines
    /\ file' = [file EXCEPT !.ended = TRUE]
    /\ GoTo(c, "appending", worker[c].rec)

WritePrefix(c) ==
    /\ worker[c].at = "appending"
    /\ file' = [lines |-> Append(file.lines, Torn), ended |-> FALSE]
    /\ GoTo(c, "prefix", worker[c].rec)

WriteObject(c) ==
    /\ worker[c].at = "prefix"
    /\ file' = [file EXCEPT !.lines[Len(file.lines)] = worker[c].rec]
    /\ GoTo(c, "object", worker[c].rec)

WriteNewline(c) ==
    /\ worker[c].at = "object"
    /\ file' = [file EXCEPT !.ended = TRUE]
    /\ GoTo(c, "written", worker[c].rec)

\* The file is synced, the lock dropped, the record returned.
Finish(c) ==
    /\ worker[c].at \in {"read", "written"}
    /\ GoTo(c, "answered", worker[c].rec)
    /\ UNCHANGED file

\* The lock stays busy for two seconds, the read or a system call fails, or the process
\* dies; the lock is dropped and what was written stays.
Abandon(c) ==
    /\ worker[c].at \notin {"over", "answered"}
    /\ GoTo(c, "over", NoRecord)
    /\ UNCHANGED file

JournalNext ==
    \E c \in Caller :
        \/ Begin(c) \/ Lock(c) \/ ReadRecord(c) \/ Compact(c) \/ Update(c)
        \/ Separate(c) \/ WritePrefix(c) \/ WriteObject(c) \/ WriteNewline(c)
        \/ Finish(c) \/ Abandon(c)

JournalSpec == JournalInit /\ [][JournalNext]_journalVars
-----------------------------------------------------------------------------
JournalTypeOK ==
    /\ file \in Journals
    /\ worker \in [Caller -> [at : Outside \cup Before \cup Done, rec : Record]]

\* Whatever dies or fails in whatever call, once a record was written a later caller can read
\* the journal, and an append always finds room (generation_owner.go:458-460, 528-530).
JournalRecovers ==
    Whole(file) # {} =>
        /\ ~Unreadable(file)
        /\ \A c \in Caller : worker[c].at = "separating" => Len(file.lines) < MaxLines

\* What the record's specification sees of a call.
Stage(at) == IF at \in Done THEN "done" ELSE IF at \in {"answered", "over"} THEN at ELSE "open"
Seen(w) == [at |-> Stage(w.at),
            got |-> IF Stage(w.at) \in {"done", "answered"} THEN w.rec ELSE Torn]

\* A call takes effect on the record at once or not at all, and no answer is ever taken back:
\* a ticket that was told is not handed out again (generation_owner.go:404-406).
GR == INSTANCE GenerationRecord WITH
          record <- Latest(file),
          call <- [c \in Caller |-> Seen(worker[c])],
          Nothing <- Torn
RecordSpec == GR!Spec
=============================================================================
