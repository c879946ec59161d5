-------------------------- MODULE GenerationRecord --------------------------
(***************************************************************************)
(* What a call of updateSchedulerGenerationRecord promises: it takes       *)
(* effect on the generation record at once, or not at all, and if it is    *)
(* answered then with the record it left behind.  A call that fails or     *)
(* dies may have taken effect or not; nobody is told.  This is the register *)
(* GenerationOwner assumes; GenerationJournal implements it in a file.     *)
(***************************************************************************)
CONSTANTS Caller, Record,
          Change,        \* pairs of a record and one an update makes of it
          Nothing        \* the answer of a call that has none

VARIABLES record,
          call           \* [Caller -> what became of its latest call]

Init ==
    /\ record \in Record
    /\ call = [c \in Caller |-> [at |-> "over", got |-> Nothing]]

Begin(c) ==
    /\ call[c].at \in {"over", "answered"}
    /\ call' = [call EXCEPT ![c] = [at |-> "open", got |-> Nothing]]
    /\ UNCHANGED record

\* Nobody else's call comes between the record a call reads and the one it leaves.
TakeEffect(c) ==
    /\ call[c].at = "open"
    /\ record' = record \/ <<record, record'>> \in Change
    /\ call' = [call EXCEPT ![c] = [at |-> "done", got |-> record']]

Answer(c) ==
    /\ call[c].at = "done"
    /\ call' = [call EXCEPT ![c].at = "answered"]
    /\ UNCHANGED record

\* The call fails, or its process dies.
Abandon(c) ==
    /\ call' = [call EXCEPT ![c] = [at |-> "over", got |-> Nothing]]
    /\ UNCHANGED record

Next == \E c \in Caller : Begin(c) \/ TakeEffect(c) \/ Answer(c) \/ Abandon(c)

Spec == Init /\ [][Next]_<<record, call>>
=============================================================================
