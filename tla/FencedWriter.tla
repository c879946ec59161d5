---------------------------- MODULE FencedWriter ----------------------------
(***************************************************************************)
(* What the generation journal promises to everyone who shares state_path: *)
(* a document that only the holder of the newest granted ticket may        *)
(* replace.  Tickets are handed out in increasing order, a grant goes to   *)
(* the newest ticket only, and a surrendered grant never comes back.       *)
(* GenerationOwner implements this specification.                          *)
(***************************************************************************)
EXTENDS Naturals

CONSTANT Document          \* the contents the shared document can have

VARIABLES issued,          \* the newest ticket handed out
          grant,           \* the ticket granted last, 0 before the first grant
          live,            \* that grant has not been surrendered
          writer,          \* the ticket under which the document was last replaced
          document         \* the shared document

avars == <<issued, grant, live, writer, document>>

Init ==
    /\ issued = 0
    /\ grant = 0
    /\ live = FALSE
    /\ writer = 0
    /\ document \in Document

Issue ==
    /\ issued' = issued + 1
    /\ UNCHANGED <<grant, live, writer, document>>

\* Only the newest ticket is ever granted, and only past the previous grant.
Grant ==
    /\ grant < issued
    /\ grant' = issued
    /\ live' = TRUE
    /\ UNCHANGED <<issued, writer, document>>

Surrender ==
    /\ live
    /\ live' = FALSE
    /\ UNCHANGED <<issued, grant, writer, document>>

Write ==
    /\ live
    /\ writer' = grant
    /\ document' \in Document
    /\ UNCHANGED <<issued, grant, live>>

Next == Issue \/ Grant \/ Surrender \/ Write

Spec == Init /\ [][Next]_avars
=============================================================================
