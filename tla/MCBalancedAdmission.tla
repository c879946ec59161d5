------------------------- MODULE MCBalancedAdmission -------------------------
(* Instance of BalancedAdmission for TLC. *)
EXTENDS BalancedAdmission, TLC

CONSTANTS r1, r2, s1, s2, c1, c2

MCRequest == {r1, r2}
MCSession == {s1, s2}
MCCredential == {c1, c2}

MCLayersOf == [c \in MCCredential |-> {"weekly"}]

\* A late start leaves no time to pass when one credential has not been read.
MCStarts == {[clock |-> 0, unread |-> {}]} \cup {[clock |-> 2, unread |-> {c}] : c \in MCCredential}

MCSymmetry == Permutations(MCRequest) \cup Permutations(MCSession) \cup Permutations(MCCredential)
=============================================================================
