------------------------- MODULE MCGenerationJournal ------------------------
(* Instance of GenerationJournal for TLC. *)
EXTENDS GenerationJournal, TLC

R(h, a) == [highest |-> h, active |-> a]

\* A journal an older version let grow past every limit but the last.
MCLegacy == {[lines |-> <<R(0, 0), R(1, 0), R(1, 1), R(1, 1), R(2, 1)>>, ended |-> TRUE],
             [lines |-> <<R(1, 0), R(1, 1), Torn>>, ended |-> FALSE]}

Callers == Permutations(Caller)
=============================================================================
