---------------------------- MODULE MCQuotaEpoch ----------------------------
(* Instance of QuotaEpoch for TLC. *)
EXTENDS QuotaEpoch, TLC

CONSTANTS c1, c2

MCCredential == {c1, c2}
MCSymmetry == Permutations(MCCredential)
=============================================================================
