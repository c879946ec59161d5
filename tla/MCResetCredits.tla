--------------------------- MODULE MCResetCredits ---------------------------
(* Instance of ResetCredits for TLC. *)
EXTENDS ResetCredits, TLC

CONSTANTS i1, i2, a1, a2, k1, k2

MCInstance == {i1, i2}
MCAuth == {a1, a2}
MCAccount == {k1, k2}
\* One credential's account ID is known, the other's is not.
MCKeyOf == (a1 :> k1) @@ (a2 :> k2)
MCBannable == {a1}
MCOutcomes == {"ok", "failed", "unsure"}

MCSymmetry == Permutations(MCInstance)
=============================================================================
