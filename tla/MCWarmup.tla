------------------------------ MODULE MCWarmup ------------------------------
(* Instance of Warmup for TLC: two instances, a weekly and a five-hour window. *)
EXTENDS Warmup, TLC

CONSTANTS i1, i2

MCInstance == {i1, i2}
MCWindow == {"weekly", "5h"}
MCRank == ("weekly" :> 1) @@ ("5h" :> 2)
MCLength == ("weekly" :> 3) @@ ("5h" :> 2)

MCSymmetry == Permutations(MCInstance)
=============================================================================
