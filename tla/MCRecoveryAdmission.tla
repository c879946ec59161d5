------------------------ MODULE MCRecoveryAdmission -------------------------
EXTENDS RecoveryAdmission, TLC

CONSTANTS r1, r2, c1, c2

Requests == Permutations(Request)
=============================================================================
