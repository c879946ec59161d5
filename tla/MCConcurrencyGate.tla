-------------------------- MODULE MCConcurrencyGate -------------------------
EXTENDS ConcurrencyGate, TLC

\* Two credentials the callers always name alike.
TwoCredentials == {{1}, {2}}

\* One credential, known by its file name, its index, and then both.
OneCredential == {{1}, {2}, {1, 2}}

OnlyOne == {[enforced |-> TRUE, limit |-> 1]}
OneThenTwo == {[enforced |-> TRUE, limit |-> 1], [enforced |-> TRUE, limit |-> 2]}
Switched == {[enforced |-> TRUE, limit |-> 1], [enforced |-> FALSE, limit |-> 1]}

Requests == Permutations(Request)
=============================================================================
