------------------------- MODULE MCContinuityPacing -------------------------
EXTENDS ContinuityPacing, TLC

CONSTANTS r1, r2, c1, c2

Window(t) == [index |-> 1, reset |-> t, weeklyOnly |-> FALSE]

\* c1 rolls over to a new window, c2 stays in its cycle.
Rolling == c1 :> {Window(1), Window(3)} @@ c2 :> {Window(1)}

\* Two models: one that only c1 serves, one that both serve.
Overlapping == {{c1}, {c1, c2}}

Requests == Permutations(Request)
=============================================================================
