-------------------------- MODULE RedemptionWrites ---------------------------
(***************************************************************************)
(* What automatic redemption of reset credits promises                     *)
(* (reset_credits.go:501-502 "Reserve BEFORE dispatch.  No automatic POST  *)
(* retry"): a card is the target of one write for ever, and as long as an  *)
(* account has a write whose outcome is open, it gets no other.            *)
(***************************************************************************)
CONSTANTS Card, Account,
          Attempt      \* what tells one write from another

VARIABLE writes        \* [attempts whose write was sent -> what it was sent for]

Write == [card : Card, account : Account, closed : BOOLEAN]

Open(k) == {n \in DOMAIN writes : writes[n].account = k /\ ~writes[n].closed}
-----------------------------------------------------------------------------
Init == writes \in [{} -> Write]

\* The request that consumes a card is sent.
Send(n, c, k) ==
    /\ n \notin DOMAIN writes
    /\ \A m \in DOMAIN writes : writes[m].card # c
    /\ Open(k) = {}
    /\ writes' = [m \in DOMAIN writes \cup {n} |->
                     IF m = n THEN [card |-> c, account |-> k, closed |-> FALSE]
                     ELSE writes[m]]

\* Its effect has been seen.
Close(n) ==
    /\ ~writes[n].closed
    /\ writes' = [writes EXCEPT ![n].closed = TRUE]

Next ==
    \/ \E n \in Attempt, c \in Card, k \in Account : Send(n, c, k)
    \/ \E n \in DOMAIN writes : Close(n)

Spec == Init /\ [][Next]_writes
=============================================================================
