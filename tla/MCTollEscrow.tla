---------------------------- MODULE MCTollEscrow ----------------------------
(* TollEscrow on small sets. *)
EXTENDS TollEscrow, TLC

CONSTANTS e1, e2, i1, i2, i3, d1, d2, h1, h2, h3, j1, j2, a1, a2, w1, w2

\* d1 covers either amount, d2 only the smaller.
MCPaid == (d1 :> 250) @@ (d2 :> 100)
OnePaid == d1 :> 250

\* Two spellings of the hash of d1.
MCDepositOf == (h1 :> d1) @@ (h2 :> d1) @@ (h3 :> d2)
OneDepositOf == h1 :> d1

\* The CHECK constraint schema.sql declares, and one that also admits the
\* status the release handler writes.
RepoStatusCheck == {"locked", "released", "refunded", "timed_out"}
WideStatusCheck == RepoStatusCheck \cup {"releasing"}

\* Receipts: delivered, failed and, for the other agent, delivered.
Receipt(j, a, ok) == [job |-> j, agent |-> a, deliveredOk |-> ok]
OneDelivered == {Receipt(j1, a1, TRUE)}
FailedThenDelivered == {Receipt(j1, a1, FALSE), Receipt(j1, a1, TRUE)}

Interchangeable ==
  Permutations({i1, i2}) \cup Permutations({e1, e2}) \cup Permutations({h1, h2})
=============================================================================
