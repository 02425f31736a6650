----------------------------- MODULE MCTollBonds -----------------------------
(* TollBonds on small sets. *)
EXTENDS TollBonds, TLC

CONSTANTS b1, b2, i1, i2, d1, h1, h2, w1, w2

\* d1 covers exactly a bond of 100 and its fee.
MCPaid == d1 :> 101

\* Two spellings of its hash.
MCDepositOf == (h1 :> d1) @@ (h2 :> d1)
OneDepositOf == h1 :> d1

Dispute == "dispute_upheld"
Timeout == "timeout_default"
MCTriggers == {Dispute, Timeout}

Offer(amount, terms) == [amount |-> amount, terms |-> terms]
MostOnDispute == Dispute :> 90
NearlyOnDispute == Dispute :> 99
AllOnTimeout == Timeout :> 100

\* 90% of 20 leaves 2, then 1, then nothing to slash; 20 has no fee either.
\* 99% of 100 leaves 1 at once.
MCOffers == {Offer(20, MostOnDispute), Offer(100, NearlyOnDispute @@ AllOnTimeout)}
OneOldOffer == {Offer(20, MostOnDispute)}
HalfOffers == {Offer(100, Dispute :> 50)}

Seal(b, on, w) == [bond |-> b, attests |-> on, payTo |-> w]
DisputeSealed == {Seal(b1, Dispute, None)}
BothSealed == {Seal(b1, Dispute, None), Seal(b1, Timeout, w1)}

Interchangeable == Permutations({i1, i2}) \cup Permutations({h1, h2})
=============================================================================
