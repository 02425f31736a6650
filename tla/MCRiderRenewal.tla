--------------------------- MODULE MCRiderRenewal ---------------------------
(* RiderRenewal on small sets. *)
EXTENDS RiderRenewal, TLC

CONSTANTS a1, a2, t1, t2, t3, c1, c2, i1, i2

\* Tokens, chains and invocations are random identifiers: all alike.
Alike == Permutations({t1, t2, t3}) \cup Permutations({c1, c2})
         \cup Permutations({i1, i2})
=============================================================================
