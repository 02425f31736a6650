------------------------------ MODULE MCEconomy ------------------------------
(* The economy on small sets. *)
EXTENDS Economy, TLC

CONSTANTS a, b, c, n1, n2, e1, i1, i2, s1, s2, c1

\* In halves of a credit.
MCStarts == {(a :> 20) @@ (n1 :> None) @@ (n2 :> None) @@ (Poster :> p) : p \in {90, None}}
\* One unit, and half a unit less than none.
MCUnits == {-1, 2}
MCBought == (e1 :> [who |-> a, cents |-> 100])
\* All kept apart, or nothing.
MCMaxCalls == (Participants \cup {Code} :> 2) @@ ({} :> 2)
MCPromotes == (s1 :> None) @@ (s2 :> c1)
MCMcpAmounts == {-2}
\* Two agents stake or install, one of them the author: a third does as they do.
MCPresent ==
  [at \in {"feed", "channels", "threads", "claims", "market", "queries"} |->
     IF at \in {"claims", "market"} THEN {a, b} ELSE {a, b, c}]

\* Newcomers to the ledger are alike, and so are invocations.
Symmetry == Permutations({i1, i2}) \cup Permutations({n1, n2})
=============================================================================
