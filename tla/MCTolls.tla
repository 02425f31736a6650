------------------------------- MODULE MCTolls -------------------------------
(* Tolls on small sets. *)
EXTENDS Tolls, TLC

CONSTANTS merchant, agent, w1, w2, g1, p1, p2, d1, d2, r1, r2, sb

\* A cap for one spend of the two that may be asked for.
MCTerms == g1 :> [scope |-> {"pay"}, cap |-> 2, from |-> 0, until |-> 1]
MCWorth == p1 :> 1 @@ p2 :> 2
\* One that rolls over, and a newer one for a job of one category.
MCBudgets == <<[cap |-> 2, secs |-> 2, categories |-> {}],
               [cap |-> 1, secs |-> None, categories |-> {"x"}]>>

\* Two riders of one agent, one with every scope and a short life, one of the
\* highest tier; and a rider of the sandbox key.
MCClaims ==
  r1 :> [agent |-> agent, level |-> 1, scopes |-> {<<"*">>}, sandbox |-> FALSE, exp |-> 1]
  @@ r2 :> [agent |-> agent, level |-> 3, scopes |-> {<<"dm", "*">>, <<"claims", "resolve">>},
            sandbox |-> FALSE, exp |-> 99]
  @@ sb :> [agent |-> "rider-sandbox", level |-> 1, sandbox |-> TRUE, exp |-> 1,
            scopes |-> {<<"sandbox">>}
                         \cup ({"credits", "dm", "tasks", "notifications"} \X {"read"})]
\* The limits are about two calls; without a limit one call shows as much.
MCMaxCalls ==
  [at \in {"list", "writes", "dm", "buy", None} |->
     CASE at = "list" -> 0 [] at = None -> 1 [] OTHER -> 2]

\* Nothing is asked, too little, and what p2 is worth.
MCHopAmounts == {-1, 0, 2}
MCWindowLimits == [writes |-> 1, dm |-> 1, buy |-> 1]

Symmetry == Permutations({w1, w2}) \cup Permutations({d1, d2})
=============================================================================
