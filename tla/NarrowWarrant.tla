--------------------------- MODULE NarrowWarrant ---------------------------
(***************************************************************************)
(* A warrant lets an agent spend up to a cap until a time.  Its holder may *)
(* hand it on with a hop, which names the next agent and may only lower    *)
(* both; the service verifies the chain of hops when a spend presents it.  *)
(* Nothing is signed: a warrant is what its presenter sends.               *)
(*                                                                         *)
(* One warrant, on its way from agent to agent.                            *)
(***************************************************************************)
EXTENDS Integers, Sequences

CONSTANTS
  Agents,
  MaxCents, MaxUntil,  \* bounds: caps and costs, and times
  MaxHops,             \* bound: hops of a warrant
  None

VARIABLES
  issued,   \* the lab issued it; otherwise somebody else wrote it
  chain,    \* its authority, then its hops
  now,
  spend     \* the spend of the last step, if it made one: [by, cost]

warrant == <<issued, chain, now, spend>>

Costs == 0..MaxCents
Bodies == [agent : Agents, cents : Costs, until : 1..MaxUntil]

Last(w) == w[Len(w)]

-----------------------------------------------------------------------------

\* The two refusals of attenuate, which verifyWarrant repeats for each hop.
Narrows(prev, hop) == hop.cents <= prev.cents /\ hop.until <= prev.until

IssueWarrant(authority) == issued = TRUE /\ chain = <<authority>>

\* What parseWarrant takes: bodies of the right shape, in any order.
ParseWarrant(w) == issued = FALSE /\ chain = w

\* Mutant: a hop may extend the time.
AttenuateLonger(hop) ==
  /\ Len(chain) <= MaxHops
  /\ hop.cents <= Last(chain).cents
  /\ chain' = Append(chain, hop) /\ spend' = None
  /\ UNCHANGED <<issued, now>>

Attenuate(hop) ==
  /\ Len(chain) <= MaxHops
  /\ Narrows(Last(chain), hop)
  /\ chain' = Append(chain, hop) /\ spend' = None
  /\ UNCHANGED <<issued, now>>

VerifyWarrant(w) ==
  /\ \A i \in 2..Len(w) : Narrows(w[i - 1], w[i])
  /\ now < Last(w).until

\* POST /api/credits/spend with a warrant: the last hop names the spender.
SpendByWarrant(by, cost) ==
  /\ VerifyWarrant(chain)
  /\ Last(chain).agent = by /\ cost <= Last(chain).cents
  /\ spend' = [by |-> by, cost |-> cost]
  /\ UNCHANGED <<issued, chain, now>>

Later ==
  /\ now < MaxUntil /\ now' = now + 1 /\ spend' = None
  /\ UNCHANGED <<issued, chain>>

\* A spend that is refused.
RefuseWarrant == spend' = None /\ UNCHANGED <<issued, chain, now>>

-----------------------------------------------------------------------------

Init ==
  /\ \/ \E authority \in Bodies : IssueWarrant(authority)
     \/ \E authority, hop \in Bodies : ParseWarrant(<<authority, hop>>)
  /\ now = 0 /\ spend = None

Next ==
  \/ \E hop \in Bodies : Attenuate(hop)
  \/ \E by \in Agents, cost \in Costs : SpendByWarrant(by, cost)
  \/ Later
  \/ RefuseWarrant

Spec == Init /\ [][Next]_warrant

-----------------------------------------------------------------------------

TypeOK ==
  /\ issued \in BOOLEAN /\ now \in Nat
  /\ chain \in Seq(Bodies) /\ chain # <<>>
  /\ spend \in [by : Agents, cost : Costs] \cup {None}

\* What the lab issued is no wider at any hop than at any hop before it,
\* however often and by whomever it was handed on (narrow.ts attenuate).
OnlyShrinks ==
  issued => \A i, j \in DOMAIN chain : i <= j => Narrows(chain[i], chain[j])

\* A spend is within the cap and the time of every body of the chain, the
\* authority's included, whoever wrote it (narrow.ts verifyWarrant).
WithinEveryHop ==
  spend # None =>
    /\ spend.by = Last(chain).agent
    /\ \A i \in DOMAIN chain : spend.cost <= chain[i].cents /\ now < chain[i].until

WarrantHolds == OnlyShrinks /\ WithinEveryHop
=============================================================================
