------------------------------- MODULE Economy -------------------------------
(***************************************************************************)
(* The credit ledger, the fulfilment of subscriptions and what agents do   *)
(* together, one of them: they share no row.  part, chosen at the start,   *)
(* says which runs.                                                        *)
(***************************************************************************)
EXTENDS Integers, FiniteSets

CONSTANTS
  None,
  Participants, Poster, Starts, Crowd, Invocations, Code, MaxRedemptions, MaxReferrals,
  Events, Bought, Credit, Amounts, Services, Units, WarrantCaps, MaxCalls,  \* CreditLedger
  Subscriptions, Promotes, Capabilities, MaxWork,                \* Fulfilment
  Agents, Author, Mates, Roster, StakeAmounts, McpAmounts, Ratings, ThreadLimit,
  Present, MaxBegun,                                             \* Commons
  Workers                                                        \* the last two

\* No balance starts below zero, prices and what may be transferred are numbers
\* above it, units may be any number, the tags of the ledger are no ids, and None is no row.
ASSUME LedgerConstants ==
  /\ IsFiniteSet(Participants) /\ Poster \in Participants /\ Code \notin Participants
  /\ IsFiniteSet(Invocations)
  /\ \A start \in Starts : start \in [Participants -> Nat \cup {None}]
  /\ Crowd \in Nat /\ MaxRedemptions \in Nat /\ MaxReferrals \in Nat
  /\ Credit \in Nat \ {0} /\ Amounts \subseteq Nat \ {0} /\ Units \subseteq Int
  /\ \A e \in Events : Bought[e].who \in Participants /\ Bought[e].cents \in Nat
  /\ Services \subseteq {"search", "analyze", "generate", "export", "priority", "hop"}
  /\ LET tags == {"transfer_in", "transfer_out", "spend", "escrow", "topup", "bonus", "code"}
     IN /\ tags \cap (Participants \cup Events \cup {None}) = {}
        /\ Events \cap (Participants \cup {None}) = {}
  /\ None \notin Int \cup Participants
  /\ None \notin [credits : Int, home : {"db", "disk"}, by : Participants \cup {None},
                  referrals : Nat, comped : {"never", "now", "past"}, compedReferrals : Nat]

\* A subscription promotes a capability or none; None is neither, nor a key.
ASSUME FulfilmentConstants ==
  /\ \A s \in Subscriptions : Promotes[s] \in Capabilities \cup {None}
  /\ None \notin Subscriptions \cup Capabilities \cup Nat

\* Who talks are finitely many, the author is not alone, a stake by the route
\* and a rating take something.
ASSUME CommonsConstants ==
  /\ IsFiniteSet(Agents) /\ Author \in Agents /\ Agents # {Author} /\ Roster \subseteq Agents
  /\ IsFiniteSet(Workers)
  /\ StakeAmounts \subseteq Nat /\ McpAmounts \subseteq Int /\ Ratings \subseteq Nat \ {0}
  /\ ThreadLimit \in Nat /\ None \notin Nat

VARIABLES part,
  quiet, row, redemptions, claimed, busy, todo, calls, issued, spent, made, paid, grants,
  uncounted, dropped,
  apart, open, key, minted, handed, cancelled, events, promoted, work, started,
  corner, overlap, trouble, job, begun, likes, likesCount, comments, commentsCount, follows,
  owed, told, unread, messages, shown, stakes, scores, confidence, debited, resolved, tool,
  installed, private, answers, answered, outcome

ledger == <<quiet, row, redemptions, claimed, busy, todo, calls,
            issued, spent, made, paid, grants, uncounted, dropped>>
fulfilment == <<apart, open, key, minted, handed, cancelled, events, promoted, work, started>>
commons ==
  <<corner, overlap, trouble, job, begun, likes, likesCount, comments, commentsCount, follows,
    owed, told, unread, messages, shown, stakes, scores, confidence, debited, resolved, tool,
    installed, private, answers, answered, outcome>>
vars == <<part, ledger, fulfilment, commons>>

L == INSTANCE CreditLedger
F == INSTANCE Fulfilment
A == INSTANCE Commons WITH calls <- begun

\* None is neither a stake nor a call.
ASSUME NoneIsNoCall == None \notin A!Stakes \cup A!Calls

Init ==
  /\ part \in {"ledger", "fulfilment", "commons"} /\ L!Init /\ F!Init /\ A!Init
  /\ part # "fulfilment" => apart = {}
  /\ part # "ledger" => quiet = {} /\ redemptions = 0 /\ ~L!Registered(Poster)
  /\ part # "commons" => corner = "feed" /\ overlap = "any" /\ trouble

Next ==
  \/ part = "ledger" /\ L!Next /\ UNCHANGED <<part, fulfilment, commons>>
  \/ part = "fulfilment" /\ F!Next /\ UNCHANGED <<part, ledger, commons>>
  \/ part = "commons" /\ A!Next /\ UNCHANGED <<part, ledger, fulfilment>>

Spec == Init /\ [][Next]_vars

\* Rows, jobs and steps have the shapes the handlers of the credit routes, the
\* webhook, /api/provision, and of posts, threads and claims read and write.
Types == L!TypeOK /\ F!TypeOK /\ A!TypeOK

\* Nothing makes credits but what issues them and spends of a negative number of
\* units, none are lost and no balance is overdrawn, where calls about one
\* participant do not overlap (credits.ts, agents.ts adjustCredits).
Conserved == L!Conserved

\* However often Stripe delivers a purchase it is credited at most once
\* (webhook/stripe/route.ts claimEvent).
PurchaseOnce == L!PurchaseOnce

\* The caps of the code and of its referrers hold, but for comps whose count
\* failed (promo.ts).
CapHeld == L!CapHeld

\* A merchant key handed out is the one Stripe holds, and a capability is
\* promoted only while it is paid for (provision/route.ts, capabilities.ts
\* setCapabilityPromotion, webhook/stripe/route.ts).
SubscriptionsHold == F!KeyStands /\ F!PlacementIsPaid

\* Counters, badges, confidences and ratings agree with the rows they are kept
\* beside, as far as one call's statements keep them (social.ts, channels.ts,
\* reputation.ts, marketplace.ts, comms.ts).
CountsMatch == A!CountsMatch

\* Two concurrent resolutions of a claim apply once: the race apply_resolution
\* is said to avoid (reputation.ts resolveClaim, schema.sql apply_resolution).
ResolvedOnce == A!ResolvedOnce
=============================================================================
