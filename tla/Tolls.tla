-------------------------------- MODULE Tolls --------------------------------
(***************************************************************************)
(* The metered routes, delegation grants, hop settlement, the escrow       *)
(* plans, riders at the gate, the messaging client, the CuNi registry,     *)
(* spending warrants and agents under many ids, each on its own: they      *)
(* share no row.  part, chosen at the start, says which runs; the escrow   *)
(* of the plans and their budget are two.                                  *)
(***************************************************************************)
EXTENDS Integers, Sequences, FiniteSets

CONSTANTS
  Workers, None,
  Payers, Customers, FreeCalls, Months, MaxCalls,                \* TollCalls
  Grants, Terms, Actions, Amounts, SigningKeys, FirstKey, MaxAge, MaxChecks, \* Delegation
  Payments, Worth, Funded, HopAmounts, MaxHops,                  \* HopSettle
  LockAmounts, Partials, DisputeFee, Disputes, Budgets, Categories, Charges, MaxClock,
                                                                 \* EscrowPlans
  Riders, Claims, WindowLimits, ListLimit, Stale, DoorCalls,     \* Passport
  MaxTime,                                                       \* and Delegation
  Ttls, MaxTtl, Margin, MaxSeconds,                              \* RiderClient
  Hashes, Processes, First, MaxMinted,                           \* CuniRegistry
  Spenders, MaxCents, MaxUntil, MaxNarrowings,                   \* NarrowWarrant
  AgentIds, MaxAliases, RegisteredIds, Walkers, MaxRemints, MaxDms \* Aliases

\* Invocations are finitely many, months begin, a customer may pay, and None is
\* no payer.
ASSUME CallConstants ==
  /\ IsFiniteSet(Workers) /\ FreeCalls \in Nat /\ Months \in Nat \ {0}
  /\ Customers \subseteq Payers /\ None \notin Payers

\* Keys and amounts; None is neither a key nor an answer.
ASSUME GrantConstants ==
  /\ FirstKey \in SigningKeys /\ None \notin SigningKeys \cup BOOLEAN
  /\ \A g \in Grants : Terms[g].cap \in Int /\ Terms[g].from \in Int /\ Terms[g].until \in Int
  /\ Amounts \subseteq Nat /\ MaxAge \in Nat

\* Amounts are numbers, a window lasts, and None is no row.
ASSUME PlanConstants ==
  /\ LockAmounts \cup Partials \subseteq Int /\ Charges \subseteq Nat /\ DisputeFee \in Int
  /\ IsFiniteSet(Disputes) /\ MaxClock \in Nat
  /\ Budgets \in Seq([cap : Int, secs : (Nat \ {0}) \cup {None}, categories : SUBSET Categories])
  /\ None \notin [status : {"locked", "released", "refunded", "timed_out"},
                  amount : Int, fee : Int, until : Int]
                 \cup [status : {"open", "answered", "resolved"}, opener : {"payer", "agent"},
                       won : BOOLEAN]

\* A sandbox rider has the scopes sandboxIssuePayload gives it (sandbox.ts);
\* None is neither a time nor a scope.
ASSUME RiderConstants ==
  /\ \A r \in Riders :
       /\ Claims[r].exp \in Int
       /\ Claims[r].sandbox => Claims[r].scopes \subseteq
            {<<"sandbox">>} \cup ({"credits", "dm", "tasks", "notifications"} \X {"read"})
  /\ \A bucket \in {"writes", "dm", "buy"} : WindowLimits[bucket] \in Nat
  /\ ListLimit \in Nat /\ Stale \in Nat /\ MaxTime \in Nat
  /\ LET areas == {"channels", "claims", "credits", "cddg", "dm", "follows", "notifications",
                    "posts", "predictions", "purchase", "queries", "read", "tasks", "thoughts",
                    "tools"}
         acts == {"answer", "approve", "awareness", "bind", "catalog", "claim", "comment",
                  "complete", "inject", "install", "like", "post", "publish", "purchase", "read",
                  "resolve", "send", "spend", "stake", "step", "transfer", "write", "*"}
     IN None \notin Nat \cup (areas \X acts)

\* A registry of ids, and None is neither an id, a receipt nor a call.
ASSUME RegistryConstants ==
  /\ MaxMinted \in Nat /\ First \in Processes
  /\ LET binds == SUBSET {"contract_id"}
         ids == 0..MaxMinted
         records == [id : ids, bind : binds]
     IN None \notin
          ids \cup records
            \cup [at : {"lookup", "insert", "raced", "bind"}, process : Processes,
                  hash : Hashes, receipt : Hashes \cup {None}, id : ids, bind : binds]
            \cup [at : {"upsert", "keep"}, process : Processes, hash : Hashes, record : records]

\* A rider is renewed before its end; None is neither a rider nor an issue.
ASSUME ClientConstants ==
  /\ MaxSeconds \in Nat /\ Ttls \subseteq Nat /\ MaxTtl \in Nat /\ Margin \in Nat \ {0}
  /\ LET answers == [token : Nat, ttl : Nat]
     IN None \notin Nat \cup [token : Nat, refreshAt : Int] \cup answers
                     \cup [started : Nat, answer : answers \cup {None}]

\* A walk takes a hop at least, and None is no id.
ASSUME AliasConstants == MaxAliases \in Nat \ {0} /\ None \notin AgentIds

VARIABLES part,
  live, trouble, month, usage, reported, call, started, ran, signed, kept, metered, answered,
  quiet, now, signer, previous, revokedKids, known, envelope, stored, revoked, spends, check,
  checks, allowed,
  orders, garbling, debited, settling, hops, hopsBegun, told,
  escrow, dispute, held, budget, clock, charged,
  scene, outage, may, window, listed, cancelled, counts, gate, begun, admitted, edge, offline,
  seconds, closed, cached, issuing, operation, issued, done, sent, refused, discarded,
  alone, apart, unreachable, request, minted, contracts, memory, receipts, registered, bound,
  byLab, chain, today, spend,
  alias, remints, begunDms, walker, messages

calls == <<live, trouble, month, usage, reported, call, started, ran, signed, kept, metered,
           answered>>
grants == <<quiet, now, signer, previous, revokedKids, known, envelope, stored, revoked, spends,
            check, checks, allowed>>
settlement == <<orders, garbling, debited, settling, hops, hopsBegun, told>>
escrows == <<escrow, dispute, held>>
budgets == <<budget, charged>>
riders == <<scene, outage, may, window, listed, cancelled, counts, gate, begun, admitted, edge,
            offline>>
clients == <<seconds, closed, cached, issuing, operation, issued, done, sent, refused,
             discarded>>
registry == <<alone, apart, unreachable, request, minted, contracts, memory, receipts,
              registered, bound>>
warrants == <<byLab, chain, today, spend>>
aliases == <<alias, remints, begunDms, walker, messages>>
planners == <<escrows, budgets, clock>>
vars == <<part, calls, grants, settlement, planners, riders, clients, registry, warrants,
          aliases>>

C == INSTANCE TollCalls WITH Free <- FreeCalls
G == INSTANCE Delegation WITH Keys <- SigningKeys, held <- known, started <- checks
H == INSTANCE HopSettle WITH Riders <- {None, "sandbox", "live"}, HopWorkers <- Workers
P == INSTANCE EscrowPlans
R == INSTANCE Passport WITH MaxCalls <- DoorCalls, now <- window, revoked <- listed
M == INSTANCE RiderClient WITH
       Operations <- Workers, MaxClock <- MaxSeconds, clock <- seconds, stored <- done
N == INSTANCE CuniRegistry WITH Keys <- {"contract_id"}, outage <- unreachable
W == INSTANCE NarrowWarrant WITH
       Agents <- Spenders, MaxHops <- MaxNarrowings, issued <- byLab, now <- today
I == INSTANCE Aliases WITH
       Ids <- AgentIds, Registered <- RegisteredIds, MaxHops <- MaxAliases,
       Workers <- Walkers, MaxCalls <- MaxDms, calls <- begunDms, call <- walker

Init ==
  /\ part \in {"calls", "grants", "settlement", "escrows", "budgets", "riders", "clients",
               "registry", "warrants", "aliases"}
  /\ C!Init /\ (part # "calls" => live = C!ApiVerify /\ ~trouble)
  /\ G!Init /\ (part # "grants" => quiet = {})
  /\ H!Init /\ (part # "settlement" => orders = {} /\ ~garbling)
  /\ P!Init
  /\ R!Init /\ (part # "riders" => scene = "list" /\ outage = {})
  /\ M!Init
  /\ N!Init /\ (part # "registry" => alone /\ apart /\ unreachable = None)
  /\ W!Init /\ (part # "warrants" => chain = <<CHOOSE body \in W!Bodies : TRUE>>)
  /\ I!Init

Next ==
  /\ UNCHANGED part
  /\ \/ /\ part = "calls" /\ C!Next
        /\ UNCHANGED <<grants, settlement, planners, riders, clients, registry, warrants, aliases>>
     \/ /\ part = "grants" /\ G!Next
        /\ UNCHANGED <<calls, settlement, planners, riders, clients, registry, warrants, aliases>>
     \/ /\ part = "settlement" /\ H!Next
        /\ UNCHANGED <<calls, grants, planners, riders, clients, registry, warrants, aliases>>
     \/ /\ part \in {"escrows", "budgets"} /\ P!Next
        /\ part = "escrows" => UNCHANGED budgets
        /\ part = "budgets" => UNCHANGED escrows
        /\ UNCHANGED <<calls, grants, settlement, riders, clients, registry, warrants, aliases>>
     \/ /\ part = "riders" /\ R!Next
        /\ UNCHANGED <<calls, grants, settlement, planners, clients, registry, warrants, aliases>>
     \/ /\ part = "clients" /\ M!Next
        /\ UNCHANGED <<calls, grants, settlement, planners, riders, registry, warrants, aliases>>
     \/ /\ part = "registry" /\ N!Next
        /\ UNCHANGED <<calls, grants, settlement, planners, riders, clients, warrants, aliases>>
     \/ /\ part = "warrants" /\ W!Next
        /\ UNCHANGED <<calls, grants, settlement, planners, riders, clients, registry, aliases>>
     \/ /\ part = "aliases" /\ I!Next
        /\ UNCHANGED <<calls, grants, settlement, planners, riders, clients, registry, warrants>>

Spec == Init /\ [][Next]_vars

\* A property is about the part that runs; the others stand still.
Runs(p) == part = p

\* Calls, checks, hops, plans and riders have the shapes their handlers keep,
\* and a grant's envelope leaves only with its row (v4/grants/issue/route.ts).
Types ==
  /\ Runs("calls") => C!TypeOK
  /\ Runs("grants") => G!TypeOK
  /\ Runs("settlement") => H!TypeOK
  /\ Runs("escrows") \/ Runs("budgets") => P!TypeOK
  /\ Runs("riders") => R!TypeOK
  /\ Runs("clients") => M!TypeOK
  /\ Runs("registry") => N!TypeOK
  /\ Runs("warrants") => W!TypeOK
  /\ Runs("aliases") => I!TypeOK

\* Nobody is charged for a free call, or twice (rate-limit.ts, stripe.ts);
\* and what a route answers is signed and stored first, where it says so.
CallsKeep == Runs("calls") => C!ChargeIsUse /\ C!AnswerIsBacked

\* An allowed spend is within its grant, or within every hop of its warrant
\* (v4/grants/check/route.ts, narrow.ts).
GrantHolds ==
  /\ Runs("grants") => G!GrantHolds
  /\ Runs("warrants") => W!WarrantHolds

\* One payment settles one hop, and is not lost sight of (settle-hop.ts).
HopPaidOnce == Runs("settlement") => H!HopPaidOnce

\* Timeout, dispute and budget plans add up (toll-3-core.mjs).
PlansBalance == Runs("escrows") \/ Runs("budgets") => P!PlansBalance

\* A cancelled rider, a sandbox rider and an agent at its limit get no
\* further, through any door (rider.ts, sandbox.ts, rate-limit.ts).
RevokedIsRefused == Runs("riders") => R!RevokedIsRefused

\* The client sends nothing late, twice or after it was closed (client.mjs).
ClientKeeps == Runs("clients") => M!ClientKeeps

\* A source has one contract everywhere, a receipt one id and all its binds in
\* one process (cuni-contracts.ts, cuni-citizen-receipt-store.ts).
RegistryAgrees == Runs("registry") => N!RegistryAgrees

\* Between remints of their own, two agents share one whole thread whatever
\* ids they go by (identity.ts, channels.ts).
HistoryKept == Runs("aliases") => I!HistoryKept
=============================================================================
