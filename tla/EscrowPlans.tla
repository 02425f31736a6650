----------------------------- MODULE EscrowPlans -----------------------------
(***************************************************************************)
(* Toll 3 beyond lock and release: plans for the timeout of an escrow, for *)
(* a dispute about it, and for an agent's budget.  The plans are pure: a   *)
(* row in, transfers and a new status out, or an error that leaves all as  *)
(* it is.  No route applies them yet; a caller is taken to apply a plan as *)
(* a whole.  What is at stake is how the plans fit together.               *)
(***************************************************************************)
EXTENDS Integers, Sequences, FiniteSets

CONSTANTS
  LockAmounts,   \* micro-USDC that may be locked
  Partials,      \* shares of it a dispute may award the payer
  DisputeFee,    \* DISPUTE_FEE_UUSDC
  Disputes,      \* disputes that may be opened
  Budgets,       \* [cap, secs, categories] of an agent's budgets, oldest first
  Categories,    \* what it spends on
  Charges,       \* micro-USDC it spends at a time
  MaxClock,      \* bound: how far the clock runs
  None

VARIABLES
  escrow,        \* the escrow row, None before the lock
  dispute,       \* dispute rows, None before they are opened
  held,          \* what each account has received less what it has sent
  budget,        \* budget rows that exist, by age
  clock,         \* epoch seconds
  charged        \* history: charges authorized, each with its row and time

planVars == <<escrow, dispute, held, budget, clock, charged>>

Accounts == {"payer", "agent", "escrow", "lab"}
Parties == {"payer", "agent"}

-----------------------------------------------------------------------------
(* Escrow *)

\* 1%, rounded down.
Fee(amount) == (amount * 100) \div 10000
Net(row) == row.amount - row.fee

\* What a transfer leaves the accounts with; the parties are not the same.
Pay(accounts, from, to, amount) ==
  [accounts EXCEPT ![from] = @ - amount, ![to] = @ + amount]

\* The lock route with buildEscrowLockPayload: the whole amount is deposited,
\* and the fee is only reckoned; an amount too small for one is refused.
Lock(amount, timeout) ==
  /\ escrow = None /\ Fee(amount) > 0
  /\ escrow' = [status |-> "locked", amount |-> amount, fee |-> Fee(amount),
                until |-> clock + timeout]
  /\ held' = Pay(held, "payer", "escrow", amount)
  /\ UNCHANGED <<dispute, budget, clock, charged>>

Locked == escrow # None /\ escrow.status = "locked"

Settle(status, accounts) ==
  /\ escrow' = [escrow EXCEPT !.status = status]
  /\ held' = accounts

\* validateRelease and the sends of the release route: a delivery receipt that
\* matches, for a row still locked.  The fee is realized here.
Release ==
  /\ Locked
  /\ LET paid == Pay(held, "escrow", "agent", Net(escrow))
     IN Settle("released", Pay(paid, "escrow", "lab", escrow.fee))
  /\ UNCHANGED <<dispute, budget, clock, charged>>

\* A mistake: the sweep returns what was locked, fee and all.
TimeoutRefundAll ==
  /\ Locked /\ clock >= escrow.until
  /\ Settle("timed_out", Pay(held, "escrow", "payer", escrow.amount))
  /\ UNCHANGED <<dispute, budget, clock, charged>>

\* planTimeoutRefund: an open dispute does not stop it.  It pays the net, and no
\* plan sends the fee on.
TimeoutRefund ==
  /\ Locked /\ clock >= escrow.until
  /\ Settle("timed_out", Pay(held, "escrow", "payer", Net(escrow)))
  /\ UNCHANGED <<dispute, budget, clock, charged>>

-----------------------------------------------------------------------------
(* Disputes *)

\* buildDisputeOpen: several may be open about one escrow.
DisputeOpen(d, opener) ==
  /\ Locked /\ dispute[d] = None
  /\ dispute' = [dispute EXCEPT ![d] = [status |-> "open", opener |-> opener, won |-> FALSE]]
  /\ held' = Pay(held, opener, "lab", DisputeFee)
  /\ UNCHANGED <<escrow, budget, clock, charged>>

\* buildDisputeRespond takes either party, the opener too, and does not look
\* at the status of the escrow.
DisputeRespond(d) ==
  /\ dispute[d] # None /\ dispute[d].status = "open"
  /\ dispute' = [dispute EXCEPT ![d].status = "answered"]
  /\ UNCHANGED <<escrow, held, budget, clock, charged>>

\* The status each outcome leaves, and the accounts.
Resolution(d, outcome, part) ==
  LET feeBack == Pay(held, "lab", dispute[d].opener, DisputeFee)
  IN CASE outcome = "refund" ->
            [to |-> "refunded", held |-> Pay(feeBack, "escrow", "payer", Net(escrow))]
       [] outcome = "release" ->
            [to |-> "released", held |-> Pay(held, "escrow", "agent", Net(escrow))]
       [] outcome = "partial" ->
            [to |-> "released",
             held |-> Pay(Pay(feeBack, "escrow", "payer", part),
                          "escrow", "agent", Net(escrow) - part)]

DisputeResolve(d, outcome, part) ==
  /\ dispute[d] # None /\ dispute[d].status \in {"open", "answered"}
  /\ Locked
  /\ outcome = "partial" => part > 0 /\ part < Net(escrow)
  /\ LET plan == Resolution(d, outcome, part) IN Settle(plan.to, plan.held)
  /\ dispute' =
       [dispute EXCEPT ![d] = [@ EXCEPT !.status = "resolved", !.won = outcome # "release"]]
  /\ UNCHANGED <<budget, clock, charged>>

-----------------------------------------------------------------------------
(* Budgets *)

\* validateBudget: a positive cap and a known window.
CreateBudget ==
  /\ Len(budget) < Len(Budgets)
  /\ budget' = Append(budget, [spent |-> 0, start |-> clock])
  /\ UNCHANGED <<escrow, dispute, held, clock, charged>>

\* selectActiveBudget: the newest row for the category, rolled over when its
\* window is past; a job's budget has none.
Matching(category) ==
  {i \in 1..Len(budget) : Budgets[i].categories = {} \/ category \in Budgets[i].categories}
Newest(category) == {i \in Matching(category) : \A j \in Matching(category) : j <= i}
Rolled(i) ==
  IF Budgets[i].secs # None /\ clock >= budget[i].start + Budgets[i].secs
  THEN [spent |-> 0, start |-> clock] ELSE budget[i]

\* authorizeBudget, and the caller keeps the row it returns.
Authorize(category, amount) ==
  /\ \E i \in Newest(category) :
       LET row == Rolled(i)
       IN /\ row.spent + amount <= Budgets[i].cap
          /\ budget' = [budget EXCEPT ![i] = [row EXCEPT !.spent = @ + amount]]
          /\ charged' = charged \cup {[row |-> i, of |-> category, at |-> clock, before |-> row.spent,
                                       amount |-> amount, start |-> row.start]}
  /\ UNCHANGED <<escrow, dispute, held, clock>>

Second ==
  /\ clock < MaxClock /\ clock' = clock + 1
  /\ UNCHANGED <<escrow, dispute, held, budget, charged>>

\* A plan that throws.
Thrown == UNCHANGED planVars

-----------------------------------------------------------------------------

Init ==
  /\ escrow = None /\ dispute = [d \in Disputes |-> None]
  /\ held = [a \in Accounts |-> 0]
  /\ budget = <<>> /\ clock = 0 /\ charged = {}

Next ==
  \/ \E amount \in LockAmounts, timeout \in 1..MaxClock : Lock(amount, timeout)
  \/ Release \/ TimeoutRefund
  \/ \E d \in Disputes :
       \/ \E opener \in Parties : DisputeOpen(d, opener)
       \/ DisputeRespond(d)
       \/ \E part \in Partials : DisputeResolve(d, "partial", part)
       \/ \E outcome \in {"refund", "release"} : DisputeResolve(d, outcome, 0)
  \/ CreateBudget
  \/ \E category \in Categories, amount \in Charges : Authorize(category, amount)
  \/ Second \/ Thrown

Spec == Init /\ [][Next]_planVars

-----------------------------------------------------------------------------
(* Properties *)

TypeOK ==
  /\ DOMAIN held = Accounts /\ Len(budget) <= Len(Budgets)
  /\ escrow # None => escrow.status \in {"locked", "released", "refunded", "timed_out"}
  /\ \A d \in Disputes : dispute[d] # None => dispute[d].opener \in Parties /\ escrow # None

\* Disputes whose fee the lab keeps, whether the release route paid the escrow
\* out, and two charges one of which was made before the other.
Lost == {d \in Disputes : dispute[d] # None /\ ~dispute[d].won}
Decided == {d \in Disputes : dispute[d] # None /\ dispute[d].status = "resolved"}
Delivered == escrow # None /\ escrow.status = "released" /\ Decided = {}
Follows(c, e) == e.before + e.amount <= c.before

\* However release, timeout and disputes follow each other, the escrow account
\* holds the whole amount while the row is locked; a release by receipt empties
\* it, to the agent and the lab; a timeout or a dispute pays the net once, in
\* full, and leaves the fee of the lock in it: the comment at
\* planTimeoutRefund has the lab keep a fee taken at the lock, but the lock
\* route takes none.  The lab has that fee after a release only, and the fee of
\* each dispute whose opener did not win, the one a timeout overtook too; and at
\* most one dispute decides (toll-3-core.mjs validateRelease, planTimeoutRefund,
\* buildDisputeResolve).  A budget's charges within one window are stretches of
\* its cap that do not overlap, and are in its
\* categories (selectActiveBudget, authorizeBudget).
PlansBalance ==
  /\ held["escrow"] =
       IF escrow = None \/ Delivered THEN 0
       ELSE IF Locked THEN escrow.amount ELSE escrow.fee
  /\ held["lab"] =
       DisputeFee * Cardinality(Lost) + (IF Delivered THEN escrow.fee ELSE 0)
  /\ held["payer"] + held["agent"] + held["escrow"] + held["lab"] = 0
  /\ \A d, e \in Disputes :
       dispute[d] # None /\ dispute[e] # None =>
         (dispute[d].status = "resolved" /\ dispute[e].status = "resolved" => d = e)
  /\ \A c \in charged :
       /\ Budgets[c.row].categories = {} \/ c.of \in Budgets[c.row].categories
       /\ c.before >= 0 /\ c.before + c.amount <= Budgets[c.row].cap
       /\ \A e \in charged :
            e # c /\ e.row = c.row /\ e.start = c.start => Follows(c, e) \/ Follows(e, c)
       /\ Budgets[c.row].secs # None => c.at < c.start + Budgets[c.row].secs
=============================================================================
