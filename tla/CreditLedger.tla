----------------------------- MODULE CreditLedger -----------------------------
(***************************************************************************)
(* The credit economy: balances of participants, what moves them outside   *)
(* the task board (transfers, spending, bought credits, sign-up and        *)
(* referral bonuses, the practice poster's floor) and the promotional code *)
(* whose redemptions waive charges.                                        *)
(*                                                                         *)
(* A handler is the sequence of steps it still has to make: a step is the  *)
(* code between two awaits and carries what the handler has read so far.   *)
(* An await may fail (a database error, an exception) and an invocation    *)
(* may die at any of them.  Changing a balance is a read and a write of    *)
(* the value read plus the amount; on the disk store, where a participant  *)
(* lives whose INSERT failed at registration, it is one step.              *)
(*                                                                         *)
(* A participant may ask for any number of units of a service, a fraction  *)
(* or a negative number too, so balances are fractions of a credit here,   *)
(* and so is everything that is compared with them or added to them.       *)
(*                                                                         *)
(* Left out: units that are no number (the balance they give is none, and  *)
(* the column refuses it), transactions rows (best effort, read by the     *)
(* history page only), last_active, the length of a comp, sessions Stripe  *)
(* never calls back about, and the mode with no database at all.           *)
(***************************************************************************)
EXTENDS Integers, Sequences, FiniteSetsExt, FiniteSets

CONSTANTS
  Participants,    \* ids that may register, and the practice poster
  Poster,          \* practice-poster
  Starts,          \* balances to start with, None where there is no row yet
  Crowd,           \* rows of participants beside these
  Invocations,     \* concurrent handler invocations
  Code,            \* the promotional code
  MaxRedemptions,  \* max_redemptions of the code
  MaxReferrals,    \* PROMO_MAX_REFERRALS_PER_AGENT
  Events,          \* Stripe events of completed credit purchases
  Bought,          \* buyer and price in cents of each
  Credit,          \* parts a credit is counted in: balances and amounts are parts
  Amounts,         \* amounts a client transfers
  Services,        \* services a client spends on
  Units,           \* units asked for, in parts of a unit: as many as of a credit
  WarrantCaps,     \* max_cents of a warrant shown with a spend, None for no warrant
  MaxCalls,        \* bound: calls that get past their checks, by what is kept quiet
  None

VARIABLES
  quiet,        \* participants, and the code, that no two calls are about at once
  row,          \* participants, None where no row has that id
  redemptions,  \* redemptions of the code
  claimed,      \* processed_webhook_events
  busy,         \* what each invocation is about
  todo,         \* steps it still has to make
  calls,        \* calls so far
  issued,       \* history: credits issued
  spent,        \* history: credits spent or put in escrow
  made,         \* history: credits that spends of a negative number of units gave
  paid,         \* history: times each event was credited
  grants,       \* history: comps granted
  uncounted,    \* history: comps granted whose count failed
  dropped       \* history: events and transfers a failure left half done

vars == <<quiet, row, redemptions, claimed, busy, todo, calls,
          issued, spent, made, paid, grants, uncounted, dropped>>
history == <<issued, spent, made, paid, grants, uncounted>>

-----------------------------------------------------------------------------
(* Amounts and rows *)

SERVICE_COSTS ==
  [search |-> 2, analyze |-> 3, generate |-> 5, export |-> 8, priority |-> 10, hop |-> 1]

PRACTICE_FLOOR == 50 * Credit
PRACTICE_REWARD == 5 * Credit
REFERRAL_JOIN_BONUS == 5 * Credit

SignupBonus(count) == Credit * (IF count < 100 THEN 50 ELSE IF count < 600 THEN 20 ELSE 5)

\* comped is "now" while comped_until is in the future; comped_via is set
\* unless it is "never".
NewRow(credits, home, by) ==
  [credits |-> credits, home |-> home, by |-> by, referrals |-> 0,
   comped |-> "never", compedReferrals |-> 0]

Registered(p) == row[p] # None
Rows == {p \in Participants : Registered(p)}
IsComped(p) == row[p].comped = "now"

-----------------------------------------------------------------------------
(* Steps and calls *)

Step(op, who, n, tag) == [op |-> op, who |-> who, n |-> n, tag |-> tag]
Adjust(who, amount, tag) == Step("adjust", who, amount, tag)

Idle(i) == todo[i] = <<>>
Due(i, op) == ~Idle(i) /\ Head(todo[i]).op = op
Now(i) == Head(todo[i])

\* Invocation i has these steps left.
Continue(i, steps) ==
  /\ todo' = [todo EXCEPT ![i] = steps]
  /\ busy' = IF steps = <<>> THEN [busy EXCEPT ![i] = {}] ELSE busy
  /\ UNCHANGED <<quiet, calls>>

Proceed(i, steps) == Continue(i, steps \o Tail(todo[i]))

\* A call about these subjects has passed its checks.
Begin(i, subjects, steps) ==
  /\ Idle(i) /\ calls < MaxCalls[quiet]
  /\ \A j \in Invocations : busy[j] \cap subjects \cap quiet = {}
  /\ todo' = [todo EXCEPT ![i] = steps]
  /\ busy' = [busy EXCEPT ![i] = IF steps = <<>> THEN {} ELSE subjects]
  /\ calls' = calls + 1
  /\ UNCHANGED quiet

-----------------------------------------------------------------------------
(* Calls: the reads and checks of each handler up to its first write *)

\* Mutant: the recipient is credited before the sender is debited.
TransferCreditsFirst(from, to, amount) ==
  <<Adjust(to, amount, "transfer_in"), Adjust(from, -amount, "transfer_out")>>

TransferSteps(from, to, amount) ==
  <<Adjust(from, -amount, "transfer_out"), Adjust(to, amount, "transfer_in")>>

Transfer(i, from, to, amount) ==
  /\ Registered(from) /\ Registered(to)
  /\ row[from].credits >= amount
  /\ Begin(i, {from, to}, TransferSteps(from, to, amount))
  /\ UNCHANGED <<row, redemptions, claimed, dropped, history>>

\* A comped participant is not charged, whatever the balance; a generation
\* is charged once the model has answered.
SpendSteps(p, service, cost) ==
  (IF service = "generate" THEN <<Step("model", p, 0, "spend")>> ELSE <<>>) \o
  (IF IsComped(p) THEN <<>> ELSE <<Adjust(p, -cost, "spend")>>)

\* No check of the units: a negative cost is below every cap and balance, and
\* charging it adds to the balance.
Spend(i, p, service, units, cap) ==
  LET cost == SERVICE_COSTS[service] * units
  IN /\ Registered(p)
     /\ IF cap = None THEN TRUE ELSE cost <= cap
     /\ IF IsComped(p) THEN TRUE ELSE row[p].credits >= cost
     /\ Begin(i, {p}, SpendSteps(p, service, cost))
     /\ UNCHANGED <<row, redemptions, claimed, dropped, history>>

\* What follows the INSERT of a registration: the code it names, and what
\* the referrer earns.
Settlement(p, referrer, promo) ==
  (IF promo THEN <<Step("redeem", p, 0, "code")>> ELSE <<>>) \o
  (IF referrer = None THEN <<>>
   ELSE <<Adjust(referrer, REFERRAL_JOIN_BONUS, "bonus"),
          Step("referral", referrer, 0, "bonus"), Step("grant", referrer, 0, p)>>)

\* The count of rows decides the bonus; a failed count gives the largest.
Register(i, p, referrer, promo, counted) ==
  LET count == IF counted THEN Crowd + Cardinality(Rows) ELSE 0
  IN /\ p # Poster /\ ~Registered(p) /\ \A j \in Invocations : p \notin busy[j]
     /\ referrer \in (Rows \ {Poster}) \cup {None}
     /\ Begin(i, ({p, referrer} \ {None}) \cup (IF promo \/ referrer # None THEN {Code} ELSE {}),
              <<Step("insert", p, SignupBonus(count), referrer)>>
                \o Settlement(p, referrer, promo))
     /\ UNCHANGED <<row, redemptions, claimed, dropped, history>>

CREDITS_PER_USD == 100
UsdCentsToCredits(cents) == Credit * ((cents * CREDITS_PER_USD) \div 100)

\* The credits a checkout session of /api/credits/purchase puts in its
\* metadata, and what the event of its payment does with them.
PurchaseSteps(e) ==
  <<Adjust(Bought[e].who, UsdCentsToCredits(Bought[e].cents), e)>>

\* Mutant: a duplicate event is credited like the first.
DeliverAgain(i, e) ==
  /\ claimed' = claimed \cup {e}
  /\ Begin(i, {Bought[e].who}, PurchaseSteps(e))
  /\ UNCHANGED <<row, redemptions, dropped, history>>

\* The webhook: an event is claimed by the INSERT of its id before anything
\* is credited; one already claimed is skipped.
Deliver(i, e) ==
  /\ e \notin claimed
  /\ claimed' = claimed \cup {e}
  /\ Begin(i, {Bought[e].who}, PurchaseSteps(e))
  /\ UNCHANGED <<row, redemptions, dropped, history>>

\* ensurePracticePoster.
FloorSteps ==
  IF ~Registered(Poster) THEN <<Step("create", Poster, PRACTICE_FLOOR, "topup")>>
  ELSE IF row[Poster].credits < PRACTICE_FLOOR
    THEN <<Adjust(Poster, PRACTICE_FLOOR - row[Poster].credits, "topup")>>
    ELSE <<>>

\* A first job started: the floor, then the escrow of the practice task.
Practice(i) ==
  /\ Begin(i, {Poster}, Append(FloorSteps, Step("post", Poster, PRACTICE_REWARD, "escrow")))
  /\ UNCHANGED <<row, redemptions, claimed, dropped, history>>

\* A call that reads only, or that its checks refuse: the balance and history
\* pages, a bad amount, a missing participant, an event claimed before.
Look(i) == Idle(i) /\ UNCHANGED vars

-----------------------------------------------------------------------------
(* Balances: adjustCredits *)

\* What a change of the balance by n stands for, recorded in the history.
Record(tag, n) ==
  LET out == tag \in {"spend", "escrow"}
  IN /\ issued' = IF tag \in Events \cup {"bonus", "topup"} THEN issued + n ELSE issued
     /\ spent' = IF out /\ n < 0 THEN spent - n ELSE spent
     /\ made' = IF out /\ n > 0 THEN made + n ELSE made
     /\ paid' = IF tag \in Events THEN [paid EXCEPT ![tag] = @ + 1] ELSE paid
     /\ UNCHANGED <<grants, uncounted>>

\* The balance read goes into the step that writes it back.
AdjustRead(i) ==
  /\ Due(i, "adjust") /\ Registered(Now(i).who) /\ row[Now(i).who].home = "db"
  /\ Proceed(i, <<[op |-> "set", who |-> Now(i).who, n |-> Now(i).n, tag |-> Now(i).tag,
                   seen |-> row[Now(i).who].credits]>>)
  /\ UNCHANGED <<row, redemptions, claimed, dropped, history>>

AdjustWrite(i) ==
  /\ Due(i, "set")
  /\ row' = [row EXCEPT ![Now(i).who].credits = Now(i).seen + Now(i).n]
  /\ Record(Now(i).tag, Now(i).n)
  /\ Proceed(i, <<>>)
  /\ UNCHANGED <<redemptions, claimed, dropped>>

\* The disk store reads and writes its file between two awaits.
AdjustDisk(i) ==
  /\ Due(i, "adjust") /\ Registered(Now(i).who) /\ row[Now(i).who].home = "disk"
  /\ row' = [row EXCEPT ![Now(i).who].credits = @ + Now(i).n]
  /\ Record(Now(i).tag, Now(i).n)
  /\ Proceed(i, <<>>)
  /\ UNCHANGED <<redemptions, claimed, dropped>>

ModelAnswers(i) ==
  /\ Due(i, "model")
  /\ Proceed(i, <<>>)
  /\ UNCHANGED <<row, redemptions, claimed, dropped, history>>

\* The participant's row, on disk where the INSERT fails.
Insert(i, home) ==
  /\ Due(i, "insert")
  /\ row' = [row EXCEPT ![Now(i).who] = NewRow(Now(i).n, home, Now(i).tag)]
  /\ issued' = issued + Now(i).n
  /\ Proceed(i, <<>>)
  /\ UNCHANGED <<redemptions, claimed, dropped, spent, made, paid, grants, uncounted>>

\* The poster's INSERT; where another call got there first the id is taken
\* and the call fails.
Create(i) ==
  /\ Due(i, "create") /\ ~Registered(Poster)
  /\ row' = [row EXCEPT ![Poster] = NewRow(PRACTICE_FLOOR, "db", None)]
  /\ issued' = issued + PRACTICE_FLOOR
  /\ Proceed(i, <<>>)
  /\ UNCHANGED <<redemptions, claimed, dropped, spent, made, paid, grants, uncounted>>

\* postTask reads the poster's balance and escrows the reward.
PostPractice(i) ==
  /\ Due(i, "post") /\ Registered(Poster) /\ row[Poster].credits >= PRACTICE_REWARD
  /\ Proceed(i, <<Adjust(Poster, -PRACTICE_REWARD, "escrow")>>)
  /\ UNCHANGED <<row, redemptions, claimed, dropped, history>>

-----------------------------------------------------------------------------
(* Comps: redeemPromoCode, grantCompedReferral, rewardReferrer *)

\* What a redemption does once the code's row has passed its checks.
Grant(p, read) == <<Step("comp", p, 0, "code"), Step("bump", p, read, "code")>>

Redeem(i) ==
  /\ Due(i, "redeem")
  /\ Proceed(i, IF redemptions < MaxRedemptions THEN Grant(Now(i).who, redemptions) ELSE <<>>)
  /\ UNCHANGED <<row, redemptions, claimed, dropped, history>>

\* An UPDATE of a participant on disk matches no row and reports no error.
ApplyComp(i) ==
  /\ Due(i, "comp")
  /\ row' = IF row[Now(i).who].home = "db"
              THEN [row EXCEPT ![Now(i).who].comped = "now"] ELSE row
  /\ grants' = grants + 1
  /\ Proceed(i, <<>>)
  /\ UNCHANGED <<redemptions, claimed, dropped, issued, spent, made, paid, uncounted>>

BumpRedemptions(i) ==
  /\ Due(i, "bump")
  /\ redemptions' = Now(i).n + 1
  /\ Proceed(i, <<>>)
  /\ UNCHANGED <<row, claimed, dropped, history>>

\* The referrer's referrals column, read ...
ReferralRead(i) ==
  /\ Due(i, "referral") /\ row[Now(i).who].home = "db"
  /\ Proceed(i, <<Step("count", Now(i).who, row[Now(i).who].referrals, "bonus")>>)
  /\ UNCHANGED <<row, redemptions, claimed, dropped, history>>

\* ... and written back plus one.
ReferralWrite(i) ==
  /\ Due(i, "count")
  /\ row' = [row EXCEPT ![Now(i).who].referrals = Now(i).n + 1]
  /\ Proceed(i, <<>>)
  /\ UNCHANGED <<redemptions, claimed, dropped, history>>

ReferralDisk(i) ==
  /\ Due(i, "referral") /\ row[Now(i).who].home = "disk"
  /\ row' = [row EXCEPT ![Now(i).who].referrals = @ + 1]
  /\ Proceed(i, <<>>)
  /\ UNCHANGED <<redemptions, claimed, dropped, history>>

\* A comped referrer with grants left passes the comp on to the joiner: the
\* referrer's row is read first, the code's row after.
GrantRead(i) ==
  LET r == Now(i).who
      passes == /\ row[r].home = "db" /\ IsComped(r)
                /\ row[r].compedReferrals < MaxReferrals
  IN /\ Due(i, "grant")
     /\ Proceed(i, IF passes
          THEN <<Step("code", r, row[r].compedReferrals, Now(i).tag)>> ELSE <<>>)
     /\ UNCHANGED <<row, redemptions, claimed, dropped, history>>

\* Mutant: the comp is passed on whatever the code's redemptions.
GrantUncapped(i) ==
  LET s == Now(i)
  IN /\ Due(i, "code")
     /\ Proceed(i, Append(Grant(s.tag, redemptions), Step("mark", s.who, s.n + 1, "code")))
     /\ UNCHANGED <<row, redemptions, claimed, dropped, history>>

GrantCode(i) ==
  LET s == Now(i)
  IN /\ Due(i, "code")
     /\ Proceed(i, IF redemptions < MaxRedemptions
          THEN Append(Grant(s.tag, redemptions), Step("mark", s.who, s.n, "code")) ELSE <<>>)
     /\ UNCHANGED <<row, redemptions, claimed, dropped, history>>

\* comped_referrals, from the value read before the grant.
MarkReferral(i) ==
  /\ Due(i, "mark")
  /\ row' = [row EXCEPT ![Now(i).who].compedReferrals = Now(i).n + 1]
  /\ Proceed(i, <<>>)
  /\ UNCHANGED <<redemptions, claimed, dropped, history>>

-----------------------------------------------------------------------------
(* Failures *)

\* What a registration goes on with when a step of it fails: a failed comp is
\* not counted, a failed bonus leaves the referrals alone.  Other calls end.
Recover(steps) ==
  LET s == Head(steps)
      after(n) == SubSeq(steps, n + 1, Len(steps))
  IN IF s.op \in {"redeem", "bump", "referral", "count", "grant", "code", "mark"} THEN after(1)
     ELSE IF s.op = "comp"
       THEN after(IF Len(steps) > 2 /\ steps[3].op = "mark" THEN 3 ELSE 2)
     ELSE IF s.tag = "bonus" THEN after(2)
     ELSE <<>>

\* Money taken from one side and not yet given to the other.
Half(steps) ==
  IF Head(steps).tag = "transfer_out" THEN {}
  ELSE {steps[k].tag : k \in DOMAIN steps} \cap (Events \cup {"transfer_in"})

\* An await fails, or the invocation dies at it.  Where it is the UPDATE that
\* counts a comp the comp stays, uncounted.
Fail(i) ==
  /\ ~Idle(i)
  /\ \E left \in {<<>>, Recover(todo[i])} : Continue(i, left)
  /\ dropped' = dropped \cup Half(todo[i])
  /\ uncounted' = IF Due(i, "bump") THEN uncounted + 1 ELSE uncounted
  /\ UNCHANGED <<row, redemptions, claimed, issued, spent, made, paid, grants>>

\* comped_until passes.
Expire(p) ==
  /\ Registered(p) /\ IsComped(p)
  /\ row' = [row EXCEPT ![p].comped = "past"]
  /\ UNCHANGED <<quiet, redemptions, claimed, busy, todo, calls, dropped, history>>

-----------------------------------------------------------------------------

\* Members of early have redeemed the code already.
Init ==
  \E start \in Starts :
  \E early \in SUBSET {p \in Participants \ {Poster} : start[p] # None} :
    /\ quiet \in DOMAIN MaxCalls
    /\ row = [p \in Participants |->
         IF start[p] = None THEN None
         ELSE [NewRow(start[p], "db", None) EXCEPT
                 !.comped = IF p \in early THEN "now" ELSE "never"]]
    /\ redemptions = Cardinality(early) /\ redemptions <= MaxRedemptions
    /\ claimed = {} /\ calls = 0
    /\ busy = [i \in Invocations |-> {}]
    /\ todo = [i \in Invocations |-> <<>>]
    /\ issued = SumFunction([p \in Participants |-> IF start[p] = None THEN 0 ELSE start[p]])
    /\ spent = 0 /\ made = 0 /\ paid = [e \in Events |-> 0]
    /\ grants = redemptions /\ uncounted = 0 /\ dropped = {}

Call(i) ==
  \/ \E p, q \in Participants, n \in Amounts : Transfer(i, p, q, n)
  \/ \E p \in Participants, s \in Services, u \in Units, cap \in WarrantCaps :
       Spend(i, p, s, u, cap)
  \/ \E p \in Participants, r \in Participants \cup {None}, promo, counted \in BOOLEAN :
       Register(i, p, r, promo, counted)
  \/ \E e \in Events : Deliver(i, e)
  \/ Practice(i)
  \/ Look(i)

Advance(i) ==
  \/ AdjustRead(i) \/ AdjustWrite(i) \/ AdjustDisk(i) \/ ModelAnswers(i)
  \/ \E home \in {"db", "disk"} : Insert(i, home)
  \/ Create(i) \/ PostPractice(i)
  \/ Redeem(i) \/ ApplyComp(i) \/ BumpRedemptions(i)
  \/ ReferralRead(i) \/ ReferralWrite(i) \/ ReferralDisk(i)
  \/ GrantRead(i) \/ GrantCode(i) \/ MarkReferral(i)
  \/ Fail(i)

Next == (\E i \in Invocations : Call(i) \/ Advance(i)) \/ (\E p \in Participants : Expire(p))

Spec == Init /\ [][Next]_vars

-----------------------------------------------------------------------------
(* Properties *)

StepsOf(i) == {todo[i][k] : k \in DOMAIN todo[i]}
Balances == SumFunction([p \in Participants |-> IF Registered(p) THEN row[p].credits ELSE 0])

\* What transfers have taken from the sender and not yet given.
Owing(i) == IF ~Idle(i) /\ Now(i).tag = "transfer_in" THEN Now(i).n ELSE 0
InFlight == SumFunction([i \in Invocations |-> Owing(i)])

\* Rows, comps and steps are of the shapes the handlers read and write.
TypeOK ==
  /\ \A p \in Rows : /\ row[p].credits \in Int /\ row[p].home \in {"db", "disk"}
                     /\ row[p].comped \in {"never", "now", "past"}
                     /\ row[p].referrals \in Nat
                     /\ row[p].by \in Participants \cup {None}
  /\ claimed \subseteq Events
  /\ \A i \in Invocations : Idle(i) <=> busy[i] = {}
  /\ \A i \in Invocations : \A s \in StepsOf(i) :
       s.who \in Participants /\ s.n \in Int

\* Where credits come from and go to (credits.ts transferCredits, spendCredits;
\* agents.ts adjustCredits): with no two calls about one participant at once,
\* nothing makes credits but what issues them and the spends of a negative
\* number of units, which do; no failure makes any, none are lost unless a
\* transfer stopped half way, and no balance goes below zero.
Conserved ==
  LET due == (issued + made) - spent
  IN /\ \A p \in quiet \cap Rows : row[p].credits >= 0
     /\ Participants \subseteq quiet =>
          /\ Balances + InFlight <= due
          /\ "transfer_in" \notin dropped => Balances + InFlight = due

\* A purchase is credited at most once however often Stripe delivers it, and
\* it is credited once claimed unless the call that claimed it stopped
\* (webhook/stripe/route.ts claimEvent).
PurchaseOnce ==
  \A e \in Events :
    /\ paid[e] <= 1
    /\ paid[e] = 1 => e \in claimed \ dropped
    /\ e \in claimed \ dropped =>
         \/ paid[e] = 1
         \/ \E i \in Invocations : \E s \in StepsOf(i) : s.tag = e

\* The caps of the promotional code (promo.ts redeemPromoCode,
\* grantCompedReferral): the counter never passes its cap and, with
\* redemptions one at a time, it counts every comp granted but those whose
\* count failed, which are all that can be granted beyond the cap.  No
\* referrer grants more comps, or is counted more referrals, than joiners
\* named it.
CapHeld ==
  LET joiners(r) == Cardinality({p \in Rows : row[p].by = r})
      counting == {i \in Invocations : Due(i, "bump")}
  IN /\ redemptions <= MaxRedemptions
     /\ Cardinality({p \in Rows : row[p].comped # "never"}) <= grants
     /\ Code \in quiet =>
          /\ grants = redemptions + Cardinality(counting) + uncounted
          /\ grants <= MaxRedemptions + uncounted
     /\ \A r \in Rows : /\ row[r].compedReferrals <= MaxReferrals
                        /\ row[r].compedReferrals <= joiners(r)
                        /\ row[r].referrals <= joiners(r)
=============================================================================
