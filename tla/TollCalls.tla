------------------------------ MODULE TollCalls ------------------------------
(***************************************************************************)
(* The metered routes: a call is admitted by checks that change nothing,   *)
(* then counts against its payer's month, is reported to Stripe beyond the *)
(* free calls, runs, signs a receipt, stores a row, writes a line of       *)
(* toll_meter and answers, in the order each route has.  The tolls count   *)
(* before they know the result; the tools count after it.                  *)
(*                                                                         *)
(* Routes share no counter and no row, so one, live, is chosen per         *)
(* behaviour.  Its calls overlap, and when things go wrong the counter,    *)
(* Stripe or a table is down, or a call dies at an await.  Abstracted: the *)
(* payload of receipts, prices and rows, all named by the call's number.   *)
(***************************************************************************)
EXTENDS Integers, SequencesExt, FiniteSetsExt

CONSTANTS
  Payers,     \* who may pay: agents with an ar_ key, holders of a merchant key
  Customers,  \* payers with a Stripe customer: the merchants
  Workers,    \* concurrent invocations
  Free,       \* free calls a month, of the routes that have any
  Months,     \* bound: months that begin, 1..n
  MaxCalls,   \* bound: calls that are admitted
  None

VARIABLES
  live,       \* the route that is called
  trouble,    \* whether counter, Stripe and tables may fail and calls die
  month,      \* calendar month (UTC)
  usage,      \* rate_limits: calls of a payer in a month
  reported,   \* billing meter events Stripe holds of a payer
  call,       \* what each invocation does next
  started,    \* calls admitted so far
  ran,        \* calls whose work was done, with its verdict
  signed,     \* receipts signed, with the verdict they state
  kept,       \* calls whose row is stored
  metered,    \* calls with a line in toll_meter
  answered    \* calls answered 200, with the verdict answered

vars == <<live, trouble, month, usage, reported, call, started,
          ran, signed, kept, metered, answered>>

-----------------------------------------------------------------------------
(* The routes: checks in order, then steps in order *)

\* Verdicts a route's work may end with; "fail" is a named error.
Sure == {"pass"}
Verdicts == {"pass", "refuse"}
Fallible(verdicts) == verdicts \cup {"fail"}

Route(checks, free, verdicts, work) ==
  [checks |-> checks, free |-> free, verdicts |-> verdicts, work |-> work]

Open == <<"live", "payer", "input">>
Sandboxed == <<"live", "sandbox", "payer", "input">>

\* The gate a merchant's site calls with its key.
ApiVerify == Route(<<"input", "payer">>, Free, Sure, <<"count", "charge", "answer">>)

V1Verify == Route(Sandboxed, Free, Sure, <<"count", "charge", "read", "answer">>)

V2Lookup == Route(Open, 0, Sure, <<"count", "charge", "read", "answer">>)

\* The deposit is proven after the charge; the row is stored before the
\* receipt is signed.
V3Lock ==
  Route(Open, 0, Fallible(Sure),
        <<"count", "charge", "run", "store", "meter", "sign", "answer">>)

\* The transfers and the new status come first.
V3Release ==
  Route(Open, 0, Fallible(Sure), <<"run", "store", "count", "charge", "sign", "answer">>)

V4Issue ==
  Route(Open, 0, Sure, <<"count", "charge", "sign", "store", "meter", "answer">>)

V4Check ==
  Route(Sandboxed, 0, Verdicts, <<"count", "charge", "run", "meter", "answer">>)

V5Check ==
  Route(Sandboxed, 0, Verdicts,
        <<"run", "count", "charge", "sign", "store", "meter", "answer">>)

\* The deposit is proven before the charge, the fee is sent after the row.
V6Stake ==
  Route(Open, 0, Fallible(Sure),
        <<"run", "count", "charge", "sign", "store", "run", "meter", "answer">>)

V6Slash == Route(Open, 0, Fallible(Sure), <<"sign", "run", "store", "count", "answer">>)

V7Export ==
  Route(Open, 0, Fallible(Sure),
        <<"count", "charge", "run", "sign", "store", "meter", "answer">>)

\* A notarization or a check for anybody: rate limited, neither paid nor kept.
PublicAttest ==
  Route(<<"limit", "size", "shape">>, 0, Fallible(Verdicts), <<"run", "sign", "answer">>)

\* A tool runs before it counts, and is not reported to Stripe.
Tool(verdicts) ==
  Route(Sandboxed, 0, verdicts, <<"run", "count", "sign", "meter", "answer">>)

\* What a tool's work may end with: the codec's verdict, or no codec.
PccCompressRun == Fallible(Verdicts)
PccVerifyRun == Fallible(Verdicts)
NotarizeRun == Fallible(Sure)
ExactnessRun == Fallible(Verdicts)
DrawRun == Fallible(Sure)
ResolveRun == Fallible(Sure)
ProofRun == Fallible(Verdicts)
PackRun == Fallible(Sure)
SealRun == Fallible(Sure)
QuoteRun == Sure

PccCompress == Tool(PccCompressRun)
PccVerify == Tool(PccVerifyRun)
AttestNotarize == Tool(NotarizeRun)
AttestExactness == Tool(ExactnessRun)
ExactoddsDraw == Tool(DrawRun)
ExactoddsResolve == Tool(ResolveRun)
CuniProof == Tool(ProofRun)
TrustreamPack == Tool(PackRun)
ChamberSeal == Tool(SealRun)
AwlpayQuote == Tool(QuoteRun)

Tools ==
  {PccCompress, PccVerify, AttestNotarize, AttestExactness, ExactoddsDraw,
   ExactoddsResolve, CuniProof, TrustreamPack, ChamberSeal, AwlpayQuote}

Routes ==
  Tools \cup {ApiVerify, V1Verify, V2Lookup, V3Lock, V3Release, V4Issue, V4Check,
              V5Check, V6Stake, V6Slash, V7Export, PublicAttest}

Has(route, step) == step \in ToSet(route.work)
Pays(route) == "payer" \in ToSet(route.checks)

-----------------------------------------------------------------------------
(* Calls *)

Rest == [id |-> 0, payer |-> None, over |-> FALSE, verdict |-> "pass", todo |-> <<>>]

At(w, step) == call[w].todo # <<>> /\ Head(call[w].todo) = step

Continue(w, c) ==
  /\ call' = [call EXCEPT ![w] = IF Len(c.todo) = 1 THEN Rest
                                 ELSE [c EXCEPT !.todo = Tail(@)]]
  /\ UNCHANGED <<live, trouble, month, started>>

\* The caller pays: a merchant key with a subscription, or an ar_ key, and
\* never the agent a call is about.  Only a merchant calls /api/verify.
Payer(route) ==
  IF ~Pays(route) THEN {None} ELSE IF route = ApiVerify THEN Customers ELSE Payers

Begin(w, p) ==
  /\ call[w] = Rest /\ started < MaxCalls
  /\ p \in Payer(live)
  /\ started' = started + 1
  /\ call' = [call EXCEPT ![w] =
                [Rest EXCEPT !.id = started + 1, !.payer = p, !.todo = live.work]]
  /\ UNCHANGED <<live, trouble, month, usage, reported, ran, signed, kept, metered, answered>>

\* A check refuses, or the demo key is answered by the sandbox, which runs
\* the route's validation and nothing else.
Refused(check) ==
  /\ check \in ToSet(live.checks)
  /\ UNCHANGED vars

\* checkMonthlyUsage increments in the database and answers the new count;
\* an outage lets the call pass as one of the free ones.
Count(w) ==
  LET p == call[w].payer
      count == usage[<<p, month>>] + 1
  IN /\ At(w, "count")
     /\ \/ /\ usage' = [usage EXCEPT ![<<p, month>>] = count]
           /\ Continue(w, [call[w] EXCEPT !.over = count > live.free])
        \/ trouble /\ Continue(w, call[w]) /\ UNCHANGED usage
     /\ UNCHANGED <<reported, ran, signed, kept, metered, answered>>

\* A mistake: the shared counter is looked at again when it is time to charge.
ChargeLater(w) ==
  LET due == usage[<<call[w].payer, month>>] > live.free /\ call[w].payer \in Customers
  IN /\ At(w, "charge")
     /\ \/ due /\ reported' = [reported EXCEPT ![call[w].payer] = @ + 1]
        \/ (due => trouble) /\ UNCHANGED reported
     /\ Continue(w, call[w])
     /\ UNCHANGED <<usage, ran, signed, kept, metered, answered>>

\* Beyond the free calls one event goes to Stripe, if the payer is a customer
\* there; a report that fails is logged and forgotten.
Charge(w) ==
  LET due == call[w].over /\ call[w].payer \in Customers
  IN /\ At(w, "charge")
     /\ \/ due /\ reported' = [reported EXCEPT ![call[w].payer] = @ + 1]
        \/ (due => trouble) /\ UNCHANGED reported
     /\ Continue(w, call[w])
     /\ UNCHANGED <<usage, ran, signed, kept, metered, answered>>

\* What only reads: the rider is verified, the capabilities are listed.
Read(w) ==
  /\ At(w, "read") /\ Continue(w, call[w])
  /\ UNCHANGED <<usage, reported, ran, signed, kept, metered, answered>>

\* A negative verdict is a result like any other.
Run(w) ==
  /\ At(w, "run")
  /\ \E v \in live.verdicts \ {"fail"} :
       /\ Continue(w, [call[w] EXCEPT !.verdict = v])
       /\ ran' = ran \cup {<<call[w].id, v>>}
  /\ UNCHANGED <<usage, reported, signed, kept, metered, answered>>

Sign(w) ==
  /\ At(w, "sign") /\ Continue(w, call[w])
  /\ signed' = signed \cup {<<call[w].id, call[w].verdict>>}
  /\ UNCHANGED <<usage, reported, ran, kept, metered, answered>>

\* A mistake: the row is not waited for.
StoreOrNot(w) ==
  /\ At(w, "store") /\ Continue(w, call[w])
  /\ \/ kept' = kept \cup {call[w].id}
     \/ trouble /\ UNCHANGED kept
  /\ UNCHANGED <<usage, reported, ran, signed, metered, answered>>

\* The row is there before the call goes on.
Store(w) ==
  /\ At(w, "store") /\ Continue(w, call[w])
  /\ kept' = kept \cup {call[w].id}
  /\ UNCHANGED <<usage, reported, ran, signed, metered, answered>>

\* meterToolUse, and the tolls' insert: an outage never blocks the answer.
Meter(w) ==
  /\ At(w, "meter") /\ Continue(w, call[w])
  /\ \/ metered' = metered \cup {call[w].id}
     \/ trouble /\ UNCHANGED metered
  /\ UNCHANGED <<usage, reported, ran, signed, kept, answered>>

Answer(w) ==
  /\ At(w, "answer") /\ Continue(w, call[w])
  /\ answered' = answered \cup {<<call[w].id, call[w].verdict>>}
  /\ UNCHANGED <<usage, reported, ran, signed, kept, metered>>

\* A call ends without an answer: its work fails, no key is there to sign
\* with, its row is refused, or the invocation dies.
Stop(w) ==
  /\ call[w] # Rest
  /\ trouble \/ (At(w, "run") /\ "fail" \in live.verdicts)
  /\ call' = [call EXCEPT ![w] = Rest]
  /\ UNCHANGED <<live, trouble, month, usage, reported, started,
                 ran, signed, kept, metered, answered>>

NewMonth ==
  /\ month < Months /\ Pays(live)
  /\ month' = month + 1
  /\ UNCHANGED <<live, trouble, usage, reported, call, started,
                 ran, signed, kept, metered, answered>>

-----------------------------------------------------------------------------

Init ==
  /\ live \in Routes /\ trouble \in BOOLEAN
  /\ month = 1
  /\ usage = [pm \in Payers \X (1..Months) |-> 0]
  /\ reported = [p \in Payers |-> 0]
  /\ call = [w \in Workers |-> Rest] /\ started = 0
  /\ ran = {} /\ signed = {} /\ kept = {} /\ metered = {} /\ answered = {}

Next ==
  \/ \E w \in Workers :
       \/ \E p \in Payers \cup {None} : Begin(w, p)
       \/ Count(w) \/ Charge(w) \/ Read(w) \/ Run(w) \/ Sign(w)
       \/ Store(w) \/ Meter(w) \/ Answer(w) \/ Stop(w)
  \/ \E check \in {"live", "sandbox", "payer", "input", "limit", "size", "shape"} :
       Refused(check)
  \/ NewMonth

Spec == Init /\ [][Next]_vars

-----------------------------------------------------------------------------
(* Properties *)

Ids == 1..started

\* Calls carry steps of their route and the tables name admitted calls.
TypeOK ==
  /\ usage \in [Payers \X (1..Months) -> 0..started]
  /\ \A w \in Workers : IsSuffix(call[w].todo, live.work) /\ call[w].id \in 0..started
  /\ ran \cup signed \cup answered \subseteq Ids \X Verdicts
  /\ kept \cup metered \subseteq Ids

Billable(p) == MapThenSumSet(LAMBDA m : IF usage[<<p, m>>] > live.free
                                        THEN usage[<<p, m>>] - live.free ELSE 0, 1..Months)

\* Nobody is charged for a free call or twice for one (rate-limit.ts
\* checkMonthlyUsage, stripe.ts): a customer's meter events never outnumber
\* the calls counted beyond the free ones of each month, nobody else has any,
\* and with nothing failing every such call is reported once it is through.
\* A tool that could not run is not even counted (toll-tools.ts: fail closed).
ChargeIsUse ==
  \A p \in Payers :
    /\ reported[p] <= IF p \in Customers /\ Has(live, "charge") THEN Billable(p) ELSE 0
    /\ (/\ ~trouble /\ p \in Customers /\ Has(live, "charge")
        /\ \A w \in Workers : call[w].payer # p) => reported[p] = Billable(p)
    /\ live \in Tools => MapThenSumSet(LAMBDA m : usage[<<p, m>>], 1..Months) <= Cardinality(ran)

\* An answer is backed by what its route promises to do first: the receipt is
\* signed with the verdict answered and the row is there.  toll_meter prices
\* no call that left neither a row, nor a receipt, nor a result.
AnswerIsBacked ==
  /\ \A a \in answered :
       /\ Has(live, "run") => a \in ran
       /\ Has(live, "sign") => a \in signed
       /\ Has(live, "store") => a[1] \in kept
  /\ \A i \in metered : i \in kept \/ \E e \in signed \cup ran : e[1] = i
  /\ Has(live, "store") => metered \subseteq kept
=============================================================================
