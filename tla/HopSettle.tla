------------------------------ MODULE HopSettle ------------------------------
(***************************************************************************)
(* Hop settlement: POST /api/settle takes a SettleHop, answers 402 with    *)
(* what it accepts, and with an X-PAYMENT header has the x402 facilitator  *)
(* verify and then settle it.  Rider keeps no row of a hop; what is known  *)
(* of a payment is what the facilitator answers, and its requests and      *)
(* answers may be late, lost or garbled by a gateway.                      *)
(*                                                                         *)
(* Abstracted: an authorization is its payment, good for one amount; hops, *)
(* resources, networks and assets other than Base USDC.                    *)
(***************************************************************************)
EXTENDS Integers, SequencesExt, FiniteSets

CONSTANTS
  Payments,    \* EIP-3009 authorizations that payers sign
  Worth,       \* micro-USDC of each
  Funded,      \* those whose payer holds the money
  Riders,      \* clearances a caller may show, of None, "sandbox" and "live"
  HopAmounts,  \* amounts hops ask for, in micro-USDC; -1 is not a number
  HopWorkers,  \* concurrent invocations
  MaxHops,     \* bound: calls that reach the facilitator
  None

VARIABLES
  orders,      \* hops that the gates the deployment turned on let through
  garbling,    \* whether a gateway may answer in the facilitator's place
  debited,     \* payments the facilitator moved on chain
  settling,    \* calls whose settle request has not been acted upon
  hops,        \* calls at the facilitator
  hopsBegun,   \* calls that reached it so far
  told         \* answers: the call, its payment and the status

hopVars == <<orders, garbling, debited, settling, hops, hopsBegun, told>>

-----------------------------------------------------------------------------
(* Gates *)

Flags == {"attestation", "receipt", "ride"}

\* parseKeyRail: a key without a known prefix settles on its whole text.
Rails == {"x402", "unknown", "credits", "stripe", "tiun"}

Bad == "bad header"

Hops == [rider : Riders, receipt : {None, "pass", "fail"}, bound : BOOLEAN,
         rail : Rails \cup {None}, amount : HopAmounts, payment : Payments \cup {None, Bad}]

\* checkCitizenReceiptGate: what is shown must pass; required, it must be shown.
ReceiptRefused(h, on) == h.receipt \in {"fail"} \cup (IF "receipt" \in on THEN {None} ELSE {})

\* assertAttestationForSensitiveOp: no evidence passes while verify is parked.
AttestationRefused(on) == "attestation" \in on

\* verifySealedRideForExecute: a bound seat, where required.
RideRefused(h, on) == "ride" \in on /\ ~h.bound

\* The route's refusals in order; rail None is a body without a SettleHop.
Refusals(h, on) ==
  << <<h.rider = None, 401>>,
     <<h.rider = "sandbox" /\ h.payment # None, 403>>,
     <<AttestationRefused(on), 403>>,
     <<ReceiptRefused(h, on), 400>>,
     <<RideRefused(h, on), 403>>,
     <<h.rail = None, 400>>,
     <<h.rail = "credits", 410>>,
     <<h.rail \in {"stripe", "tiun"}, 402>>,
     <<h.amount < 0, 400>>,
     <<h.payment = None, 402>>,
     <<h.payment = Bad, 400>> >>

Passes(h, on) == \A r \in ToSet(Refusals(h, on)) : ~r[1]

\* A mistake: the header is not looked at for a sandbox rider.
PassesSandbox(h, on) == \A r \in ToSet(SubSeq(Refusals(h, on), 3, 11)) : ~r[1]

\* requirement: at least one micro-USDC.
Requirement(amount) == IF amount = 0 THEN 1 ELSE amount

-----------------------------------------------------------------------------
(* Calls *)

\* What reaches the facilitator, by what the deployment requires.
Orders(on) ==
  {[rider |-> h.rider, payment |-> h.payment, due |-> Requirement(h.amount)] :
     h \in {x \in Hops : Passes(x, on)}}

Nothing == [id |-> 0, at |-> "rest", hop |-> None]

Post(w, h) ==
  /\ hops[w] = Nothing /\ hopsBegun < MaxHops
  /\ hopsBegun' = hopsBegun + 1
  /\ hops' = [hops EXCEPT ![w] = [id |-> hopsBegun + 1, at |-> "verify", hop |-> h]]
  /\ UNCHANGED <<orders, garbling, debited, settling, told>>

\* A call that is refused, before or by a gate, changes nothing.
Turned == UNCHANGED hopVars

Tell(w, status) ==
  /\ told' = told \cup {[id |-> hops[w].id, hop |-> hops[w].hop, status |-> status]}
  /\ hops' = [hops EXCEPT ![w] = Nothing]

\* The facilitator's view: the right amount, unused, and covered.
Good(h) == Worth[h.payment] = h.due /\ h.payment \in Funded \ debited

\* A mistake: a payment that verifies is taken for one that is settled.
VerifyPays(w) ==
  /\ hops[w].at = "verify"
  /\ \/ /\ Good(hops[w].hop) /\ Tell(w, 200) /\ UNCHANGED settling
     \/ /\ ~Good(hops[w].hop) \/ garbling
        /\ Tell(w, 402) /\ UNCHANGED settling
     \/ \E status \in {502, 504} : Tell(w, status) /\ UNCHANGED settling
  /\ UNCHANGED <<orders, garbling, debited, hopsBegun>>

\* POST /verify: valid, refused, or no answer in time.  The settle request of
\* a valid payment leaves at once.
Verify(w) ==
  /\ hops[w].at = "verify"
  /\ \/ /\ Good(hops[w].hop)
        /\ hops' = [hops EXCEPT ![w].at = "settle"]
        /\ settling' = settling \cup {hops[w]}
        /\ UNCHANGED told
     \/ /\ ~Good(hops[w].hop) \/ garbling
        /\ Tell(w, 402) /\ UNCHANGED settling
     \/ \E status \in {502, 504} : Tell(w, status) /\ UNCHANGED settling
  /\ UNCHANGED <<orders, garbling, debited, hopsBegun>>

Asked(w) == {s \in settling : s.id = hops[w].id}

\* The facilitator moves the money, whether or not anyone still waits: the
\* chain takes an authorization once.
Debit(s) ==
  /\ s \in settling
  /\ Good(s.hop)
  /\ debited' = debited \cup {s.hop.payment}
  /\ settling' = settling \ {s}
  /\ hops' = [w \in HopWorkers |-> IF hops[w].id = s.id THEN [hops[w] EXCEPT !.at = "done"]
                                   ELSE hops[w]]
  /\ UNCHANGED <<orders, garbling, hopsBegun, told>>

\* Its request is lost, or the payment is gone by the time it is handled.
NotDebited(s) ==
  /\ s \in settling
  /\ settling' = settling \ {s}
  /\ hops' = [w \in HopWorkers |-> IF hops[w].id = s.id /\ ~Good(s.hop)
                                   THEN [hops[w] EXCEPT !.at = "spent"] ELSE hops[w]]
  /\ UNCHANGED <<orders, garbling, debited, hopsBegun, told>>

\* The answer to POST /settle; one that is not JSON reads as not a success.
Answered(w) ==
  /\ \/ hops[w].at = "done" /\ Tell(w, 200)
     \/ hops[w].at = "spent" /\ Tell(w, 402)
     \/ hops[w].at \in {"settle", "done", "spent"} /\ garbling /\ Tell(w, 402)
     \/ hops[w].at \in {"settle", "done", "spent"} /\ \E status \in {502, 504} : Tell(w, status)
  /\ UNCHANGED <<orders, garbling, debited, settling, hopsBegun>>

-----------------------------------------------------------------------------

Init ==
  /\ orders \in {Orders(on) : on \in SUBSET Flags} /\ garbling \in BOOLEAN
  /\ debited = {} /\ settling = {}
  /\ hops = [w \in HopWorkers |-> Nothing] /\ hopsBegun = 0 /\ told = {}

Next ==
  \/ \E w \in HopWorkers :
       \/ \E h \in orders : Post(w, h)
       \/ Verify(w) \/ Answered(w)
  \/ \E s \in settling : Debit(s) \/ NotDebited(s)
  \/ Turned

Spec == Init /\ [][Next]_hopVars

-----------------------------------------------------------------------------
(* Properties *)

TypeOK ==
  /\ debited \subseteq Funded
  /\ \A w \in HopWorkers : hops[w].at \in {"verify", "settle", "done", "spent"} =>
       hops[w].hop.payment \in Payments
  /\ \A t \in told : t.status \in {200, 402, 502, 504} /\ t.id \in 1..hopsBegun

Of(p) == {t \in told : t.hop.payment = p}
Waiting(p) == \E w \in HopWorkers : hops[w] # Nothing /\ hops[w].hop.payment = p

\* A hop is answered 200 only for money that moved, in the amount it asked
\* for and never for a sandbox rider, and one payment pays for one hop,
\* however its calls overlap.  A caller whose payment moved is never told
\* only that it was refused: if nothing answered 200 something answered
\* 502 or 504, "do not assume debit" (settle-hop.ts settleX402) - unless a
\* gateway's answer was read as the facilitator's.
HopPaidOnce ==
  /\ \A t \in told : t.status = 200 =>
       /\ t.hop.payment \in debited /\ Worth[t.hop.payment] = t.hop.due
       /\ t.hop.rider = "live"
  /\ \A s, t \in told : s.status = 200 /\ t.status = 200 /\ s.hop.payment = t.hop.payment => s = t
  /\ \A p \in debited : ~garbling /\ ~Waiting(p) => \E t \in Of(p) : t.status \in {200, 502, 504}
=============================================================================
