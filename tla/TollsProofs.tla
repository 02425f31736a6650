----------------------------- MODULE TollsProofs -----------------------------
(***************************************************************************)
(* What the parts of Tolls promise, for every value of the constants: a    *)
(* hop is paid once, registrations agree, the client sends nothing late,   *)
(* an allowed spend is within its grant or every hop of its warrant,       *)
(* plans add up, a revoked rider stops, history is kept, calls are charged *)
(* as they were counted, and each part keeps its shapes.  What             *)
(* CuniRegistryProofs proves is cited through an instance; the other parts *)
(* have their inductive invariants here.                                   *)
(***************************************************************************)
EXTENDS Tolls, Sequences, SequenceTheorems, FiniteSetTheorems, WellFoundedInduction, TLAPS

NP == INSTANCE CuniRegistryProofs WITH Keys <- {"contract_id"}, outage <- unreachable

-----------------------------------------------------------------------------
(* The composition *)

\* One part moves at a time, and the others keep what they have.
LEMMA PartsMove ==
  ASSUME [Next]_vars
  PROVE  /\ UNCHANGED part
         /\ C!Next \/ UNCHANGED calls
         /\ G!Next \/ UNCHANGED grants
         /\ H!Next \/ UNCHANGED settlement
         /\ P!Next \/ UNCHANGED planners
         /\ R!Next \/ UNCHANGED riders
         /\ M!Next \/ UNCHANGED clients
         /\ N!Next \/ UNCHANGED registry
         /\ W!Next \/ UNCHANGED warrants
         /\ I!Next \/ UNCHANGED aliases
<1>1. CASE Next
  BY <1>1 DEF Next
<1>2. CASE UNCHANGED vars
  BY <1>2 DEF vars
<1>. QED
  BY <1>1, <1>2

LEMMA PartsBegin ==
  ASSUME Init
  PROVE  C!Init /\ G!Init /\ H!Init /\ P!Init /\ R!Init /\ M!Init /\ N!Init /\ W!Init /\ I!Init
BY DEF Init

-----------------------------------------------------------------------------
(* Hops: a settle request stands either for a call that still waits for it *)
(* or for one whose caller was told not to assume anything (AskedFor); so  *)
(* when the facilitator moves the money, exactly one call becomes done, or *)
(* somebody was told 502 or 504 (Accounted); and as the chain takes an     *)
(* authorization once, no payment makes two calls done (OneDone).          *)

\* What a hop that passed every gate looks like, and a call that carries it.
HopsPassed == [rider : {"live"}, payment : Payments, due : {H!Requirement(a) : a \in HopAmounts}]
HopCalls == [id : Nat \ {0}, at : {"verify", "settle", "done", "spent"}, hop : HopsPassed]
HopAnswers == [id : Nat \ {0}, hop : HopsPassed, status : {200, 402, 502, 504}]

HopShapes ==
  /\ orders \subseteq HopsPassed
  /\ garbling \in BOOLEAN
  /\ hopsBegun \in Nat
  /\ debited \subseteq Funded
  /\ hops \in [Workers -> HopCalls \cup {H!Nothing}]
  /\ settling \subseteq {c \in HopCalls : c.at = "verify"}
  /\ told \subseteq HopAnswers

\* A call has its id for itself, and is answered once.
HopsNumbered ==
  /\ \A w \in Workers : hops[w].id <= hopsBegun
  /\ \A t \in told : t.id <= hopsBegun
  /\ \A v, w \in Workers : hops[v].id = hops[w].id => v = w \/ hops[v] = H!Nothing
  /\ \A w \in Workers, t \in told : hops[w].id # t.id

Unsure(t) == ~garbling => t.status \in {502, 504}

\* Each settle request: whose it is, and that he still waits or was told.
AskedFor ==
  /\ \A r, s \in settling : r.id = s.id => r = s
  /\ \A s \in settling, w \in Workers : hops[w].id = s.id =>
       hops[w].at = "settle" /\ hops[w].hop = s.hop
  /\ \A s \in settling : \/ \E w \in Workers : hops[w].id = s.id
                         \/ \E t \in told : t.id = s.id /\ t.hop = s.hop /\ Unsure(t)

PaidFor(h) == h.payment \in debited /\ Worth[h.payment] = h.due

\* What was paid for: calls that are done, and hops answered 200.
OneDone ==
  /\ \A w \in Workers : hops[w].at = "done" => PaidFor(hops[w].hop)
  /\ \A t \in told : t.status = 200 => PaidFor(t.hop)
  /\ \A v, w \in Workers : hops[v].at = "done" /\ hops[w].at = "done"
       /\ hops[v].hop.payment = hops[w].hop.payment => v = w
  /\ \A w \in Workers, t \in told : hops[w].at = "done" /\ t.status = 200 =>
       hops[w].hop.payment # t.hop.payment
  /\ \A s, t \in told : s.status = 200 /\ t.status = 200 /\ s.hop.payment = t.hop.payment => s = t

Accounted ==
  \A p \in debited : ~garbling =>
    \/ \E w \in Workers : hops[w].at = "done" /\ hops[w].hop.payment = p
    \/ \E t \in told : t.hop.payment = p /\ t.status \in {200, 502, 504}

HopInv == HopShapes /\ HopsNumbered /\ AskedFor /\ OneDone /\ Accounted

-----------------------------------------------------------------------------
(* The gates *)

\* A hop that passes them, whatever the deployment requires, has a live rider
\* and a payment: an authorization, not an absent or a garbled header.
LEMMA GatesHold ==
  ASSUME NEW on, NEW h \in H!Hops, H!Passes(h, on)
  PROVE  h.rider = "live" /\ h.payment \in Payments
<1>1. \A i \in 1..11 : ~H!Refusals(h, on)[i][1]
  BY DEF H!Passes, H!ToSet, H!Refusals
<1>2. ~<<h.rider = None, 401>>[1]
  BY <1>1 DEF H!Refusals
<1>3. ~<<h.rider = "sandbox" /\ h.payment # None, 403>>[1]
  BY <1>1 DEF H!Refusals
<1>4. ~<<h.payment = None, 402>>[1] /\ ~<<h.payment = H!Bad, 400>>[1]
  BY <1>1 DEF H!Refusals
<1>5. h.rider \in {None, "sandbox", "live"} /\ h.payment \in Payments \cup {None, H!Bad}
  BY DEF H!Hops
<1>. QED
  BY <1>2, <1>3, <1>4, <1>5

LEMMA OrdersPassed == ASSUME NEW on PROVE H!Orders(on) \subseteq HopsPassed
<1>1. ASSUME NEW h \in H!Hops, H!Passes(h, on)
      PROVE  [rider |-> h.rider, payment |-> h.payment, due |-> H!Requirement(h.amount)]
               \in HopsPassed
  <2>1. h.rider = "live" /\ h.payment \in Payments /\ h.amount \in HopAmounts
    BY <1>1, GatesHold DEF H!Hops
  <2>. QED
    BY <2>1 DEF HopsPassed
<1>. QED
  BY <1>1 DEF H!Orders

-----------------------------------------------------------------------------
(* What the invariant says *)

LEMMA HopInvTypes == ASSUME HopInv PROVE H!TypeOK
<1>1. \A w \in Workers : hops[w].at \in {"verify", "settle", "done", "spent"} =>
        hops[w].hop.payment \in Payments
  BY DEF HopInv, HopShapes, HopCalls, H!Nothing, HopsPassed
<1>2. \A t \in told : t.status \in {200, 402, 502, 504} /\ t.id \in 1..hopsBegun
  BY DEF HopInv, HopShapes, HopsNumbered, HopAnswers
<1>. QED
  BY <1>1, <1>2 DEF HopInv, HopShapes, H!TypeOK

LEMMA HopInvPaid == ASSUME HopInv PROVE H!HopPaidOnce
<1>1. \A t \in told : t.status = 200 =>
        /\ t.hop.payment \in debited /\ Worth[t.hop.payment] = t.hop.due /\ t.hop.rider = "live"
  BY DEF HopInv, HopShapes, OneDone, PaidFor, HopAnswers, HopsPassed
<1>2. ASSUME NEW p \in debited, ~garbling, ~H!Waiting(p)
      PROVE  \E t \in H!Of(p) : t.status \in {200, 502, 504}
  <2>1. ~\E w \in Workers : hops[w].at = "done" /\ hops[w].hop.payment = p
    BY <1>2 DEF H!Waiting, H!Nothing
  <2>. QED
    BY <1>2, <2>1 DEF HopInv, Accounted, H!Of
<1>. QED
  BY <1>1, <1>2 DEF HopInv, OneDone, H!HopPaidOnce

LEMMA HopInvStarts == ASSUME H!Init PROVE HopInv
<1>1. orders \subseteq HopsPassed
  BY OrdersPassed DEF H!Init
<1>. QED
  BY <1>1 DEF H!Init, HopInv, HopShapes, HopsNumbered, AskedFor, OneDone, Accounted, H!Nothing

-----------------------------------------------------------------------------
(* HopCalls *)

LEMMA HopPostInv ==
  ASSUME HopInv, NEW w \in Workers, NEW h \in orders, H!Post(w, h) PROVE HopInv'
<1>. PICK c : c = [id |-> hopsBegun + 1, at |-> "verify", hop |-> h]
  OBVIOUS
<1>1. /\ hopsBegun \in Nat /\ hopsBegun' = hopsBegun + 1 /\ hops[w] = H!Nothing
      /\ hops' = [hops EXCEPT ![w] = c]
      /\ UNCHANGED <<orders, garbling, debited, settling, told>>
  BY DEF H!Post, HopInv, HopShapes
<1>2. c \in HopCalls /\ c.id = hopsBegun + 1 /\ c.at = "verify"
  BY <1>1 DEF HopInv, HopShapes, HopCalls
<1>3. /\ hops' \in [Workers -> HopCalls \cup {H!Nothing}]
      /\ hops'[w] = c /\ \A v \in Workers \ {w} : hops'[v] = hops[v]
  BY <1>1, <1>2 DEF HopInv, HopShapes
<1>4. /\ \A v \in Workers : hops[v].id \in Nat /\ hops[v].id <= hopsBegun
      /\ \A t \in told : t.id \in Nat /\ t.id <= hopsBegun
      /\ \A s \in settling : s.id \in Nat \ {0}
  BY DEF HopInv, HopShapes, HopsNumbered, HopCalls, HopAnswers, H!Nothing
<1>5. HopShapes'
  BY <1>1, <1>3 DEF HopInv, HopShapes
<1>6. HopsNumbered'
  BY <1>1, <1>2, <1>3, <1>4 DEF HopInv, HopsNumbered
<1>7. \A s \in settling : s.id <= hopsBegun
  BY <1>4 DEF HopInv, AskedFor
<1>8. AskedFor'
  <2>1. hops[w].id = 0
    BY <1>1 DEF H!Nothing
  <2>2. \A s \in settling, v \in Workers : hops'[v].id = s.id <=> hops[v].id = s.id /\ v # w
    BY <1>1, <1>2, <1>3, <1>4, <1>7, <2>1
  <2>3. \A s \in settling, v \in Workers : hops[v].id = s.id => hops'[v] = hops[v]
    BY <1>3, <1>4, <2>1
  <2>4. \A s \in settling, v \in Workers : hops'[v].id = s.id =>
          hops'[v].at = "settle" /\ hops'[v].hop = s.hop
    BY <2>2, <2>3 DEF HopInv, AskedFor
  <2>5. \A s \in settling : \/ \E v \in Workers : hops'[v].id = s.id
                            \/ \E t \in told : t.id = s.id /\ t.hop = s.hop /\ Unsure(t)
    BY <2>3 DEF HopInv, AskedFor
  <2>. QED
    BY <1>1, <2>4, <2>5 DEF HopInv, AskedFor, Unsure
<1>9. OneDone' /\ Accounted'
  <2>1. \A v \in Workers : hops'[v].at = "done" => hops[v].at = "done" /\ hops'[v] = hops[v]
    BY <1>2, <1>3
  <2>2. \A v \in Workers : hops[v].at = "done" => hops'[v] = hops[v]
    BY <1>1, <1>3 DEF H!Nothing
  <2>. QED
    BY <1>1, <2>1, <2>2 DEF HopInv, OneDone, PaidFor, Accounted
<1>. QED
  BY <1>5, <1>6, <1>8, <1>9 DEF HopInv

\* A call is answered: 200 only if it is done, and short of 502 or 504 only if
\* it has not asked for the money, or a gateway may have spoken.
LEMMA HopTellInv ==
  ASSUME HopInv, NEW w \in Workers, NEW status \in {200, 402, 502, 504}, hops[w] \in HopCalls,
         H!Tell(w, status), UNCHANGED <<orders, garbling, debited, settling, hopsBegun>>,
         status = 200 => hops[w].at = "done",
         hops[w].at = "done" /\ ~garbling => status # 402,
         hops[w].at = "settle" /\ ~garbling => status \in {502, 504}
  PROVE  HopInv'
<1>. PICK c \in HopCalls : c = hops[w]
  OBVIOUS
<1>. [id |-> c.id, hop |-> c.hop, status |-> status] \in HopAnswers
  BY DEF HopCalls, HopAnswers
<1>. PICK answer \in HopAnswers : answer = [id |-> c.id, hop |-> c.hop, status |-> status]
  OBVIOUS
<1>1. /\ answer.id = c.id /\ answer.hop = c.hop /\ answer.status = status
      /\ told' = told \cup {answer}
  <2>1. told' = told \cup {[id |-> c.id, hop |-> c.hop, status |-> status]}
    BY DEF H!Tell
  <2>. QED
    BY <2>1
<1>2. /\ hops' \in [Workers -> HopCalls \cup {H!Nothing}]
      /\ hops'[w] = H!Nothing /\ \A v \in Workers \ {w} : hops'[v] = hops[v]
  BY DEF H!Tell, HopInv, HopShapes
<1>3. /\ c.id \in Nat \ {0} /\ c.id <= hopsBegun /\ H!Nothing.id = 0 /\ H!Nothing.at = "rest"
      /\ hopsBegun \in Nat
  BY DEF HopCalls, HopInv, HopShapes, HopsNumbered, H!Nothing
<1>4. \A v \in Workers : v # w => hops[v].id # c.id
  BY <1>3 DEF HopInv, HopsNumbered
<1>5. \A t \in told : t.id \in Nat \ {0}
  BY DEF HopInv, HopShapes, HopAnswers
<1>6. HopShapes'
  BY <1>1, <1>2 DEF HopInv, HopShapes
<1>7. HopsNumbered'
  <2>1. \A v \in Workers : hops'[v].id <= hopsBegun
    BY <1>2, <1>3 DEF HopInv, HopsNumbered
  <2>2. \A t \in told' : t.id <= hopsBegun
    BY <1>1, <1>3 DEF HopInv, HopsNumbered
  <2>3. \A u, v \in Workers : hops'[u].id = hops'[v].id => u = v \/ hops'[u] = H!Nothing
    <3>1. \A u \in Workers : hops[u].id = 0 => hops[u] = H!Nothing
      BY DEF HopInv, HopShapes, HopCalls
    <3>. QED
      BY <1>2, <1>3, <3>1 DEF HopInv, HopsNumbered
  <2>4. \A v \in Workers, t \in told' : hops'[v].id # t.id
    BY <1>1, <1>2, <1>3, <1>4, <1>5 DEF HopInv, HopsNumbered
  <2>. QED
    BY <2>1, <2>2, <2>3, <2>4 DEF HopsNumbered
<1>8. AskedFor'
  <2>1. \A s \in settling : s.id \in Nat \ {0}
    BY DEF HopInv, HopShapes, HopCalls
  <2>2. \A s \in settling, v \in Workers : hops'[v].id = s.id =>
          hops'[v].at = "settle" /\ hops'[v].hop = s.hop
    BY <1>2, <1>3, <2>1 DEF HopInv, AskedFor
  <2>3. ASSUME NEW s \in settling
        PROVE  \/ \E v \in Workers : hops'[v].id = s.id
               \/ \E t \in told' : t.id = s.id /\ t.hop = s.hop /\ Unsure(t)'
    <3>1. CASE c.id = s.id
      <4>1. c.at = "settle" /\ c.hop = s.hop
        BY <3>1 DEF HopInv, AskedFor
      <4>2. answer \in told' /\ Unsure(answer)'
        BY <1>1, <4>1 DEF Unsure
      <4>. QED
        BY <1>1, <3>1, <4>1, <4>2
    <3>2. CASE c.id # s.id
      BY <1>1, <1>2, <3>2 DEF HopInv, AskedFor, Unsure
    <3>. QED
      BY <3>1, <3>2
  <2>. QED
    BY <2>2, <2>3 DEF HopInv, AskedFor
<1>9. \A v \in Workers : hops'[v].at = "done" =>
        v # w /\ hops[v].at = "done" /\ hops'[v] = hops[v]
  BY <1>2, <1>3
<1>10. OneDone'
  <2>1. \A t \in told' : t.status = 200 => PaidFor(t.hop)'
    BY <1>1 DEF HopInv, OneDone, PaidFor
  <2>2. \A v \in Workers : hops'[v].at = "done" => PaidFor(hops[v].hop)'
    BY <1>9 DEF HopInv, OneDone, PaidFor
  <2>3. \A v \in Workers, t \in told' : hops'[v].at = "done" /\ t.status = 200 =>
          hops'[v].hop.payment # t.hop.payment
    BY <1>1, <1>9 DEF HopInv, OneDone
  <2>4. \A s, t \in told' : s.status = 200 /\ t.status = 200 /\ s.hop.payment = t.hop.payment
          => s = t
    BY <1>1 DEF HopInv, OneDone
  <2>. QED
    BY <1>9, <2>1, <2>2, <2>3, <2>4 DEF HopInv, OneDone, PaidFor
<1>11. Accounted'
  <2>. SUFFICES ASSUME NEW p \in debited, ~garbling
                PROVE  \/ \E v \in Workers : hops'[v].at = "done" /\ hops'[v].hop.payment = p
                       \/ \E t \in told' : t.hop.payment = p /\ t.status \in {200, 502, 504}
    BY DEF Accounted
  <2>1. CASE \E t \in told : t.hop.payment = p /\ t.status \in {200, 502, 504}
    BY <1>1, <2>1
  <2>2. CASE \E v \in Workers : hops[v].at = "done" /\ hops[v].hop.payment = p
    <3>1. PICK v \in Workers : hops[v].at = "done" /\ hops[v].hop.payment = p
      BY <2>2
    <3>2. CASE v = w
      BY <1>1, <3>1, <3>2
    <3>3. CASE v # w
      BY <1>2, <3>1, <3>3
    <3>. QED
      BY <3>2, <3>3
  <2>. QED
    BY <2>1, <2>2 DEF HopInv, Accounted
<1>. QED
  BY <1>6, <1>7, <1>8, <1>10, <1>11 DEF HopInv

LEMMA HopVerifyInv ==
  ASSUME HopInv, NEW w \in Workers, H!Verify(w) PROVE HopInv'
<1>1. hops[w].at = "verify" /\ UNCHANGED <<orders, garbling, debited, hopsBegun>>
  BY DEF H!Verify
<1>2. PICK c \in HopCalls : c = hops[w] /\ c.at = "verify"
  BY <1>1 DEF HopInv, HopShapes, H!Nothing
<1>3. CASE /\ hops' = [hops EXCEPT ![w].at = "settle"]
           /\ settling' = settling \cup {hops[w]} /\ UNCHANGED told
  <2>. PICK d : d = [c EXCEPT !.at = "settle"]
    OBVIOUS
  <2>1. d \in HopCalls /\ d.at = "settle" /\ d.id = c.id /\ d.hop = c.hop /\ c.id \in Nat \ {0}
    BY DEF HopCalls
  <2>2. /\ hops' \in [Workers -> HopCalls \cup {H!Nothing}]
        /\ hops'[w] = d /\ \A v \in Workers \ {w} : hops'[v] = hops[v]
    BY <1>2, <1>3, <2>1 DEF HopInv, HopShapes
  <2>3. \A v \in Workers : /\ hops'[v].id = hops[v].id /\ hops'[v].hop = hops[v].hop
                           /\ hops'[v] = H!Nothing <=> hops[v] = H!Nothing
    <3>1. H!Nothing.at = "rest" /\ hops[w].at = "verify"
      BY <1>1 DEF H!Nothing
    <3>2. hops[w] # H!Nothing /\ hops'[w] # H!Nothing
      BY <2>1, <2>2, <3>1
    <3>. QED
      BY <1>2, <2>1, <2>2, <3>2
  <2>4. HopShapes' /\ HopsNumbered'
    BY <1>1, <1>2, <1>3, <2>2, <2>3 DEF HopInv, HopShapes, HopsNumbered
  <2>5. \A s \in settling : s.id # c.id
    BY <1>2 DEF HopInv, AskedFor
  <2>6. \A v \in Workers : v # w => hops[v].id # c.id
    BY <1>2, <2>1 DEF HopInv, HopsNumbered, H!Nothing
  <2>7. settling' = settling \cup {c}
    BY <1>2, <1>3
  <2>8. AskedFor'
    <3>1. \A r, s \in settling' : r.id = s.id => r = s
      BY <2>5, <2>7 DEF HopInv, AskedFor
    <3>2. ASSUME NEW s \in settling', NEW v \in Workers, hops'[v].id = s.id
          PROVE  hops'[v].at = "settle" /\ hops'[v].hop = s.hop
      <4>1. CASE s = c
        BY <2>1, <2>2, <2>6, <3>2, <4>1
      <4>2. CASE s \in settling
        <5>1. v # w
          BY <1>2, <2>3, <2>5, <3>2, <4>2
        <5>. QED
          BY <2>2, <3>2, <4>2, <5>1 DEF HopInv, AskedFor
      <4>. QED
        BY <2>7, <4>1, <4>2
    <3>3. ASSUME NEW s \in settling'
          PROVE  \/ \E v \in Workers : hops'[v].id = s.id
                 \/ \E t \in told' : t.id = s.id /\ t.hop = s.hop /\ Unsure(t)'
      BY <1>1, <1>2, <1>3, <2>3, <2>7 DEF HopInv, AskedFor, Unsure
    <3>. QED
      BY <3>1, <3>2, <3>3 DEF AskedFor
  <2>9. \A v \in Workers : /\ hops'[v].at = "done" => hops'[v] = hops[v]
                           /\ hops[v].at = "done" => hops'[v] = hops[v]
    BY <1>2, <2>1, <2>2
  <2>10. OneDone' /\ Accounted'
    BY <1>1, <1>3, <2>9 DEF HopInv, OneDone, PaidFor, Accounted
  <2>. QED
    BY <2>4, <2>8, <2>10 DEF HopInv
<1>4. CASE \E status \in {402, 502, 504} : H!Tell(w, status) /\ UNCHANGED settling
  BY <1>1, <1>2, <1>4, HopTellInv
<1>. QED
  BY <1>3, <1>4 DEF H!Verify

LEMMA HopAnsweredInv ==
  ASSUME HopInv, NEW w \in Workers, H!Answered(w) PROVE HopInv'
<1>1. hops[w] \in HopCalls /\ UNCHANGED <<orders, garbling, debited, settling, hopsBegun>>
  BY DEF H!Answered, HopInv, HopShapes, H!Nothing
<1>2. PICK status \in {200, 402, 502, 504} :
        /\ H!Tell(w, status)
        /\ status = 200 => hops[w].at = "done"
        /\ status = 402 => garbling \/ hops[w].at = "spent"
  BY DEF H!Answered
<1>. QED
  BY <1>1, <1>2, HopTellInv

-----------------------------------------------------------------------------
(* The facilitator acts on a settle request *)

\* The call it is for, if anyone still waits, is told so by at.
LEMMA HopsMarked ==
  ASSUME HopInv, NEW s \in settling, NEW at \in {"done", "spent"}, NEW mine \in SUBSET Workers,
         \A w \in mine : hops[w].id = s.id,
         hops' = [w \in Workers |-> IF w \in mine THEN [hops[w] EXCEPT !.at = at] ELSE hops[w]]
  PROVE  /\ s \in HopCalls /\ s.id \in Nat \ {0}
         /\ hops' \in [Workers -> HopCalls \cup {H!Nothing}]
         /\ \A w \in mine : /\ hops[w].at = "settle" /\ hops[w].hop = s.hop
                            /\ hops'[w].at = at
         /\ \A w \in Workers \ mine : hops'[w] = hops[w]
         /\ \A w \in Workers : /\ hops'[w].id = hops[w].id /\ hops'[w].hop = hops[w].hop
                               /\ hops'[w] = H!Nothing => hops[w] = H!Nothing
<1>1. s \in HopCalls /\ s.id \in Nat \ {0}
  BY DEF HopInv, HopShapes, HopCalls
<1>2. ASSUME NEW w \in mine
      PROVE  /\ hops[w].at = "settle" /\ hops[w].hop = s.hop
             /\ hops'[w] \in HopCalls /\ hops'[w].at = at
             /\ hops'[w].id = hops[w].id /\ hops'[w].hop = hops[w].hop
  <2>1. hops[w].id = s.id /\ hops[w].at = "settle" /\ hops[w].hop = s.hop
    BY DEF HopInv, AskedFor
  <2>2. hops[w] \in HopCalls
    BY <2>1 DEF HopInv, HopShapes, H!Nothing
  <2>3. hops'[w] = [hops[w] EXCEPT !.at = at]
    OBVIOUS
  <2>. QED
    BY <2>1, <2>2, <2>3 DEF HopCalls
<1>3. \A w \in Workers \ mine : hops'[w] = hops[w] /\ hops[w] \in HopCalls \cup {H!Nothing}
  BY DEF HopInv, HopShapes
<1>4. hops' \in [Workers -> HopCalls \cup {H!Nothing}]
  <2>1. DOMAIN hops' = Workers /\ hops' = [w \in Workers |-> hops'[w]]
    OBVIOUS
  <2>2. \A w \in Workers : hops'[w] \in HopCalls \cup {H!Nothing}
    BY <1>2, <1>3
  <2>. QED
    BY <2>1, <2>2
<1>5. \A w \in mine : hops'[w] # H!Nothing
  BY <1>2 DEF H!Nothing
<1>. QED
  BY <1>1, <1>2, <1>3, <1>4, <1>5

LEMMA HopDebitInv ==
  ASSUME HopInv, NEW s \in settling, H!Debit(s) PROVE HopInv'
<1>. PICK mine \in SUBSET Workers : mine = {w \in Workers : hops[w].id = s.id}
  OBVIOUS
<1>1. /\ UNCHANGED <<orders, garbling, hopsBegun, told>>
      /\ settling' = settling \ {s} /\ debited' = debited \cup {s.hop.payment}
      /\ hops' = [w \in Workers |-> IF w \in mine THEN [hops[w] EXCEPT !.at = "done"]
                                       ELSE hops[w]]
  BY DEF H!Debit
<1>2. /\ s.hop.payment \in Funded /\ s.hop.payment \notin debited
      /\ Worth[s.hop.payment] = s.hop.due
  BY DEF H!Debit, H!Good
<1>3. /\ s \in HopCalls /\ s.id \in Nat \ {0}
      /\ hops' \in [Workers -> HopCalls \cup {H!Nothing}]
      /\ \A w \in mine : hops[w].at = "settle" /\ hops[w].hop = s.hop /\ hops'[w].at = "done"
      /\ \A w \in Workers \ mine : hops'[w] = hops[w]
      /\ \A w \in Workers : /\ hops'[w].id = hops[w].id /\ hops'[w].hop = hops[w].hop
                            /\ hops'[w] = H!Nothing => hops[w] = H!Nothing
  BY <1>1, HopsMarked
<1>4. \A v, w \in mine : v = w
  <2>1. \A w \in mine : hops[w] # H!Nothing
    BY <1>3 DEF H!Nothing
  <2>. QED
    BY <2>1 DEF HopInv, HopsNumbered
<1>5. HopShapes'
  BY <1>1, <1>2, <1>3 DEF HopInv, HopShapes
<1>6. HopsNumbered'
  <2>1. \A w \in Workers : hops[w] = H!Nothing => hops'[w] = H!Nothing
    BY <1>3 DEF H!Nothing
  <2>. QED
    BY <1>1, <1>3, <2>1 DEF HopInv, HopsNumbered
<1>7. AskedFor'
  <2>1. \A r \in settling' : r \in settling /\ r.id # s.id
    BY <1>1 DEF HopInv, AskedFor
  <2>2. \A r \in settling', w \in Workers : hops'[w].id = r.id =>
          hops'[w].at = "settle" /\ hops'[w].hop = r.hop
    BY <1>3, <2>1 DEF HopInv, AskedFor
  <2>3. \A r \in settling' : \/ \E w \in Workers : hops'[w].id = r.id
                             \/ \E t \in told' : t.id = r.id /\ t.hop = r.hop /\ Unsure(t)'
    BY <1>1, <1>3, <2>1 DEF HopInv, AskedFor, Unsure
  <2>. QED
    BY <2>1, <2>2, <2>3 DEF HopInv, AskedFor
<1>8. \A w \in Workers : hops'[w].at = "done" =>
        \/ w \in mine /\ hops'[w].hop.payment = s.hop.payment
        \/ w \notin mine /\ hops[w].at = "done" /\ hops'[w].hop.payment \in debited
  BY <1>3 DEF HopInv, OneDone, PaidFor
<1>9. \A t \in told : t.status = 200 => t.hop.payment \in debited
  BY DEF HopInv, OneDone, PaidFor
<1>10. OneDone'
  <2>1. \A w \in Workers : hops'[w].at = "done" => PaidFor(hops[w].hop)'
    <3>1. ASSUME NEW w \in mine PROVE PaidFor(hops[w].hop)'
      <4>1. hops'[w].hop = s.hop
        BY <1>3
      <4>. QED
        BY <1>1, <1>2, <4>1 DEF PaidFor
    <3>2. \A w \in Workers \ mine : hops'[w].at = "done" => PaidFor(hops[w].hop)'
      BY <1>1, <1>3 DEF HopInv, OneDone, PaidFor
    <3>. QED
      BY <3>1, <3>2
  <2>2. \A t \in told' : t.status = 200 => PaidFor(t.hop)'
    BY <1>1 DEF HopInv, OneDone, PaidFor
  <2>3. \A v, w \in Workers : hops'[v].at = "done" /\ hops'[w].at = "done"
          /\ hops'[v].hop.payment = hops'[w].hop.payment => v = w
    BY <1>2, <1>3, <1>4, <1>8 DEF HopInv, OneDone
  <2>4. \A w \in Workers, t \in told' : hops'[w].at = "done" /\ t.status = 200 =>
          hops'[w].hop.payment # t.hop.payment
    BY <1>1, <1>2, <1>3, <1>8, <1>9 DEF HopInv, OneDone
  <2>5. \A r, t \in told' : r.status = 200 /\ t.status = 200 /\ r.hop.payment = t.hop.payment
          => r = t
    BY <1>1 DEF HopInv, OneDone
  <2>. QED
    BY <2>1, <2>2, <2>3, <2>4, <2>5 DEF OneDone, PaidFor
<1>11. Accounted'
  <2>. SUFFICES ASSUME NEW p \in debited', ~garbling
                PROVE  \/ \E v \in Workers : hops'[v].at = "done" /\ hops'[v].hop.payment = p
                       \/ \E t \in told' : t.hop.payment = p /\ t.status \in {200, 502, 504}
    BY <1>1 DEF Accounted
  <2>1. CASE p \in debited
    <3>1. \A w \in Workers : hops[w].at = "done" => hops'[w] = hops[w]
      BY <1>3
    <3>. QED
      BY <1>1, <2>1, <3>1 DEF HopInv, Accounted
  <2>2. CASE p = s.hop.payment
    <3>1. CASE mine # {}
      BY <1>3, <2>2, <3>1
    <3>2. CASE mine = {}
      <4>1. \E t \in told : t.id = s.id /\ t.hop = s.hop /\ Unsure(t)
        BY <3>2 DEF HopInv, AskedFor
      <4>. QED
        BY <1>1, <2>2, <4>1 DEF Unsure
    <3>. QED
      BY <3>1, <3>2
  <2>. QED
    BY <1>1, <2>1, <2>2
<1>. QED
  BY <1>5, <1>6, <1>7, <1>10, <1>11 DEF HopInv

LEMMA HopNotDebitedInv ==
  ASSUME HopInv, NEW s \in settling, H!NotDebited(s) PROVE HopInv'
<1>. PICK mine \in SUBSET Workers :
       mine = {w \in Workers : hops[w].id = s.id /\ ~H!Good(s.hop)}
  OBVIOUS
<1>1. /\ UNCHANGED <<orders, garbling, debited, hopsBegun, told>>
      /\ settling' = settling \ {s}
      /\ hops' = [w \in Workers |-> IF w \in mine THEN [hops[w] EXCEPT !.at = "spent"]
                                       ELSE hops[w]]
  BY DEF H!NotDebited
<1>2. /\ s \in HopCalls /\ s.id \in Nat \ {0}
      /\ hops' \in [Workers -> HopCalls \cup {H!Nothing}]
      /\ \A w \in mine : hops[w].at = "settle" /\ hops[w].hop = s.hop /\ hops'[w].at = "spent"
      /\ \A w \in Workers \ mine : hops'[w] = hops[w]
      /\ \A w \in Workers : /\ hops'[w].id = hops[w].id /\ hops'[w].hop = hops[w].hop
                            /\ hops'[w] = H!Nothing => hops[w] = H!Nothing
  BY <1>1, HopsMarked
<1>3. HopShapes'
  BY <1>1, <1>2 DEF HopInv, HopShapes
<1>4. HopsNumbered'
  <2>1. \A w \in Workers : hops[w] = H!Nothing => hops'[w] = H!Nothing
    BY <1>2 DEF H!Nothing
  <2>. QED
    BY <1>1, <1>2, <2>1 DEF HopInv, HopsNumbered
<1>5. AskedFor'
  <2>1. \A r \in settling' : r \in settling /\ r.id # s.id
    BY <1>1 DEF HopInv, AskedFor
  <2>2. \A r \in settling', w \in Workers : hops'[w].id = r.id =>
          hops'[w].at = "settle" /\ hops'[w].hop = r.hop
    BY <1>2, <2>1 DEF HopInv, AskedFor
  <2>3. \A r \in settling' : \/ \E w \in Workers : hops'[w].id = r.id
                             \/ \E t \in told' : t.id = r.id /\ t.hop = r.hop /\ Unsure(t)'
    BY <1>1, <1>2, <2>1 DEF HopInv, AskedFor, Unsure
  <2>. QED
    BY <2>1, <2>2, <2>3 DEF HopInv, AskedFor
<1>6. \A w \in Workers : /\ hops'[w].at = "done" => hops'[w] = hops[w]
                         /\ hops[w].at = "done" => hops'[w] = hops[w]
  BY <1>2
<1>7. OneDone'
  <2>1. \A w \in Workers : hops'[w].at = "done" => PaidFor(hops[w].hop)'
    BY <1>1, <1>6 DEF HopInv, OneDone, PaidFor
  <2>2. \A t \in told' : t.status = 200 => PaidFor(t.hop)'
    BY <1>1 DEF HopInv, OneDone, PaidFor
  <2>3. \A v, w \in Workers : hops'[v].at = "done" /\ hops'[w].at = "done"
          /\ hops'[v].hop.payment = hops'[w].hop.payment => v = w
    BY <1>6 DEF HopInv, OneDone
  <2>4. \A w \in Workers, t \in told' : hops'[w].at = "done" /\ t.status = 200 =>
          hops'[w].hop.payment # t.hop.payment
    BY <1>1, <1>6 DEF HopInv, OneDone
  <2>5. \A r, t \in told' : r.status = 200 /\ t.status = 200 /\ r.hop.payment = t.hop.payment
          => r = t
    BY <1>1 DEF HopInv, OneDone
  <2>. QED
    BY <2>1, <2>2, <2>3, <2>4, <2>5 DEF OneDone, PaidFor
<1>8. Accounted'
  <2>. SUFFICES ASSUME NEW p \in debited, ~garbling
                PROVE  \/ \E v \in Workers : hops'[v].at = "done" /\ hops'[v].hop.payment = p
                       \/ \E t \in told : t.hop.payment = p /\ t.status \in {200, 502, 504}
    BY <1>1 DEF Accounted
  <2>1. CASE \E v \in Workers : hops[v].at = "done" /\ hops[v].hop.payment = p
    BY <1>6, <2>1
  <2>. QED
    BY <2>1 DEF HopInv, Accounted
<1>. QED
  BY <1>3, <1>4, <1>5, <1>7, <1>8 DEF HopInv

LEMMA HopStutterInv == ASSUME HopInv, UNCHANGED H!hopVars PROVE HopInv'
BY DEF H!hopVars, HopInv, HopShapes, HopsNumbered, AskedFor, Unsure, OneDone, PaidFor, Accounted

LEMMA HopStepInv == ASSUME HopInv, [H!Next]_(H!hopVars) PROVE HopInv'
BY HopPostInv, HopVerifyInv, HopAnsweredInv, HopDebitInv, HopNotDebitedInv, HopStutterInv
DEF H!Next, H!Turned

LEMMA HopsKept == Spec => []HopInv
<1>1. Init => HopInv
  BY PartsBegin, HopInvStarts
<1>2. HopInv /\ [Next]_vars => HopInv'
  <2>1. UNCHANGED settlement => UNCHANGED H!hopVars
    BY DEF settlement, H!hopVars
  <2>. QED
    BY <2>1, PartsMove, HopStepInv
<1>. QED
  BY <1>1, <1>2, PTL DEF Spec

LEMMA HopTyped == Spec => []H!TypeOK
BY HopsKept, HopInvTypes, PTL

\* However calls overlap and whatever is lost or late, a hop is answered 200
\* only to a live rider, for money that moved in the amount it asked for; a
\* payment pays for one hop; and a payer whose money moved has been answered
\* 200, or 502 or 504, "do not assume debit" (settle-hop.ts settleX402), as
\* long as no gateway answers in the facilitator's place.
THEOREM HopsPaidOnce == Spec => []HopPaidOnce
<1>1. HopInv => HopPaidOnce
  BY HopInvPaid DEF HopPaidOnce
<1>. QED
  BY <1>1, HopsKept, PTL

-----------------------------------------------------------------------------
(* The registry *)

\* Seen through the registry alone, it is a run of cuni-contracts.ts and
\* cuni-citizen-receipt-store.ts.
LEMMA RegistryRuns == Spec => NP!Spec
<1>1. Init => NP!Init
  BY PartsBegin DEF N!Init, NP!Init
<1>2. [Next]_vars => [NP!Next]_(NP!registry)
  <2>1. N!Next => NP!Next
    BY DEF N!Next, NP!Next, N!RegisterCuniContract, NP!RegisterCuniContract,
           N!Lookup, NP!Lookup, N!Insert, NP!Insert, N!Raced, NP!Raced,
           N!IngestReceipt, NP!IngestReceipt, N!BindCitizenReceipt, NP!BindCitizenReceipt,
           N!UpsertSupabase, NP!UpsertSupabase, N!KeepReceipt, NP!KeepReceipt,
           N!GetCitizenReceiptByHash, NP!GetCitizenReceiptByHash,
           N!RestartProcess, NP!RestartProcess, N!Browse, NP!Browse,
           N!registry, NP!registry, N!chosen, NP!chosen, N!Start, NP!Start, N!Step, NP!Step,
           N!Registered, NP!Registered, N!End, NP!End, N!At, NP!At, N!Idle, NP!Idle
  <2>2. UNCHANGED registry => UNCHANGED NP!registry
    BY DEF registry, NP!registry, NP!chosen
  <2>. QED
    BY <2>1, <2>2, PartsMove
<1>. QED
  BY <1>1, <1>2, PTL DEF Spec, NP!Spec

LEMMA RegistryConstantsHold == NP!Constants
BY RegistryConstants DEF NP!Constants, NP!Ids, NP!Records, NP!Fresh, NP!Writing

LEMMA RegistryTyped == Spec => []N!TypeOK
<1>1. NP!TypeOK => N!TypeOK
  BY DEF NP!TypeOK, N!TypeOK, NP!Ids, N!Ids
<1>. QED
  BY <1>1, RegistryConstantsHold, RegistryRuns, NP!RegistryTypes, PTL

\* registerCuniContract registers a source once and tells all the same id,
\* whatever races; in one process that never restarts bindCitizenReceipt keeps
\* a receipt's id and everything it was bound to, and its row follows.
THEOREM RegistryIsIdempotent == Spec => []RegistryAgrees
<1>1. NP!RegistryAgrees => RegistryAgrees
  <2>1. \A S : NP!Cardinality(S) = N!Cardinality(S)
    BY DEF NP!Cardinality, N!Cardinality
  <2>. QED
    BY <2>1 DEF RegistryAgrees, N!RegistryAgrees, NP!RegistryAgrees, N!OneContract,
                NP!OneContract, N!BindsMerge, NP!BindsMerge, N!Idle, NP!Idle
<1>. QED
  BY <1>1, RegistryConstantsHold, RegistryRuns, NP!RegistryIsIdempotent, PTL

-----------------------------------------------------------------------------
(* The client *)

ClientStages == {"idle", "waiting", "ready", "sent", "carried", "ok", "failed"}
ClientRiders == [token : Nat, refreshAt : Int]
ClientAnswers == [token : Nat, ttl : Nat]
ClientIssues == [started : Nat, answer : ClientAnswers \cup {None}]
ClientRequests == [of : Workers, token : Nat, at : Nat, open : BOOLEAN]

ClientShapes ==
  /\ seconds \in 0..MaxSeconds
  /\ closed \in BOOLEAN
  /\ cached \in ClientRiders \cup {None}
  /\ issuing \in ClientIssues \cup {None}
  /\ operation \in [Workers -> [at : ClientStages, token : Nat \cup {None}]]
  /\ issued \in Seq(Nat)
  /\ done \in [Workers -> Nat]
  /\ sent \subseteq ClientRequests
  /\ refused \subseteq M!Tokens

ClientHolds(o) == operation[o].at \in {"ready", "sent", "carried"}

\* What the client believes of a rider's end is at most what the service gave.
ClientRidersEnd ==
  /\ cached # None => cached.token \in M!Tokens /\ cached.refreshAt < issued[cached.token]
  /\ issuing # None => issuing.started <= seconds
  /\ issuing # None => (issuing.answer # None =>
       /\ issuing.answer.token \in M!Tokens
       /\ issuing.started + issuing.answer.ttl <= issued[issuing.answer.token])
  /\ \A o \in Workers : ClientHolds(o) => operation[o].token \in M!Tokens
  /\ \A o \in Workers : operation[o].at = "ready" => seconds < issued[operation[o].token]
  /\ \A s \in sent : s.token \in M!Tokens /\ s.at < issued[s.token] /\ s.open

ClientWaits == \A o \in Workers : operation[o].at = "waiting" => issuing # None

ClientCarriedOnce ==
  \A o \in Workers :
    /\ done[o] <= 1
    /\ operation[o].at \in {"idle", "waiting", "ready", "sent"} => done[o] = 0
    /\ operation[o].at \in {"carried", "ok"} => done[o] = 1

ClientInv ==
  /\ ClientShapes /\ ClientRidersEnd /\ ClientWaits /\ ClientCarriedOnce
  /\ closed => cached = None
  /\ discarded \subseteq refused

-----------------------------------------------------------------------------

LEMMA ClientNone == None \notin Nat \cup ClientRiders \cup ClientAnswers \cup ClientIssues
BY ClientConstants DEF ClientRiders, ClientAnswers, ClientIssues

LEMMA ClientTyped == ASSUME ClientInv PROVE M!TypeOK
BY ClientConstants DEF ClientInv, ClientShapes, ClientRidersEnd, ClientWaits, ClientHolds,
   M!TypeOK, ClientStages

LEMMA ClientInvKeeps == ASSUME ClientInv PROVE M!ClientKeeps
BY DEF ClientInv, ClientRidersEnd, ClientCarriedOnce, M!ClientKeeps

LEMMA ClientInitInv == ASSUME M!Init PROVE ClientInv
<1>1. /\ operation \in [Workers -> [at : ClientStages, token : Nat \cup {None}]]
      /\ \A o \in Workers : operation[o].at = "idle"
  BY DEF M!Init, M!Settled, ClientStages
<1>2. done \in [Workers -> Nat] /\ \A o \in Workers : done[o] = 0
  BY DEF M!Init
<1>3. ClientShapes
  <2>1. seconds \in 0..MaxSeconds /\ issued \in Seq(Nat)
    BY ClientConstants DEF M!Init
  <2>2. closed \in BOOLEAN /\ cached = None /\ issuing = None /\ sent = {} /\ refused = {}
    BY DEF M!Init
  <2>. QED
    BY <1>1, <1>2, <2>1, <2>2 DEF ClientShapes
<1>4. ClientRidersEnd /\ ClientWaits /\ ClientCarriedOnce
  BY <1>1, <1>2 DEF M!Init, ClientRidersEnd, ClientWaits, ClientHolds, ClientCarriedOnce
<1>. QED
  BY <1>3, <1>4 DEF M!Init, ClientInv

-----------------------------------------------------------------------------
(* One operation moves *)

\* Where one operation goes from waiting, ready, sent or carried; the rest is
\* where it was.
LEMMA ClientMoves ==
  ASSUME ClientInv, NEW o \in Workers, NEW r \in [at : ClientStages, token : Nat \cup {None}],
         operation' = [operation EXCEPT ![o] = r]
  PROVE  /\ operation' \in [Workers -> [at : ClientStages, token : Nat \cup {None}]]
         /\ operation'[o] = r
         /\ \A q \in Workers \ {o} : operation'[q] = operation[q]
BY DEF ClientInv, ClientShapes

LEMMA ClientCredentialInv ==
  ASSUME ClientInv, NEW o \in Workers, M!Credential(o) PROVE ClientInv'
<1>. USE ClientConstants, ClientNone
<1>1. UNCHANGED <<seconds, closed, cached, issued, done, sent, refused, discarded>>
  BY DEF M!Credential
<1>2. operation[o].at = "idle"
  BY DEF M!Credential
<1>3. CASE /\ cached # None /\ seconds < cached.refreshAt
           /\ operation' = [operation EXCEPT ![o] = M!Settled("ready", cached.token)]
           /\ UNCHANGED issuing
  <2>1. M!Settled("ready", cached.token) \in [at : ClientStages, token : Nat \cup {None}]
    BY <1>3 DEF ClientInv, ClientShapes, M!Settled, ClientStages, ClientRiders
  <2>2. /\ operation' \in [Workers -> [at : ClientStages, token : Nat \cup {None}]]
        /\ operation'[o] = M!Settled("ready", cached.token)
        /\ \A q \in Workers \ {o} : operation'[q] = operation[q]
    BY <1>3, <2>1, ClientMoves
  <2>3. seconds < issued[cached.token]
    BY <1>3 DEF ClientInv, ClientShapes, ClientRidersEnd, ClientRiders, M!Tokens
  <2>4. ClientShapes' /\ ClientWaits'
    BY <1>1, <1>3, <2>2 DEF ClientInv, ClientShapes, ClientWaits, M!Settled, M!Tokens
  <2>5. ClientRidersEnd'
    BY <1>1, <1>3, <2>2, <2>3 DEF ClientInv, ClientRidersEnd, ClientHolds, M!Settled, M!Tokens
  <2>6. ClientCarriedOnce'
    BY <1>1, <1>2, <2>2 DEF ClientInv, ClientCarriedOnce, M!Settled
  <2>. QED
    BY <1>1, <2>4, <2>5, <2>6 DEF ClientInv
<1>4. CASE /\ operation' = [operation EXCEPT ![o].at = "waiting"]
           /\ issuing' = IF issuing = None
                         THEN [started |-> seconds, answer |-> None] ELSE issuing
  <2>. DEFINE r == [operation[o] EXCEPT !.at = "waiting"]
  <2>1. r \in [at : ClientStages, token : Nat \cup {None}] /\ r.at = "waiting"
    BY DEF ClientInv, ClientShapes, ClientStages
  <2>2. /\ operation' \in [Workers -> [at : ClientStages, token : Nat \cup {None}]]
        /\ operation'[o].at = "waiting"
        /\ \A q \in Workers \ {o} : operation'[q] = operation[q]
    BY <1>4, <2>1 DEF ClientInv, ClientShapes
  <2>3. issuing' \in ClientIssues /\ issuing' # None
        /\ (issuing # None => issuing' = issuing)
        /\ (issuing = None => issuing'.started = seconds /\ issuing'.answer = None)
    BY <1>4 DEF ClientInv, ClientShapes, ClientIssues
  <2>4. ClientShapes' /\ ClientWaits'
    BY <1>1, <2>2, <2>3 DEF ClientInv, ClientShapes, ClientWaits, M!Tokens
  <2>5. ClientRidersEnd'
    <3>1. issuing' # None => issuing'.started <= seconds'
      BY <1>1, <2>3 DEF ClientInv, ClientShapes, ClientRidersEnd
    <3>2. issuing' # None => (issuing'.answer # None =>
             /\ issuing'.answer.token \in M!Tokens
             /\ issuing'.started + issuing'.answer.ttl <= issued[issuing'.answer.token])
      BY <2>3 DEF ClientInv, ClientRidersEnd
    <3>3. \A q \in Workers : ClientHolds(q)' => ClientHolds(q) /\ operation'[q] = operation[q]
      BY <2>2 DEF ClientHolds
    <3>4. \A q \in Workers :
            operation'[q].at = "ready" => operation[q].at = "ready"
            /\ operation'[q] = operation[q]
      BY <2>2
    <3>. QED
      BY <1>1, <3>1, <3>2, <3>3, <3>4 DEF ClientInv, ClientRidersEnd, M!Tokens
  <2>6. ClientCarriedOnce'
    BY <1>1, <1>2, <2>2 DEF ClientInv, ClientCarriedOnce
  <2>. QED
    BY <1>1, <2>4, <2>5, <2>6 DEF ClientInv
<1>. QED
  BY <1>3, <1>4 DEF M!Credential

LEMMA ClientGatedInv ==
  ASSUME ClientInv, NEW o \in Workers, M!Gated(o) PROVE ClientInv'
<1>. USE ClientConstants, ClientNone
<1>1. UNCHANGED <<seconds, closed, cached, issuing, issued, done, refused, discarded>>
  BY DEF M!Gated
<1>2. operation[o].at = "ready"
  BY DEF M!Gated
<1>. PICK r : r = IF closed THEN M!Settled("failed",
   None) ELSE [operation[o] EXCEPT !.at = "sent"]
  OBVIOUS
<1>3. /\ r \in [at : ClientStages, token : Nat \cup {None}]
      /\ r.at = IF closed THEN "failed" ELSE "sent"
      /\ ~closed => r.token = operation[o].token
  BY DEF ClientInv, ClientShapes, ClientStages, M!Settled
<1>4. operation' = [operation EXCEPT ![o] = r]
  BY DEF M!Gated, ClientInv, ClientShapes
<1>5. /\ operation' \in [Workers -> [at : ClientStages, token : Nat \cup {None}]]
      /\ operation'[o] = r
      /\ \A q \in Workers \ {o} : operation'[q] = operation[q]
  BY <1>3, <1>4, ClientMoves
<1>6. operation[o].token \in M!Tokens /\ seconds < issued[operation[o].token]
  BY <1>2 DEF ClientInv, ClientRidersEnd, ClientHolds
<1>7. \A s \in sent' : s \in sent \/ (~closed /\ s = [of |-> o, token |-> operation[o].token,
                                                     at |-> seconds, open |-> TRUE])
  BY DEF M!Gated
<1>8. ASSUME NEW s \in sent'
      PROVE  s \in ClientRequests /\ s.token \in M!Tokens /\ s.at < issued[s.token] /\ s.open
  <2>1. CASE s \in sent
    BY <2>1 DEF ClientInv, ClientShapes, ClientRidersEnd
  <2>2. CASE s = [of |-> o, token |-> operation[o].token, at |-> seconds, open |-> TRUE]
    <3>1. operation[o].token \in Nat /\ seconds \in Nat
      BY <1>6 DEF ClientInv, ClientShapes, M!Tokens
    <3>2. /\ s.of = o /\ s.token = operation[o].token /\ s.at = seconds /\ s.open = TRUE
          /\ s \in ClientRequests
      BY <2>2, <3>1 DEF ClientRequests
    <3>. QED
      BY <1>6, <3>2
  <2>. QED
    BY <1>7, <2>1, <2>2
<1>9. ClientShapes' /\ ClientWaits'
  BY <1>1, <1>3, <1>5, <1>8 DEF ClientInv, ClientShapes, ClientWaits, M!Tokens
<1>10. ClientRidersEnd'
  BY <1>1, <1>3, <1>5, <1>6, <1>8 DEF ClientInv, ClientRidersEnd, ClientHolds, M!Tokens
<1>11. ClientCarriedOnce'
  BY <1>1, <1>2, <1>3, <1>5 DEF ClientInv, ClientCarriedOnce
<1>. QED
  BY <1>1, <1>9, <1>10, <1>11 DEF ClientInv

\* The operation is carried out, answered or given up: it needs no new rider.
LEMMA ClientOutcomeInv ==
  ASSUME ClientInv, NEW o \in Workers, NEW r \in [at : ClientStages, token : Nat \cup {None}],
         operation' = [operation EXCEPT ![o] = r],
         UNCHANGED <<seconds, closed, cached, issuing, issued, sent, refused, discarded>>,
         \/ /\ operation[o].at = "sent" /\ r.at = "carried" /\ r.token = operation[o].token
            /\ done' = [done EXCEPT ![o] = @ + 1]
         \/ operation[o].at = "carried" /\ r.at = "ok" /\ UNCHANGED done
         \/ r.at = "failed" /\ UNCHANGED done
  PROVE  ClientInv'
<1>1. /\ operation' \in [Workers -> [at : ClientStages, token : Nat \cup {None}]]
      /\ operation'[o] = r
      /\ \A q \in Workers \ {o} : operation'[q] = operation[q]
  BY ClientMoves
<1>2. done' \in [Workers -> Nat]
  BY DEF ClientInv, ClientShapes
<1>3. r.at = "carried" => operation[o].token \in M!Tokens
  BY DEF ClientInv, ClientRidersEnd, ClientHolds
<1>4. ClientShapes' /\ ClientWaits'
  BY <1>1, <1>2 DEF ClientInv, ClientShapes, ClientWaits, M!Tokens
<1>5. ClientRidersEnd'
  BY <1>1, <1>3 DEF ClientInv, ClientRidersEnd, ClientHolds, M!Tokens
<1>6. ClientCarriedOnce'
  BY <1>1 DEF ClientInv, ClientShapes, ClientCarriedOnce
<1>. QED
  BY <1>4, <1>5, <1>6 DEF ClientInv

LEMMA ClientCarryInv ==
  ASSUME ClientInv, NEW o \in Workers, M!Carry(o) PROVE ClientInv'
<1>. PICK r : r = [operation[o] EXCEPT !.at = "carried"]
  OBVIOUS
<1>1. /\ r \in [at : ClientStages, token : Nat \cup {None}]
      /\ r.at = "carried" /\ r.token = operation[o].token
  BY DEF ClientInv, ClientShapes, ClientStages
<1>2. operation' = [operation EXCEPT ![o] = r]
  BY DEF M!Carry, ClientInv, ClientShapes
<1>. QED
  BY <1>1, <1>2, ClientOutcomeInv DEF M!Carry

LEMMA ClientAnsweredInv ==
  ASSUME ClientInv, NEW o \in Workers, M!Answered(o) \/ M!Unknown(o) PROVE ClientInv'
<1>1. \A at \in ClientStages :
        /\ M!Settled(at, None) \in [at : ClientStages, token : Nat \cup {None}]
        /\ M!Settled(at, None).at = at
  BY DEF M!Settled
<1>2. CASE M!Answered(o)
  BY <1>1, <1>2, ClientOutcomeInv DEF M!Answered, ClientStages
<1>3. CASE M!Unknown(o)
  BY <1>1, <1>3, ClientOutcomeInv DEF M!Unknown, ClientStages
<1>. QED
  BY <1>2, <1>3

LEMMA ClientUnauthorizedInv ==
  ASSUME ClientInv, NEW o \in Workers, M!Unauthorized(o) PROVE ClientInv'
<1>. USE ClientConstants, ClientNone
<1>1. UNCHANGED <<seconds, closed, issuing, issued, done, sent>> /\ operation[o].at = "sent"
  BY DEF M!Unauthorized
<1>2. /\ operation' \in [Workers -> [at : ClientStages, token : Nat \cup {None}]]
      /\ operation'[o].at = "failed"
      /\ \A q \in Workers \ {o} : operation'[q] = operation[q]
  BY DEF M!Unauthorized, M!Settled, ClientStages, ClientInv, ClientShapes
<1>3. operation[o].token \in M!Tokens /\ refused' = refused \cup {operation[o].token}
  BY <1>1 DEF M!Unauthorized, ClientInv, ClientRidersEnd, ClientHolds
<1>4. /\ cached' \in {cached, None}
      /\ discarded' \subseteq discarded \cup {operation[o].token}
  BY DEF M!Unauthorized
<1>5. ClientShapes' /\ ClientWaits'
  BY <1>1, <1>2, <1>3, <1>4 DEF ClientInv, ClientShapes, ClientWaits, M!Tokens
<1>6. ClientRidersEnd'
  BY <1>1, <1>2, <1>4 DEF ClientInv, ClientRidersEnd, ClientHolds, M!Tokens
<1>7. ClientCarriedOnce'
  BY <1>1, <1>2 DEF ClientInv, ClientCarriedOnce
<1>. QED
  BY <1>1, <1>3, <1>4, <1>5, <1>6, <1>7 DEF ClientInv

-----------------------------------------------------------------------------
(* The issue under way *)

\* The ends of the riders there are stay.
LEMMA ClientMintInv == ASSUME ClientInv, M!Mint PROVE ClientInv'
<1>. USE ClientConstants, ClientNone
<1>1. /\ UNCHANGED <<seconds, closed, cached, operation, done, sent, refused, discarded>>
      /\ issuing # None /\ issuing \in ClientIssues
  BY DEF M!Mint, ClientInv, ClientShapes
<1>2. PICK ttl \in Ttls :
        /\ issued' = Append(issued, seconds + ttl)
        /\ issuing' = [issuing EXCEPT !.answer = [token |-> Len(issued'), ttl |-> ttl]]
  BY DEF M!Mint
<1>3. ttl \in Nat /\ seconds \in Nat /\ issued \in Seq(Nat)
  BY DEF ClientInv, ClientShapes
<1>4. /\ issued' \in Seq(Nat) /\ Len(issued') = Len(issued) + 1
      /\ \A t \in M!Tokens : t \in M!Tokens' /\ issued'[t] = issued[t]
      /\ Len(issued') \in M!Tokens' /\ issued'[Len(issued')] = seconds + ttl
  BY <1>2, <1>3 DEF M!Tokens
<1>5. PICK n \in Nat : n = Len(issued')
  BY <1>4
<1>6. /\ issuing' \in ClientIssues /\ issuing' # None /\ issuing'.started = issuing.started
      /\ issuing'.answer.token = n /\ issuing'.answer.ttl = ttl
  <2>. DEFINE answer == [token |-> n, ttl |-> ttl]
  <2>1. answer \in ClientAnswers /\ answer.token = n /\ answer.ttl = ttl
    BY <1>3, <1>5 DEF ClientAnswers
  <2>2. issuing' = [issuing EXCEPT !.answer = answer]
    BY <1>2, <1>5
  <2>3. issuing.started \in Nat
    BY <1>1 DEF ClientIssues
  <2>4. issuing' = [started |-> issuing.started, answer |-> answer]
    <3>. HIDE DEF answer
    <3>. QED
      BY <1>1, <2>2 DEF ClientIssues
  <2>5. issuing' \in ClientIssues /\ issuing'.started = issuing.started
     /\ issuing'.answer = answer
    <3>. HIDE DEF answer
    <3>. QED
      BY <2>1, <2>3, <2>4 DEF ClientIssues
  <2>. QED
    BY <1>1, <2>1, <2>5
<1>7. issuing.started <= seconds /\ issuing.started \in Nat
  BY <1>1 DEF ClientInv, ClientRidersEnd, ClientIssues
<1>8. ClientShapes' /\ ClientWaits'
  BY <1>1, <1>4, <1>6 DEF ClientInv, ClientShapes, ClientWaits
<1>9. ClientRidersEnd'
  <2>1. issuing'.started + issuing'.answer.ttl <= issued'[n]
    BY <1>3, <1>4, <1>5, <1>6, <1>7
  <2>2. \A s \in sent' : s.token \in M!Tokens' /\ s.at < issued'[s.token] /\ s.open
    BY <1>1, <1>4 DEF ClientInv, ClientRidersEnd
  <2>3. cached' # None => cached'.token \in M!Tokens'
     /\ cached'.refreshAt < issued'[cached'.token]
    BY <1>1, <1>4 DEF ClientInv, ClientRidersEnd
  <2>4. \A o \in Workers : ClientHolds(o)' => operation'[o].token \in M!Tokens'
    BY <1>1, <1>4 DEF ClientInv, ClientRidersEnd, ClientHolds
  <2>5. \A o \in Workers : operation'[o].at = "ready" => seconds' < issued'[operation'[o].token]
    BY <1>1, <1>4 DEF ClientInv, ClientRidersEnd, ClientHolds
  <2>. QED
    BY <1>1, <1>4, <1>5, <1>6, <1>7, <2>1, <2>2, <2>3, <2>4, <2>5 DEF ClientRidersEnd
<1>10. ClientCarriedOnce'
  BY <1>1 DEF ClientInv, ClientCarriedOnce
<1>. QED
  BY <1>1, <1>8, <1>9, <1>10 DEF ClientInv

\* All that wait are woken, with a rider that has not ended or with none.
LEMMA ClientWokenInv ==
  ASSUME ClientInv, NEW at \in {"ready", "failed"}, NEW token \in Nat \cup {None},
         M!Woken(at, token), issuing' = None, cached' \in ClientRiders \cup {None},
         cached' # None => cached'.token \in M!Tokens
         /\ cached'.refreshAt < issued[cached'.token],
         closed => cached' = None,
         at = "ready" => token \in M!Tokens /\ seconds < issued[token],
         UNCHANGED <<seconds, closed, issued, done, sent, refused, discarded>>
  PROVE  ClientInv'
<1>. USE ClientConstants, ClientNone
<1>1. /\ operation' \in [Workers -> [at : ClientStages, token : Nat \cup {None}]]
      /\ \A o \in Workers : IF operation[o].at = "waiting"
           THEN operation'[o].at = at /\ operation'[o].token = token
           ELSE operation'[o] = operation[o]
  BY DEF M!Woken, M!Waiting, M!Settled, ClientInv, ClientShapes, ClientStages
<1>2. ClientShapes' /\ ClientWaits'
  BY <1>1 DEF ClientInv, ClientShapes, ClientWaits, M!Tokens
<1>3. ClientRidersEnd'
  BY <1>1 DEF ClientInv, ClientRidersEnd, ClientHolds, M!Tokens
<1>4. ClientCarriedOnce'
  BY <1>1 DEF ClientInv, ClientCarriedOnce
<1>. QED
  BY <1>2, <1>3, <1>4 DEF ClientInv

LEMMA ClientIssueAnsweredInv == ASSUME ClientInv, M!IssueAnswered PROVE ClientInv'
<1>. USE ClientConstants, ClientNone
<1>1. /\ issuing # None /\ issuing.answer # None /\ issuing' = None
      /\ UNCHANGED <<seconds, closed, issued, done, sent, refused, discarded>>
  BY DEF M!IssueAnswered
<1>2. /\ issuing \in ClientIssues /\ issuing.started \in Nat /\ issuing.answer \in ClientAnswers
      /\ issuing.answer.token \in Nat /\ issuing.answer.ttl \in Nat
  BY <1>1 DEF ClientInv, ClientShapes, ClientIssues, ClientAnswers
<1>3. PICK token \in Nat, end \in Nat :
        token = issuing.answer.token /\ end = issuing.started + issuing.answer.ttl
  BY <1>2
<1>4. token \in M!Tokens /\ end <= issued[token] /\ issued[token] \in Nat
  BY <1>1, <1>3 DEF ClientInv, ClientShapes, ClientRidersEnd, M!Tokens
<1>5. CASE /\ M!Usable(issuing) /\ M!Woken("ready", issuing.answer.token)
           /\ cached' = [token |-> issuing.answer.token,
                         refreshAt |-> issuing.started + issuing.answer.ttl - Margin]
  <2>1. ~closed /\ seconds < end /\ M!Woken("ready", token)
    BY <1>3, <1>5 DEF M!Usable
  <2>2. seconds \in Nat
    BY DEF ClientInv, ClientShapes
  <2>3. /\ cached' \in ClientRiders /\ cached'.token = token /\ cached'.refreshAt = end - Margin
    BY <1>2, <1>3, <1>5 DEF ClientRiders
  <2>4. end - Margin < issued[token] /\ seconds < issued[token]
    BY <1>4, <2>1, <2>2
  <2>. QED
    BY <1>1, <1>4, <2>1, <2>3, <2>4, ClientWokenInv
<1>6. CASE M!Woken("failed", None) /\ UNCHANGED cached
  BY <1>1, <1>6, ClientWokenInv DEF ClientInv, ClientShapes, ClientRidersEnd
<1>. QED
  BY <1>5, <1>6 DEF M!IssueAnswered

LEMMA ClientIssueFailedInv == ASSUME ClientInv, M!IssueFailed PROVE ClientInv'
BY ClientWokenInv DEF M!IssueFailed, ClientInv, ClientShapes, ClientRidersEnd

-----------------------------------------------------------------------------

LEMMA ClientCloseInv == ASSUME ClientInv, M!Close PROVE ClientInv'
BY DEF M!Close, ClientInv, ClientShapes, ClientRidersEnd, ClientHolds, ClientWaits,
   ClientCarriedOnce, M!Tokens

\* The clock moves when no operation is between its rider and its request.
LEMMA ClientTickInv == ASSUME ClientInv, M!TickClock PROVE ClientInv'
<1>1. seconds' \in 0..MaxSeconds /\ seconds <= seconds' /\ seconds \in Nat /\ seconds' \in Nat
  BY ClientConstants DEF M!TickClock, ClientInv, ClientShapes
<1>2. issuing # None => issuing.started \in Nat
  BY DEF ClientInv, ClientShapes, ClientIssues
<1>3. ClientShapes' /\ ClientWaits' /\ ClientCarriedOnce'
  BY <1>1 DEF M!TickClock, ClientInv, ClientShapes, ClientWaits, ClientCarriedOnce, M!Tokens
<1>4. ClientRidersEnd'
  BY <1>1, <1>2 DEF M!TickClock, ClientInv, ClientRidersEnd, ClientHolds, M!Tokens
<1>. QED
  BY <1>3, <1>4 DEF M!TickClock, ClientInv

LEMMA ClientStutterInv == ASSUME ClientInv, UNCHANGED clients PROVE ClientInv'
BY DEF clients, ClientInv, ClientShapes, ClientRidersEnd, ClientHolds, ClientWaits,
   ClientCarriedOnce, M!Tokens

LEMMA ClientStepInv == ASSUME ClientInv, [M!Next]_clients PROVE ClientInv'
BY ClientCredentialInv, ClientGatedInv, ClientCarryInv, ClientAnsweredInv, ClientUnauthorizedInv,
   ClientMintInv, ClientIssueAnsweredInv,
   ClientIssueFailedInv, ClientCloseInv, ClientTickInv, ClientStutterInv DEF M!Next

LEMMA ClientInvariant == Spec => []ClientInv
<1>1. Init => ClientInv
  BY PartsBegin, ClientInitInv
<1>2. ClientInv /\ [Next]_vars => ClientInv'
  BY PartsMove, ClientStepInv
<1>. QED
  BY <1>1, <1>2, PTL DEF Spec

\* Whatever overlaps, is lost or is late: nothing is sent with a rider that
\* has ended or after close(), close() leaves no rider behind, an operation
\* is carried out at most once, and exactly once if its caller is told so; a
\* 401 discards the rider it refused and no other (client.mjs gated, close).
THEOREM ClientIsSafe == Spec => []ClientKeeps
<1>1. ClientInv => ClientKeeps
  BY ClientInvKeeps DEF ClientKeeps
<1>. QED
  BY <1>1, ClientInvariant, PTL

-----------------------------------------------------------------------------
(* Warrants *)

\* What somebody else wrote may widen from its authority to its first hop;
\* from there on, and in what the lab issued, every body narrows those before.
WarrantInv ==
  /\ W!TypeOK
  /\ byLab \/ Len(chain) >= 2
  /\ \A i, j \in DOMAIN chain : (byLab \/ i >= 2) /\ i <= j => W!Narrows(chain[i], chain[j])
  /\ W!WithinEveryHop

\* narrow.ts attenuate: with one more hop a chain narrows from k on as before.
LEMMA AppendNarrows ==
  ASSUME NEW c \in Seq(W!Bodies), NEW hop \in W!Bodies, NEW k \in Nat \ {0}, k <= Len(c),
         \A i, j \in DOMAIN c : k <= i /\ i <= j => W!Narrows(c[i], c[j]),
         W!Narrows(W!Last(c), hop)
  PROVE  \A i, j \in DOMAIN Append(c, hop) :
           k <= i /\ i <= j => W!Narrows(Append(c, hop)[i], Append(c, hop)[j])
<1>. DEFINE v == Append(c, hop)
<1>1. Len(c) \in Nat \ {0} /\ DOMAIN c = 1..Len(c) /\ DOMAIN v = 1..(Len(c) + 1)
  OBVIOUS
<1>2. \A i \in 1..Len(c) : v[i] = c[i] /\ c[i] \in W!Bodies
  OBVIOUS
<1>3. v[Len(c) + 1] = hop /\ c[Len(c)] \in W!Bodies
  BY <1>1, <1>2
<1>4. \A i \in 1..Len(c) : k <= i => W!Narrows(c[i], hop)
  <2>. TAKE i \in 1..Len(c)
  <2>. HAVE k <= i
  <2>1. W!Narrows(c[i], c[Len(c)]) /\ W!Narrows(c[Len(c)], hop)
    BY <1>1 DEF W!Last
  <2>2. c[i] \in W!Bodies
    BY <1>2
  <2>. QED
    BY <2>1, <2>2, <1>3 DEF W!Narrows, W!Bodies, W!Costs
<1>5. W!Narrows(hop, hop)
  BY DEF W!Narrows, W!Bodies, W!Costs
<1>. SUFFICES ASSUME NEW i \in DOMAIN v, NEW j \in DOMAIN v, k <= i, i <= j
              PROVE  W!Narrows(v[i], v[j])
  OBVIOUS
<1>6. CASE j = Len(c) + 1
  BY <1>1, <1>2, <1>3, <1>4, <1>5, <1>6
<1>7. CASE j # Len(c) + 1
  <2>1. i \in DOMAIN c /\ j \in DOMAIN c
    BY <1>1, <1>7
  <2>. QED
    BY <2>1, <1>1, <1>2
<1>. QED
  BY <1>6, <1>7

LEMMA WarrantInitInv == ASSUME W!Init PROVE WarrantInv
<1>1. today = 0 /\ spend = None
  BY DEF W!Init
<1>2. CASE \E authority \in W!Bodies : W!IssueWarrant(authority)
  BY <1>1, <1>2 DEF W!IssueWarrant, WarrantInv, W!TypeOK, W!WithinEveryHop, W!Narrows,
                    W!Bodies, W!Costs
<1>3. CASE \E authority, hop \in W!Bodies : W!ParseWarrant(<<authority, hop>>)
  <2>1. PICK authority \in W!Bodies, hop \in W!Bodies : W!ParseWarrant(<<authority, hop>>)
    BY <1>3
  <2>2. byLab = FALSE /\ chain = <<authority, hop>>
    BY <2>1 DEF W!ParseWarrant
  <2>3. chain \in Seq(W!Bodies) /\ chain # <<>> /\ Len(chain) = 2 /\ chain[2] = hop
    BY <2>2
  <2>4. \A i, j \in DOMAIN chain : i >= 2 /\ i <= j => W!Narrows(chain[i], chain[j])
    <3>1. DOMAIN chain = 1..2
      BY <2>3
    <3>. QED
      BY <3>1, <2>3 DEF W!Narrows, W!Bodies, W!Costs
  <2>5. W!TypeOK
    BY <1>1, <2>2, <2>3 DEF W!TypeOK
  <2>. QED
    BY <1>1, <2>2, <2>3, <2>4, <2>5 DEF WarrantInv, W!WithinEveryHop
<1>. QED
  BY <1>2, <1>3 DEF W!Init

LEMMA WarrantStepInv == ASSUME WarrantInv, W!Next PROVE WarrantInv'
<1>0. chain \in Seq(W!Bodies) /\ chain # <<>> /\ today \in Nat /\ byLab \in BOOLEAN
      /\ Len(chain) \in DOMAIN chain /\ DOMAIN chain = 1..Len(chain)
  BY DEF WarrantInv, W!TypeOK
<1>1. ASSUME NEW hop \in W!Bodies, W!Attenuate(hop) PROVE WarrantInv'
  <2>1. /\ chain' = Append(chain, hop) /\ spend' = None /\ byLab' = byLab /\ today' = today
        /\ W!Narrows(W!Last(chain), hop)
    BY <1>1 DEF W!Attenuate
  <2>2. PICK k \in Nat \ {0} : k = IF byLab THEN 1 ELSE 2
    OBVIOUS
  <2>3. k <= Len(chain)
    BY <1>0, <2>2 DEF WarrantInv
  <2>4. \A i, j \in DOMAIN chain : k <= i /\ i <= j => W!Narrows(chain[i], chain[j])
    BY <1>0, <2>2 DEF WarrantInv
  <2>5. \A i, j \in DOMAIN chain' : k <= i /\ i <= j => W!Narrows(chain'[i], chain'[j])
    BY <1>0, <2>1, <2>3, <2>4, AppendNarrows
  <2>6. W!TypeOK' /\ Len(chain') >= Len(chain) /\ DOMAIN chain' = 1..(Len(chain) + 1)
    BY <1>0, <2>1 DEF W!TypeOK
  <2>7. \A i, j \in DOMAIN chain' :
          (byLab' \/ i >= 2) /\ i <= j => W!Narrows(chain'[i], chain'[j])
    BY <2>1, <2>2, <2>5, <2>6 DEF W!Narrows
  <2>. QED
    BY <1>0, <2>1, <2>6, <2>7 DEF WarrantInv, W!WithinEveryHop, W!Narrows
<1>2. ASSUME NEW by \in Spenders, NEW cost \in W!Costs, W!SpendByWarrant(by, cost)
      PROVE  WarrantInv'
  <2>1. /\ spend' = [by |-> by, cost |-> cost] /\ UNCHANGED <<byLab, chain, today>>
        /\ W!VerifyWarrant(chain)
        /\ W!Last(chain).agent = by /\ cost <= W!Last(chain).cents
    BY <1>2 DEF W!SpendByWarrant
  <2>2. \A i \in DOMAIN chain : W!Narrows(chain[i], W!Last(chain))
    <3>. TAKE i \in DOMAIN chain
    <3>1. CASE byLab \/ i >= 2
      BY <3>1, <1>0 DEF WarrantInv, W!Last
    <3>2. CASE ~byLab /\ i = 1
      <4>1. 2 \in 2..Len(chain) /\ 2 \in DOMAIN chain
        BY <3>2, <1>0 DEF WarrantInv
      <4>2. W!Narrows(chain[1], chain[2]) /\ W!Narrows(chain[2], chain[Len(chain)])
        BY <4>1, <2>1, <1>0 DEF W!VerifyWarrant, WarrantInv
      <4>3. chain[1] \in W!Bodies /\ chain[2] \in W!Bodies /\ chain[Len(chain)] \in W!Bodies
        BY <4>1, <1>0
      <4>. QED
        BY <4>2, <4>3, <3>2 DEF W!Narrows, W!Last, W!Bodies, W!Costs
    <3>. QED
      BY <3>1, <3>2, <1>0
  <2>3. \A i \in DOMAIN chain : cost <= chain[i].cents /\ today < chain[i].until
    <3>1. today < W!Last(chain).until /\ W!Last(chain) \in W!Bodies
      BY <2>1, <1>0 DEF W!VerifyWarrant, W!Last
    <3>2. \A i \in DOMAIN chain : chain[i] \in W!Bodies
      BY <1>0
    <3>. QED
      BY <1>0, <2>1, <2>2, <3>1, <3>2 DEF W!Narrows, W!Bodies, W!Costs
  <2>. QED
    BY <2>1, <2>3 DEF WarrantInv, W!TypeOK, W!WithinEveryHop, W!Narrows, W!Last
<1>3. CASE W!Later
  BY <1>0, <1>3 DEF W!Later, WarrantInv, W!TypeOK, W!WithinEveryHop, W!Narrows
<1>4. CASE W!RefuseWarrant
  BY <1>4 DEF W!RefuseWarrant, WarrantInv, W!TypeOK, W!WithinEveryHop, W!Narrows
<1>. QED
  BY <1>1, <1>2, <1>3, <1>4 DEF W!Next

LEMMA WarrantStutterInv == ASSUME WarrantInv, UNCHANGED warrants PROVE WarrantInv'
BY DEF warrants, WarrantInv, W!TypeOK, W!WithinEveryHop, W!Narrows, W!Last

LEMMA WarrantInvHolds == ASSUME WarrantInv PROVE W!WarrantHolds
BY DEF WarrantInv, W!WarrantHolds, W!OnlyShrinks

LEMMA WarrantInvariant == Spec => []WarrantInv
<1>1. Init => WarrantInv
  BY PartsBegin, WarrantInitInv
<1>2. WarrantInv /\ [Next]_vars => WarrantInv'
  BY PartsMove, WarrantStepInv, WarrantStutterInv
<1>. QED
  BY <1>1, <1>2, PTL DEF Spec

-----------------------------------------------------------------------------
(* Grants *)

GrantChecks ==
  [id : Nat, at : Nat, grant : Grants, action : Actions, amount : Amounts, checkedAt : Nat,
   demo : BOOLEAN, revoked : BOOLEAN \cup {None}, before : BOOLEAN]
GrantVerdicts ==
  [id : Nat, grant : Grants, amount : Amounts, action : Actions, at : Nat, before : BOOLEAN]

GrantShapes ==
  /\ quiet \subseteq Grants /\ now \in Nat /\ checks \in Nat
  /\ signer \in SigningKeys \cup {None}
  /\ previous \subseteq SigningKeys /\ revokedKids \subseteq SigningKeys
  /\ envelope \in [Grants -> SigningKeys \cup {None}]
  /\ stored = {g \in Grants : envelope[g] # None} /\ revoked \subseteq stored
  /\ \A g \in stored : Terms[g].cap > 0
  /\ spends \in [Grants -> Int] /\ \A g \in Grants \ stored : spends[g] = 0
  /\ check \in [Workers -> GrantChecks \cup {G!Free}]
  /\ allowed \subseteq GrantVerdicts

\* While the lab signs, a kid that is not revoked is published.
KidsPublished ==
  \A g \in stored :
    signer # None /\ envelope[g] \notin revokedKids => envelope[g] \in {signer} \cup previous

\* A check knows of a revocation that came before it; a verdict is about none.
ChecksSeeRevocations ==
  /\ \A w \in Workers : check[w] # G!Free =>
       /\ check[w].grant \in stored /\ check[w].at <= now
       /\ check[w].before => check[w].grant \in revoked /\ check[w].revoked \in {None, TRUE}
  /\ \A a \in allowed : a.grant \in stored

\* Of a quiet grant one check is in flight, or one verdict is not spent yet.
OneAtATime ==
  \A g \in quiet :
    /\ \A v, w \in Workers : check[v] # G!Free /\ check[w] # G!Free
         /\ check[v].grant = g /\ check[w].grant = g => v = w
    /\ G!InFlight(g) => ~G!Owed(g)

GrantInv ==
  GrantShapes /\ KidsPublished /\ ChecksSeeRevocations /\ OneAtATime /\ G!GrantHolds

LEMMA FreeIsNoCheck == G!Free \notin GrantChecks
BY DEF G!Free, GrantChecks

LEMMA GrantTyped == ASSUME GrantInv PROVE G!TypeOK
BY DEF GrantInv, GrantShapes, ChecksSeeRevocations, G!TypeOK

LEMMA GrantInitInv == ASSUME G!Init PROVE GrantInv
<1>. USE GrantConstants
<1>1. GrantShapes
  BY DEF G!Init, GrantShapes
<1>2. KidsPublished /\ ChecksSeeRevocations /\ OneAtATime /\ G!GrantHolds
  BY DEF G!Init, KidsPublished, ChecksSeeRevocations, OneAtATime, G!GrantHolds, G!Owed
<1>. QED
  BY <1>1, <1>2 DEF GrantInv

\* What a step leaves as it is when it only moves keys or the clock.
LEMMA GrantKeysInv ==
  ASSUME GrantInv,
         G!Fetch \/ G!Unset \/ G!Tick \/ \E k \in SigningKeys : G!Rotate(k) \/ G!RevokeKid(k)
  PROVE  GrantInv'
<1>. USE GrantConstants DEF GrantInv
<1>1. UNCHANGED <<quiet, envelope, stored, revoked, spends, check, checks, allowed>>
  BY DEF G!Fetch, G!Unset, G!Tick, G!Rotate, G!RevokeKid, G!grants
<1>2. now' \in Nat /\ now <= now' /\ signer' \in SigningKeys \cup {None}
      /\ previous' \subseteq SigningKeys /\ revokedKids' \subseteq SigningKeys
  BY DEF G!Fetch, G!Unset, G!Tick, G!Rotate, G!RevokeKid, GrantShapes, G!keys
<1>3. GrantShapes'
  BY <1>1, <1>2 DEF GrantShapes
<1>4. KidsPublished'
  BY <1>1 DEF KidsPublished, G!Fetch, G!Unset, G!Tick, G!Rotate, G!RevokeKid, G!keys
<1>5. ChecksSeeRevocations'
  <2>1. \A w \in Workers : check[w] # G!Free => check[w].at \in Nat /\ check[w].at <= now
    BY DEF GrantShapes, GrantChecks, ChecksSeeRevocations
  <2>2. now \in Nat
    BY DEF GrantShapes
  <2>3. \A w \in Workers : check[w] # G!Free => check[w].at <= now'
    <3>. HIDE DEF GrantInv
    <3>. QED
      BY <1>2, <2>1, <2>2
  <2>. QED
    BY <1>1, <2>3 DEF ChecksSeeRevocations
<1>6. OneAtATime'
  BY <1>1 DEF OneAtATime, G!InFlight, G!Owed
<1>7. G!GrantHolds'
  <2>1. \A g \in stored' : G!Verified(envelope[g], G!LabJwks)'
          <=> envelope'[g] \notin revokedKids' /\ signer' # None
    BY <1>1, <1>4 DEF KidsPublished, G!Verified, G!LabJwks
  <2>. QED
    BY <1>1, <2>1 DEF G!GrantHolds
<1>. QED
  BY <1>3, <1>4, <1>5, <1>6, <1>7

\* The lab signs with a key it publishes.
LEMMA GrantIssueInv == ASSUME GrantInv, NEW g \in Grants, G!Issue(g) PROVE GrantInv'
<1>. USE GrantConstants DEF GrantInv
<1>1. UNCHANGED <<quiet, now, signer, previous, revokedKids, revoked, spends, check, checks,
                  allowed>>
  BY DEF G!Issue, G!keys
<1>2. /\ envelope[g] = None /\ signer # None /\ Terms[g].cap > 0
      /\ envelope' = [envelope EXCEPT ![g] = signer] /\ stored' = stored \cup {g}
  BY DEF G!Issue
<1>3. GrantShapes'
  BY <1>1, <1>2 DEF GrantShapes
<1>4. KidsPublished'
  BY <1>1, <1>2 DEF KidsPublished, GrantShapes
<1>5. ChecksSeeRevocations'
  BY <1>1, <1>2 DEF ChecksSeeRevocations
<1>6. OneAtATime'
  BY <1>1 DEF OneAtATime, G!InFlight, G!Owed
<1>7. G!GrantHolds'
  <2>1. \A h \in stored' : G!Verified(envelope[h], G!LabJwks)'
          <=> envelope'[h] \notin revokedKids' /\ signer' # None
    BY <1>1, <1>4 DEF KidsPublished, G!Verified, G!LabJwks
  <2>2. \A a \in allowed : a.grant # g
    BY <1>2 DEF ChecksSeeRevocations, GrantShapes
  <2>3. g \notin stored => spends[g] <= Terms[g].cap
    BY <1>2 DEF GrantShapes
  <2>. QED
    BY <1>1, <1>2, <2>1, <2>2, <2>3 DEF G!GrantHolds
<1>. QED
  BY <1>3, <1>4, <1>5, <1>6, <1>7

\* A revocation is for good.
LEMMA GrantRevokeInv == ASSUME GrantInv, NEW g \in Grants, G!Revoke(g) PROVE GrantInv'
<1>. USE GrantConstants DEF GrantInv
<1>1. UNCHANGED <<quiet, now, signer, previous, revokedKids, envelope, stored, spends, check,
                  checks, allowed>>
  BY DEF G!Revoke, G!keys
<1>2. revoked \subseteq revoked' /\ revoked' \subseteq stored
  BY DEF G!Revoke, GrantShapes
<1>3. GrantShapes' /\ KidsPublished' /\ ChecksSeeRevocations' /\ OneAtATime'
  BY <1>1, <1>2 DEF GrantShapes, KidsPublished, ChecksSeeRevocations, OneAtATime, G!InFlight,
                    G!Owed
<1>4. G!GrantHolds'
  BY <1>1 DEF G!GrantHolds, G!Verified, G!LabJwks
<1>. QED
  BY <1>3, <1>4

\* What was allowed is spent.
LEMMA GrantSpendInv == ASSUME GrantInv, NEW a \in allowed, G!Spend(a) PROVE GrantInv'
<1>. USE GrantConstants DEF GrantInv
<1>1. UNCHANGED <<quiet, now, signer, previous, revokedKids, envelope, stored, revoked, check,
                  checks>>
  BY DEF G!Spend, G!keys
<1>2. a \in GrantVerdicts /\ a.grant \in Grants /\ a.grant \in stored /\ a.amount \in Nat
  BY DEF GrantShapes, GrantVerdicts, ChecksSeeRevocations
<1>3. /\ spends' = [spends EXCEPT ![a.grant] = @ + a.amount]
      /\ allowed' = allowed \ {a}
  BY DEF G!Spend
<1>4. spends' \in [Grants -> Int] /\ spends'[a.grant] = spends[a.grant] + a.amount
      /\ \A g \in Grants \ {a.grant} : spends'[g] = spends[g]
  BY <1>2, <1>3 DEF GrantShapes
<1>5. GrantShapes'
  BY <1>1, <1>2, <1>3, <1>4 DEF GrantShapes
<1>6. KidsPublished' /\ ChecksSeeRevocations' /\ OneAtATime'
  BY <1>1, <1>3 DEF KidsPublished, ChecksSeeRevocations, OneAtATime, G!InFlight, G!Owed
<1>7. G!GrantHolds'
  <2>1. ASSUME NEW g \in quiet \cap stored
        PROVE  /\ spends'[g] <= Terms[g].cap
               /\ \A b \in allowed' : b.grant = g => spends'[g] + b.amount <= Terms[g].cap
    <3>1. CASE g = a.grant
      <4>1. \A b \in allowed' : b.grant # g
        BY <1>3, <3>1 DEF G!GrantHolds
      <4>. QED
        BY <3>1, <4>1, <1>2, <1>4 DEF G!GrantHolds
    <3>2. CASE g # a.grant
      BY <2>1, <3>2, <1>2, <1>3, <1>4 DEF G!GrantHolds, GrantShapes
    <3>. QED
      BY <3>1, <3>2
  <2>. QED
    BY <1>1, <1>3, <2>1 DEF G!GrantHolds, G!Verified, G!LabJwks
<1>. QED
  BY <1>5, <1>6, <1>7

\* A check that begins has seen nothing yet.
LEMMA GrantBeginInv ==
  ASSUME GrantInv, NEW w \in Workers, NEW g \in Grants, NEW action \in Actions,
         NEW amount \in Amounts, NEW checkedAt \in Nat \cup {None}, NEW demo \in BOOLEAN,
         G!CheckBegin(w, g, action, amount, checkedAt, demo)
  PROVE  GrantInv'
<1>. USE GrantConstants DEF GrantInv
<1>1. UNCHANGED <<quiet, now, signer, previous, revokedKids, envelope, stored, revoked, spends,
                  allowed>>
  BY DEF G!CheckBegin, G!keys, G!grants
<1>2. /\ check[w] = G!Free /\ checks' = checks + 1 /\ g \in stored
      /\ g \in quiet => ~G!InFlight(g) /\ ~G!Owed(g)
  BY DEF G!CheckBegin, GrantShapes
<1>. DEFINE before == g \in revoked
            since == IF checkedAt = None THEN now ELSE checkedAt
            c == [id |-> checks + 1, at |-> now, grant |-> g, action |-> action,
                  amount |-> amount, checkedAt |-> since,
                  demo |-> demo, revoked |-> None, before |-> before]
<1>3. check' = check \/ check' = [check EXCEPT ![w] = c]
  BY DEF G!CheckBegin
<1>4. c \in GrantChecks /\ c.grant = g /\ c.at = now /\ c.revoked = None
      /\ (c.before => g \in revoked)
  <2>1. before \in BOOLEAN /\ since \in Nat /\ checks + 1 \in Nat /\ now \in Nat
    BY DEF GrantShapes
  <2>2. c.before = before
    OBVIOUS
  <2>. HIDE DEF before, since
  <2>3. c \in GrantChecks
    BY <2>1 DEF GrantChecks
  <2>4. c.before => before
    BY <2>2, <2>1
  <2>. QED
    BY <2>3, <2>4 DEF before
<1>5. GrantShapes' /\ KidsPublished' /\ G!GrantHolds'
  <2>. HIDE DEF c
  <2>1. check' \in [Workers -> GrantChecks \cup {G!Free}]
    BY <1>3, <1>4 DEF GrantShapes
  <2>. QED
    BY <1>1, <1>2, <2>1 DEF GrantShapes, KidsPublished, G!GrantHolds, G!Verified, G!LabJwks
<1>6. CASE check' = check
  BY <1>1, <1>5, <1>6 DEF ChecksSeeRevocations, OneAtATime, G!InFlight, G!Owed
<1>7. CASE check' = [check EXCEPT ![w] = c]
  <2>. HIDE DEF c
  <2>1. check'[w] = c /\ \A v \in Workers \ {w} : check'[v] = check[v]
    BY <1>7 DEF GrantShapes
  <2>2. ChecksSeeRevocations'
    <3>1. now \in Nat
      BY DEF GrantShapes
    <3>2. /\ c.grant \in stored /\ c.at <= now
          /\ c.before => c.grant \in revoked /\ c.revoked \in {None, TRUE}
      BY <3>1, <1>2, <1>4
    <3>. QED
      BY <1>1, <2>1, <3>2 DEF ChecksSeeRevocations
  <2>3. OneAtATime'
    BY <1>1, <1>2, <1>4, <2>1 DEF OneAtATime, G!InFlight, G!Owed
  <2>. QED
    BY <1>5, <2>2, <2>3
<1>. QED
  BY <1>3, <1>6, <1>7

LEMMA GrantReadRevocationsInv ==
  ASSUME GrantInv, NEW w \in Workers, G!ReadRevocations(w) PROVE GrantInv'
<1>. USE GrantConstants DEF GrantInv
<1>1. UNCHANGED <<quiet, now, signer, previous, revokedKids, envelope, stored, revoked, spends,
                  checks, allowed>>
  BY DEF G!ReadRevocations, G!keys, G!grants
<1>2. check[w] # G!Free /\ check[w] \in GrantChecks
  BY DEF G!ReadRevocations, GrantShapes
<1>3. PICK c \in GrantChecks \cup {G!Free} :
        /\ check' = [check EXCEPT ![w] = c]
        /\ c # G!Free => /\ c.grant = check[w].grant /\ c.at = check[w].at
                         /\ c.before = check[w].before
                         /\ c.revoked = (check[w].grant \in revoked)
  <2>1. CASE check' = [check EXCEPT ![w].revoked = check[w].grant \in revoked]
    <3>. DEFINE r == check[w].grant \in revoked
                c == [check[w] EXCEPT !.revoked = r]
    <3>1. c \in GrantChecks /\ c.grant = check[w].grant /\ c.at = check[w].at
          /\ c.before = check[w].before /\ c.revoked = r
      <4>. r \in BOOLEAN
        OBVIOUS
      <4>. HIDE DEF r
      <4>. QED
        BY <1>2 DEF GrantChecks
    <3>2. check' = [check EXCEPT ![w] = c]
      BY <2>1 DEF GrantShapes
    <3>. QED
      BY <3>1, <3>2
  <2>2. CASE check' = [check EXCEPT ![w] = G!Free]
    BY <2>2
  <2>. QED
    BY <2>1, <2>2 DEF G!ReadRevocations
<1>4. check' \in [Workers -> GrantChecks \cup {G!Free}] /\ check'[w] = c
      /\ \A v \in Workers \ {w} : check'[v] = check[v]
  BY <1>3 DEF GrantShapes
<1>5. GrantShapes' /\ KidsPublished' /\ G!GrantHolds'
  BY <1>1, <1>4 DEF GrantShapes, KidsPublished, G!GrantHolds, G!Verified, G!LabJwks
<1>6. ChecksSeeRevocations'
  BY <1>1, <1>2, <1>3, <1>4 DEF ChecksSeeRevocations
<1>7. OneAtATime'
  BY <1>1, <1>2, <1>3, <1>4 DEF OneAtATime, G!InFlight, G!Owed
<1>. QED
  BY <1>5, <1>6, <1>7

\* checkGrantPure: "ok" is what passes each of its tests.
LEMMA ReasonOk ==
  ASSUME NEW c \in GrantChecks, NEW spent \in Int, G!Reason(c, spent) = "ok"
  PROVE  /\ c.at >= Terms[c.grant].from /\ c.at <= Terms[c.grant].until
         /\ ~c.revoked /\ c.action \in Terms[c.grant].scope
         /\ spent + c.amount <= Terms[c.grant].cap
<1>1. c.at \in Nat /\ c.checkedAt \in Nat /\ c.amount \in Nat /\ c.grant \in Grants
  BY GrantConstants DEF GrantChecks
<1>. DEFINE t == Terms[c.grant]
<1>2. t.from \in Int /\ t.until \in Int /\ t.cap \in Int
  BY <1>1, GrantConstants
<1>3. ~(c.at < t.from) /\ ~(c.at > t.until) /\ ~c.revoked /\ ~(c.action \notin t.scope)
      /\ ~(spent + c.amount > t.cap)
  BY DEF G!Reason
<1>. QED
  BY <1>1, <1>2, <1>3

\* The verdict: checkGrantPure allows what every one of its tests lets through.
LEMMA GrantReadSpendsInv ==
  ASSUME GrantInv, NEW w \in Workers, G!ReadSpends(w) PROVE GrantInv'
<1>. USE GrantConstants DEF GrantInv
<1>1. UNCHANGED <<quiet, now, signer, previous, revokedKids, envelope, stored, revoked, spends,
                  checks>>
  BY DEF G!ReadSpends, G!keys, G!grants
<1>. DEFINE c == check[w]
            a == [id |-> c.id, grant |-> c.grant, amount |-> c.amount, action |-> c.action,
                  at |-> c.at, before |-> c.before]
<1>2. /\ c # G!Free /\ c.revoked # None /\ c \in GrantChecks
      /\ check' = [check EXCEPT ![w] = G!Free]
      /\ \/ G!Reason(c, spends[c.grant]) = "ok" /\ allowed' = allowed \cup {a}
         \/ allowed' = allowed
  BY DEF G!ReadSpends, GrantShapes
<1>3. check' \in [Workers -> GrantChecks \cup {G!Free}] /\ check'[w] = G!Free
      /\ \A v \in Workers \ {w} : check'[v] = check[v]
  BY <1>2 DEF GrantShapes
<1>4. c.grant \in stored /\ c.grant \in Grants /\ c.amount \in Nat /\ c.at \in Nat
      /\ c.checkedAt \in Nat
  BY <1>2 DEF ChecksSeeRevocations, GrantChecks, GrantShapes
<1>5. a \in GrantVerdicts /\ a.grant = c.grant /\ a.amount = c.amount /\ a.at = c.at
      /\ a.action = c.action /\ a.before = c.before
  BY <1>2 DEF GrantVerdicts, GrantChecks
<1>6. CASE allowed' = allowed
  <2>1. GrantShapes' /\ KidsPublished' /\ G!GrantHolds'
    BY <1>1, <1>3, <1>6 DEF GrantShapes, KidsPublished, G!GrantHolds, G!Verified, G!LabJwks
  <2>2. ChecksSeeRevocations'
    BY <1>1, <1>3, <1>6 DEF ChecksSeeRevocations
  <2>3. OneAtATime'
    BY <1>1, <1>3, <1>6 DEF OneAtATime, G!InFlight, G!Owed
  <2>. QED
    BY <2>1, <2>2, <2>3
<1>7. CASE G!Reason(c, spends[c.grant]) = "ok" /\ allowed' = allowed \cup {a}
  <2>1. /\ c.at >= Terms[c.grant].from /\ c.at <= Terms[c.grant].until
        /\ ~c.revoked
        /\ c.action \in Terms[c.grant].scope
        /\ spends[c.grant] + c.amount <= Terms[c.grant].cap
    BY <1>2, <1>4, <1>7, ReasonOk DEF GrantShapes
  <2>2. ~c.before
    BY <1>2, <2>1 DEF ChecksSeeRevocations, GrantChecks
  <2>. HIDE DEF a, c
  <2>3. GrantShapes' /\ KidsPublished'
    BY <1>1, <1>3, <1>5, <1>7 DEF GrantShapes, KidsPublished
  <2>4. ChecksSeeRevocations'
    BY <1>1, <1>3, <1>4, <1>5, <1>7 DEF ChecksSeeRevocations
  <2>5. c.grant \in quiet => \A b \in allowed : b.grant # c.grant
    BY <1>2 DEF OneAtATime, G!InFlight, G!Owed, c
  <2>6. OneAtATime'
    BY <1>1, <1>2, <1>3, <1>5, <1>7 DEF OneAtATime, G!InFlight, G!Owed, c
  <2>7. \A b \in allowed' : ~b.before /\ b.action \in Terms[b.grant].scope
          /\ b.at \in Terms[b.grant].from..Terms[b.grant].until
    BY <1>4, <1>5, <1>7, <2>1, <2>2 DEF G!GrantHolds
  <2>. QED
    BY <1>1, <1>4, <1>5, <1>7, <2>1, <2>3, <2>4, <2>5, <2>6, <2>7
       DEF G!GrantHolds, G!Verified, G!LabJwks
<1>. QED
  BY <1>2, <1>6, <1>7

LEMMA GrantStepInv == ASSUME GrantInv, G!Next \/ UNCHANGED grants PROVE GrantInv'
<1>1. CASE UNCHANGED grants \/ G!Refused
  <2>1. UNCHANGED <<quiet, now, signer, previous, revokedKids, known, envelope, stored, revoked,
                    spends, check, checks, allowed>>
    BY <1>1 DEF grants, G!Refused, G!vars
  <2>2. GrantShapes' /\ KidsPublished'
    BY <2>1 DEF GrantInv, GrantShapes, KidsPublished
  <2>3. ChecksSeeRevocations' /\ OneAtATime'
    BY <2>1 DEF GrantInv, ChecksSeeRevocations, OneAtATime, G!InFlight, G!Owed
  <2>4. G!GrantHolds'
    BY <2>1 DEF GrantInv, G!GrantHolds, G!Verified, G!LabJwks
  <2>. QED
    BY <2>2, <2>3, <2>4 DEF GrantInv
<1>2. ASSUME NEW w \in Workers, NEW g \in Grants, G!LiveCheck(w, g) \/ G!SandboxCheck(w, g)
      PROVE  GrantInv'
  <2>1. now \in Nat
    BY DEF GrantInv, GrantShapes
  <2>2. PICK action \in Actions, amount \in Amounts, checkedAt \in Nat \cup {None},
             demo \in BOOLEAN : G!CheckBegin(w, g, action, amount, checkedAt, demo)
    <3>1. CASE G!LiveCheck(w, g)
      <4>1. PICK action \in Actions, amount \in Amounts, checkedAt \in {None} \cup (0..now) :
                   G!CheckBegin(w, g, action, amount, checkedAt, FALSE)
        BY <3>1 DEF G!LiveCheck
      <4>2. checkedAt \in Nat \cup {None} /\ FALSE \in BOOLEAN
        BY <2>1
      <4>. QED
        BY <4>1, <4>2
    <3>2. CASE G!SandboxCheck(w, g)
      BY <3>2 DEF G!SandboxCheck
    <3>. QED
      BY <1>2, <3>1, <3>2
  <2>. QED
    BY <2>2, GrantBeginInv
<1>3. ASSUME G!Next, ~G!Refused,
             \A w \in Workers, g \in Grants : ~G!LiveCheck(w, g) /\ ~G!SandboxCheck(w, g)
      PROVE  GrantInv'
  BY <1>3, GrantKeysInv, GrantIssueInv, GrantRevokeInv, GrantSpendInv,
     GrantReadRevocationsInv, GrantReadSpendsInv DEF G!Next
<1>. QED
  BY <1>1, <1>2, <1>3

LEMMA GrantInvariant == Spec => []GrantInv
<1>1. Init => GrantInv
  BY PartsBegin, GrantInitInv
<1>2. GrantInv /\ [Next]_vars => GrantInv'
  BY PartsMove, GrantStepInv
<1>. QED
  BY <1>1, <1>2, PTL DEF Spec

\* checkGrantPure allows only what the grant's scope, window and cap admit and
\* never what was revoked before the check began, however reads, revocations
\* and key rotations interleave; an envelope verifies by the lab's JWKS until
\* its kid is revoked.  A spend by warrant is within every body of its chain,
\* whoever wrote it, and what the lab issued never widens (narrow.ts).
THEOREM GrantsAndWarrantsHold == Spec => []GrantHolds
<1>1. GrantInv => G!GrantHolds
  BY DEF GrantInv
<1>2. WarrantInv => W!WarrantHolds
  BY WarrantInvHolds
<1>. QED
  BY <1>1, <1>2, GrantInvariant, WarrantInvariant, PTL DEF GrantHolds

-----------------------------------------------------------------------------
(* Escrow plans *)

EscrowRows ==
  [status : {"locked", "released", "refunded", "timed_out"},
   amount : Int, fee : Int, until : Int]
DisputeRows ==
  [status : {"open", "answered", "resolved"}, opener : {"payer", "agent"}, won : BOOLEAN]

\* What each plan of toll-3-core.mjs leaves of an escrow and its disputes: an
\* account of what is held, no dispute without a row, one that is resolved
\* only beside a row that is no longer locked.
EscrowBooks ==
  /\ held["escrow"] =
       IF escrow = None \/ P!Delivered THEN 0
       ELSE IF P!Locked THEN escrow.amount ELSE escrow.fee
  /\ held["lab"] =
       DisputeFee * Cardinality(P!Lost) + (IF P!Delivered THEN escrow.fee ELSE 0)
  /\ held["payer"] + held["agent"] + held["escrow"] + held["lab"] = 0
OneDecides ==
  /\ \A d \in Disputes : dispute[d] # None =>
       /\ escrow # None
       /\ dispute[d].status = "resolved" => ~P!Locked
       /\ dispute[d].status # "resolved" => dispute[d].won = FALSE
  /\ \A d, e \in Disputes :
       dispute[d] # None /\ dispute[e] # None =>
         (dispute[d].status = "resolved" /\ dispute[e].status = "resolved" => d = e)
EscrowShapes ==
  /\ escrow \in {None} \cup EscrowRows
  /\ dispute \in [Disputes -> {None} \cup DisputeRows]
  /\ held \in [P!Accounts -> Int]
  /\ clock \in Nat
EscrowInv == EscrowShapes /\ EscrowBooks /\ OneDecides

LEMMA PlanNone == None \notin EscrowRows \cup DisputeRows
BY PlanConstants DEF EscrowRows, DisputeRows

\* What the lab keeps of the disputes, when one is opened or won.
LEMMA LostIsFinite == IsFiniteSet(P!Lost) /\ Cardinality(P!Lost) \in Nat
<1>1. P!Lost \subseteq Disputes
  BY DEF P!Lost
<1>. QED
  BY <1>1, PlanConstants, FS_Subset, FS_CardinalityType

LEMMA FeeTimes ==
  ASSUME NEW n \in Nat
  PROVE  /\ DisputeFee * (n + 1) = DisputeFee * n + DisputeFee
         /\ DisputeFee * (n - 1) = DisputeFee * n - DisputeFee
         /\ DisputeFee * n \in Int
BY PlanConstants

\* validateAmountUusdc, escrowFeeFor
LEMMA FeeIsInt == ASSUME NEW amount \in Int PROVE P!Fee(amount) \in Int
BY DEF P!Fee

LEMMA PlanInitInv == ASSUME P!Init PROVE EscrowInv
<1>1. EscrowShapes
  BY DEF P!Init, EscrowShapes, P!Accounts
<1>2. OneDecides
  BY DEF P!Init, OneDecides
<1>3. P!Lost = {} /\ held["escrow"] = 0 /\ held["lab"] = 0 /\ held["payer"] = 0
      /\ held["agent"] = 0 /\ escrow = None
  BY DEF P!Init, P!Lost, P!Accounts
<1>4. Cardinality(P!Lost) = 0 /\ DisputeFee * 0 = 0
  BY <1>3, FS_EmptySet, PlanConstants
<1>. QED
  BY <1>1, <1>2, <1>3, <1>4 DEF EscrowInv, EscrowBooks, P!Delivered

\* While the row is locked no dispute has decided.
LEMMA LockedBooks ==
  ASSUME EscrowInv, P!Locked
  PROVE  /\ P!Decided = {} /\ ~P!Delivered /\ held["escrow"] = escrow.amount
         /\ held["lab"] = DisputeFee * Cardinality(P!Lost)
         /\ escrow.amount \in Int /\ escrow.fee \in Int
         /\ escrow.amount = P!Net(escrow) + escrow.fee
<1>1. escrow \in EscrowRows /\ escrow # None /\ escrow.status = "locked"
  BY DEF EscrowInv, EscrowShapes, P!Locked
<1>2. escrow.amount \in Int /\ escrow.fee \in Int
  BY <1>1 DEF EscrowRows
<1>3. P!Decided = {} /\ ~P!Delivered
  BY <1>1 DEF P!Decided, P!Delivered, EscrowInv, OneDecides
<1>4. DisputeFee * Cardinality(P!Lost) \in Int
  BY LostIsFinite, FeeTimes
<1>5. held["escrow"] = escrow.amount /\ held["lab"] = DisputeFee * Cardinality(P!Lost)
  BY <1>1, <1>3, <1>4 DEF EscrowInv, EscrowBooks
<1>. QED
  BY <1>2, <1>3, <1>5 DEF P!Net

\* A plan that takes the row out of "locked" and pays out its net.
LEMMA SettledBooks ==
  ASSUME EscrowInv, P!Locked,
         NEW status \in {"released", "refunded", "timed_out"},
         escrow' = [escrow EXCEPT !.status = status]
  PROVE  /\ escrow' \in EscrowRows /\ escrow' # None /\ escrow # None /\ ~P!Locked'
         /\ escrow'.fee = escrow.fee /\ P!Net(escrow) \in Int /\ escrow.fee \in Int
         /\ escrow'.status = status
<1>1. escrow \in EscrowRows /\ escrow # None /\ escrow.status = "locked"
  BY DEF EscrowInv, EscrowShapes, P!Locked
<1>2. escrow' \in EscrowRows /\ escrow'.status = status /\ escrow'.fee = escrow.fee
  BY <1>1 DEF EscrowRows
<1>3. P!Net(escrow) \in Int /\ escrow.fee \in Int
  BY <1>1 DEF EscrowRows, P!Net
<1>. QED
  BY <1>1, <1>2, <1>3, PlanNone DEF P!Locked

LEMMA PlanLockInv ==
  ASSUME EscrowInv, NEW amount \in LockAmounts, NEW timeout \in 1..MaxClock,
         P!Lock(amount, timeout)
  PROVE  EscrowInv'
<1>. DEFINE fee == P!Fee(amount)
<1>1. amount \in Int /\ fee \in Int /\ clock + timeout \in Int
  BY FeeIsInt, PlanConstants DEF EscrowInv, EscrowShapes
<1>2. /\ escrow = None /\ UNCHANGED <<dispute, clock>>
      /\ escrow' = [status |-> "locked", amount |-> amount, fee |-> fee,
                  until |-> clock + timeout]
      /\ held' = P!Pay(held, "payer", "escrow", amount)
  BY DEF P!Lock
<1>. HIDE DEF fee
<1>3. escrow' \in EscrowRows /\ escrow'.status = "locked" /\ escrow'.amount = amount
  BY <1>1, <1>2 DEF EscrowRows
<1>4. escrow' # None /\ P!Locked' /\ ~P!Delivered' /\ ~P!Delivered
  BY <1>2, <1>3, PlanNone DEF P!Locked, P!Delivered
<1>5. /\ held' \in [P!Accounts -> Int]
      /\ held'["payer"] = held["payer"] - amount /\ held'["escrow"] = held["escrow"] + amount
      /\ held'["agent"] = held["agent"] /\ held'["lab"] = held["lab"]
  <2>1. held \in [P!Accounts -> Int]
    BY DEF EscrowInv, EscrowShapes
  <2>. QED
    BY <2>1, <1>1, <1>2 DEF P!Pay, P!Accounts
<1>6. \A d \in Disputes : dispute[d] = None
  BY <1>2 DEF EscrowInv, OneDecides
<1>7. P!Lost' = P!Lost
  BY <1>2 DEF P!Lost
<1>8. EscrowShapes'
  BY <1>2, <1>3, <1>5 DEF EscrowInv, EscrowShapes
<1>9. OneDecides'
  BY <1>2, <1>6 DEF OneDecides
<1>10. held["escrow"] = 0 /\ held["lab"] = DisputeFee * Cardinality(P!Lost)
  BY <1>2, <1>4, LostIsFinite, FeeTimes DEF EscrowInv, EscrowBooks
<1>11. /\ held["payer"] \in Int /\ held["agent"] \in Int
       /\ held["escrow"] \in Int /\ held["lab"] \in Int
  BY DEF EscrowInv, EscrowShapes, P!Accounts
<1>12. EscrowBooks'
  <2>1. held'["escrow"] = escrow'.amount
    BY <1>1, <1>3, <1>5, <1>10
  <2>2. held'["lab"] = DisputeFee * Cardinality(P!Lost)' + 0
    BY <1>5, <1>7, <1>10, LostIsFinite, FeeTimes
  <2>3. held'["payer"] + held'["agent"] + held'["escrow"] + held'["lab"] = 0
    BY <1>1, <1>5, <1>11 DEF EscrowInv, EscrowBooks
  <2>. QED
    BY <2>1, <2>2, <2>3, <1>4 DEF EscrowBooks
<1>. QED
  BY <1>8, <1>9, <1>12 DEF EscrowInv

\* A release by receipt pays the net to the agent and the fee to the lab.
LEMMA PlanReleaseInv == ASSUME EscrowInv, P!Release PROVE EscrowInv'
<1>. DEFINE net == P!Net(escrow)
            paid == P!Pay(held, "escrow", "agent", net)
<1>1. /\ P!Locked /\ escrow' = [escrow EXCEPT !.status = "released"]
      /\ held' = P!Pay(paid, "escrow", "lab", escrow.fee) /\ UNCHANGED <<dispute, clock>>
  BY DEF P!Release, P!Settle
<1>2. /\ escrow' \in EscrowRows /\ escrow' # None /\ escrow # None /\ ~P!Locked'
      /\ escrow'.fee = escrow.fee /\ net \in Int /\ escrow.fee \in Int
      /\ escrow'.status = "released"
  BY <1>1, SettledBooks
<1>3. /\ P!Decided = {} /\ held["escrow"] = net + escrow.fee
      /\ held["lab"] = DisputeFee * Cardinality(P!Lost)
  BY <1>1, LockedBooks
<1>. HIDE DEF net
<1>4. /\ paid \in [P!Accounts -> Int]
      /\ paid["escrow"] = held["escrow"] - net /\ paid["agent"] = held["agent"] + net
      /\ paid["payer"] = held["payer"] /\ paid["lab"] = held["lab"]
  <2>1. held \in [P!Accounts -> Int]
    BY DEF EscrowInv, EscrowShapes
  <2>. QED
    BY <2>1, <1>2 DEF P!Pay, P!Accounts
<1>. HIDE DEF paid
<1>5. /\ held' \in [P!Accounts -> Int]
      /\ held'["escrow"] = paid["escrow"] - escrow.fee /\ held'["lab"] = paid["lab"] + escrow.fee
      /\ held'["payer"] = paid["payer"] /\ held'["agent"] = paid["agent"]
  BY <1>1, <1>2, <1>4 DEF P!Pay, P!Accounts
<1>6. EscrowShapes'
  BY <1>1, <1>2, <1>5 DEF EscrowInv, EscrowShapes
<1>7. P!Lost' = P!Lost /\ P!Decided' = {}
  BY <1>1, <1>3 DEF P!Lost, P!Decided
<1>8. P!Delivered'
  BY <1>2, <1>7 DEF P!Delivered
<1>9. OneDecides'
  BY <1>1, <1>2 DEF EscrowInv, OneDecides
<1>10. /\ held["payer"] \in Int /\ held["agent"] \in Int
       /\ held["escrow"] \in Int /\ held["lab"] \in Int
  BY DEF EscrowInv, EscrowShapes, P!Accounts
<1>11. EscrowBooks'
  <2>1. held'["escrow"] = 0
    BY <1>2, <1>3, <1>4, <1>5, <1>10
  <2>2. held'["lab"] = DisputeFee * Cardinality(P!Lost)' + escrow'.fee
    BY <1>2, <1>3, <1>4, <1>5, <1>7
  <2>3. held["payer"] + held["agent"] + held["escrow"] + held["lab"] = 0
    BY DEF EscrowInv, EscrowBooks
  <2>4. held'["payer"] + held'["agent"] + held'["escrow"] + held'["lab"] = 0
    BY <2>3, <1>2, <1>4, <1>5, <1>10
  <2>. QED
    BY <2>1, <2>2, <2>4, <1>8 DEF EscrowBooks
<1>. QED
  BY <1>6, <1>9, <1>11 DEF EscrowInv

\* The timeout's refund pays the net to the payer, and leaves the fee.
LEMMA PlanTimeoutInv == ASSUME EscrowInv, P!TimeoutRefund PROVE EscrowInv'
<1>. DEFINE net == P!Net(escrow)
<1>1. /\ P!Locked /\ escrow' = [escrow EXCEPT !.status = "timed_out"]
      /\ held' = P!Pay(held, "escrow", "payer", net) /\ UNCHANGED <<dispute, clock>>
  BY DEF P!TimeoutRefund, P!Settle
<1>2. /\ escrow' \in EscrowRows /\ escrow' # None /\ escrow # None /\ ~P!Locked'
      /\ escrow'.fee = escrow.fee /\ net \in Int /\ escrow.fee \in Int
      /\ escrow'.status = "timed_out"
  BY <1>1, SettledBooks
<1>3. /\ held["escrow"] = net + escrow.fee
      /\ held["lab"] = DisputeFee * Cardinality(P!Lost)
  BY <1>1, LockedBooks
<1>. HIDE DEF net
<1>4. /\ held' \in [P!Accounts -> Int]
      /\ held'["escrow"] = held["escrow"] - net /\ held'["payer"] = held["payer"] + net
      /\ held'["agent"] = held["agent"] /\ held'["lab"] = held["lab"]
  <2>1. held \in [P!Accounts -> Int]
    BY DEF EscrowInv, EscrowShapes
  <2>. QED
    BY <2>1, <1>1, <1>2 DEF P!Pay, P!Accounts
<1>5. EscrowShapes'
  BY <1>1, <1>2, <1>4 DEF EscrowInv, EscrowShapes
<1>6. P!Lost' = P!Lost
  BY <1>1 DEF P!Lost
<1>7. ~P!Delivered'
  BY <1>2 DEF P!Delivered
<1>8. OneDecides'
  BY <1>1, <1>2 DEF EscrowInv, OneDecides
<1>9. /\ held["payer"] \in Int /\ held["agent"] \in Int
      /\ held["escrow"] \in Int /\ held["lab"] \in Int
  BY DEF EscrowInv, EscrowShapes, P!Accounts
<1>10. EscrowBooks'
  <2>1. held'["escrow"] = escrow'.fee
    BY <1>2, <1>3, <1>4, <1>9
  <2>2. held'["lab"] = DisputeFee * Cardinality(P!Lost)' + 0
    BY <1>3, <1>4, <1>6, LostIsFinite, FeeTimes
  <2>3. held["payer"] + held["agent"] + held["escrow"] + held["lab"] = 0
    BY DEF EscrowInv, EscrowBooks
  <2>4. held'["payer"] + held'["agent"] + held'["escrow"] + held'["lab"] = 0
    BY <2>3, <1>2, <1>4, <1>9
  <2>. QED
    BY <2>1, <2>2, <2>4, <1>2, <1>7 DEF EscrowBooks
<1>. QED
  BY <1>5, <1>8, <1>10 DEF EscrowInv

\* buildDisputeOpen takes the fee of whoever opens it.
LEMMA PlanOpenInv ==
  ASSUME EscrowInv, NEW d \in Disputes, NEW opener \in P!Parties, P!DisputeOpen(d, opener)
  PROVE  EscrowInv'
<1>. DEFINE row == [status |-> "open", opener |-> opener, won |-> FALSE]
<1>1. /\ P!Locked /\ dispute[d] = None /\ UNCHANGED <<escrow, clock>>
      /\ dispute' = [dispute EXCEPT ![d] = row]
      /\ held' = P!Pay(held, opener, "lab", DisputeFee)
  BY DEF P!DisputeOpen
<1>2. row \in DisputeRows /\ row.status = "open" /\ row.won = FALSE
  BY DEF DisputeRows, P!Parties
<1>. HIDE DEF row
<1>3. row # None
  BY <1>2, PlanNone
<1>4. held \in [P!Accounts -> Int] /\ dispute \in [Disputes -> {None} \cup DisputeRows]
  BY DEF EscrowInv, EscrowShapes
<1>5. opener \in {"payer", "agent"} /\ DisputeFee \in Int
  BY PlanConstants DEF P!Parties
<1>6. /\ held' \in [P!Accounts -> Int] /\ held'["lab"] = held["lab"] + DisputeFee
      /\ held'["escrow"] = held["escrow"]
      /\ held'["payer"] = held["payer"] - (IF opener = "payer" THEN DisputeFee ELSE 0)
      /\ held'["agent"] = held["agent"] - (IF opener = "agent" THEN DisputeFee ELSE 0)
  <2>1. CASE opener = "payer"
    BY <1>1, <1>4, <1>5, <2>1 DEF P!Pay, P!Accounts
  <2>2. CASE opener = "agent"
    BY <1>1, <1>4, <1>5, <2>2 DEF P!Pay, P!Accounts
  <2>. QED
    BY <2>1, <2>2, <1>5
<1>7. EscrowShapes'
  BY <1>1, <1>2, <1>4, <1>6 DEF EscrowInv, EscrowShapes
<1>8. OneDecides'
  <2>1. P!Locked' /\ escrow' # None
    BY <1>1 DEF P!Locked
  <2>2. \A e \in Disputes : dispute[e] # None => dispute[e].status # "resolved"
    BY <1>1 DEF EscrowInv, OneDecides
  <2>3. \A e \in Disputes : dispute'[e] = IF e = d THEN row ELSE dispute[e]
    BY <1>1, <1>4
  <2>4. \A e \in Disputes : dispute'[e] # None =>
          dispute'[e].status # "resolved" /\ dispute'[e].won = FALSE
    BY <1>2, <2>2, <2>3 DEF EscrowInv, OneDecides
  <2>. QED
    BY <2>1, <2>4 DEF OneDecides
<1>9. P!Lost' = P!Lost \cup {d} /\ d \notin P!Lost
  BY <1>1, <1>2, <1>3, <1>4 DEF P!Lost
<1>10. Cardinality(P!Lost)' = Cardinality(P!Lost) + 1
  BY <1>9, LostIsFinite, FS_AddElement
<1>11. EscrowBooks'
  <2>1. DisputeFee * (Cardinality(P!Lost) + 1) = DisputeFee * Cardinality(P!Lost) + DisputeFee
        /\ DisputeFee * Cardinality(P!Lost) \in Int
    BY LostIsFinite, FeeTimes
  <2>2. /\ held["payer"] \in Int /\ held["agent"] \in Int
        /\ held["escrow"] \in Int /\ held["lab"] \in Int
    BY <1>4 DEF P!Accounts
  <2>3. held["escrow"] = escrow.amount /\ held["lab"] = DisputeFee * Cardinality(P!Lost)
    BY <1>1, LockedBooks
  <2>4. held'["lab"] = DisputeFee * Cardinality(P!Lost)' + 0
    BY <1>5, <1>6, <1>10, <2>1, <2>2, <2>3
  <2>5. held'["payer"] + held'["agent"] + held'["escrow"] + held'["lab"] = 0
    BY <1>5, <1>6, <2>2 DEF EscrowInv, EscrowBooks
  <2>6. held'["escrow"] = escrow'.amount /\ P!Locked' /\ escrow' # None /\ ~P!Delivered'
    BY <1>1, <1>6, <2>3 DEF P!Locked, P!Delivered
  <2>. QED
    BY <2>4, <2>5, <2>6 DEF EscrowBooks
<1>. QED
  BY <1>7, <1>8, <1>11 DEF EscrowInv

\* buildDisputeRespond moves nothing.
LEMMA PlanRespondInv ==
  ASSUME EscrowInv, NEW d \in Disputes, P!DisputeRespond(d)
  PROVE  EscrowInv'
<1>1. /\ dispute[d] # None /\ dispute[d].status = "open" /\ UNCHANGED <<escrow, held, clock>>
      /\ dispute' = [dispute EXCEPT ![d].status = "answered"]
  BY DEF P!DisputeRespond
<1>. DEFINE row == [dispute[d] EXCEPT !.status = "answered"]
<1>2. dispute[d] \in DisputeRows /\ dispute \in [Disputes -> {None} \cup DisputeRows]
  BY <1>1 DEF EscrowInv, EscrowShapes
<1>3. row \in DisputeRows /\ row.status = "answered" /\ row.won = dispute[d].won
  BY <1>2 DEF DisputeRows
<1>4. \A e \in Disputes : dispute'[e] = IF e = d THEN row ELSE dispute[e]
  BY <1>1, <1>2
<1>. HIDE DEF row
<1>5. row # None
  BY <1>3, PlanNone
<1>6. EscrowShapes'
  BY <1>1, <1>2, <1>3, <1>4 DEF EscrowInv, EscrowShapes
<1>7. P!Lost' = P!Lost
  BY <1>1, <1>3, <1>4, <1>5 DEF P!Lost
<1>8. OneDecides'
  BY <1>1, <1>3, <1>4, <1>5 DEF EscrowInv, OneDecides, P!Locked
<1>9. P!Decided' = P!Decided
  BY <1>1, <1>3, <1>4, <1>5 DEF P!Decided
<1>10. P!Delivered' = P!Delivered /\ P!Locked' = P!Locked
  BY <1>1, <1>9 DEF P!Delivered, P!Locked
<1>11. EscrowBooks'
  BY <1>1, <1>7, <1>10 DEF EscrowInv, EscrowBooks
<1>. QED
  BY <1>6, <1>8, <1>11 DEF EscrowInv

\* buildDisputeResolve pays the net out, and gives the winner's fee back.
LEMMA PlanResolveInv ==
  ASSUME EscrowInv, NEW d \in Disputes, NEW outcome \in {"partial", "refund", "release"},
         NEW share \in Int, P!DisputeResolve(d, outcome, share)
  PROVE  EscrowInv'
<1>. DEFINE row == [dispute[d] EXCEPT !.status = "resolved", !.won = outcome # "release"]
            plan == P!Resolution(d, outcome, share)
            net == P!Net(escrow)
            back == IF outcome = "release" THEN 0 ELSE DisputeFee
            opener == dispute[d].opener
<1>1. /\ dispute[d] # None /\ dispute[d].status \in {"open", "answered"} /\ P!Locked
      /\ escrow' = [escrow EXCEPT !.status = plan.to] /\ held' = plan.held
      /\ dispute' = [dispute EXCEPT ![d] = row] /\ UNCHANGED clock
  BY DEF P!DisputeResolve, P!Settle
<1>2. /\ held \in [P!Accounts -> Int] /\ dispute \in [Disputes -> {None} \cup DisputeRows]
      /\ dispute[d] \in DisputeRows
  BY <1>1 DEF EscrowInv, EscrowShapes
<1>3. opener \in {"payer", "agent"} /\ DisputeFee \in Int /\ dispute[d].won = FALSE
  BY <1>1, <1>2, PlanConstants DEF DisputeRows, EscrowInv, OneDecides
<1>4. row \in DisputeRows /\ row.status = "resolved" /\ row.won = (outcome # "release")
  BY <1>2 DEF DisputeRows
<1>5. \A e \in Disputes : dispute'[e] = IF e = d THEN row ELSE dispute[e]
  BY <1>1, <1>2
<1>. HIDE DEF row
<1>6. row # None
  BY <1>4, PlanNone
<1>7. plan.to \in {"released", "refunded", "timed_out"}
  BY DEF P!Resolution
<1>8. /\ escrow' \in EscrowRows /\ escrow' # None /\ escrow # None /\ ~P!Locked'
      /\ escrow'.fee = escrow.fee /\ net \in Int /\ escrow.fee \in Int
  BY <1>1, <1>7, SettledBooks
<1>9. /\ held["escrow"] = net + escrow.fee
      /\ held["lab"] = DisputeFee * Cardinality(P!Lost)
  BY <1>1, LockedBooks
<1>10. /\ held' \in [P!Accounts -> Int] /\ held'["escrow"] = held["escrow"] - net
       /\ held'["lab"] = held["lab"] - back
       /\ held'["payer"] + held'["agent"] = held["payer"] + held["agent"] + net + back
  <2>. HIDE DEF net, opener
  <2>1. CASE outcome = "release"
    <3>1. held' = P!Pay(held, "escrow", "agent", net)
      BY <1>1, <2>1 DEF P!Resolution, net
    <3>. QED
      BY <3>1, <2>1, <1>2, <1>8 DEF P!Pay, P!Accounts
  <2>2. CASE outcome = "refund"
    <3>1. held' = P!Pay(P!Pay(held, "lab", opener, DisputeFee), "escrow", "payer", net)
      BY <1>1, <2>2 DEF P!Resolution, net, opener
    <3>2. CASE opener = "payer"
      BY <3>1, <3>2, <2>2, <1>2, <1>3, <1>8 DEF P!Pay, P!Accounts
    <3>3. CASE opener = "agent"
      BY <3>1, <3>3, <2>2, <1>2, <1>3, <1>8 DEF P!Pay, P!Accounts
    <3>. QED
      BY <3>2, <3>3, <1>3
  <2>3. CASE outcome = "partial"
    <3>. DEFINE first == P!Pay(held, "lab", opener, DisputeFee)
                second == P!Pay(first, "escrow", "payer", share)
    <3>1. held' = P!Pay(second, "escrow", "agent", net - share)
      BY <1>1, <2>3 DEF P!Resolution, net, opener
    <3>2. /\ first \in [P!Accounts -> Int] /\ first["escrow"] = held["escrow"]
          /\ first["lab"] = held["lab"] - DisputeFee
          /\ first["payer"] + first["agent"] = held["payer"] + held["agent"] + DisputeFee
      <4>1. CASE opener = "payer"
        BY <4>1, <1>2, <1>3 DEF P!Pay, P!Accounts
      <4>2. CASE opener = "agent"
        BY <4>2, <1>2, <1>3 DEF P!Pay, P!Accounts
      <4>. QED
        BY <4>1, <4>2, <1>3
    <3>. HIDE DEF first
    <3>3. /\ second \in [P!Accounts -> Int] /\ second["escrow"] = first["escrow"] - share
          /\ second["lab"] = first["lab"]
          /\ second["payer"] = first["payer"] + share /\ second["agent"] = first["agent"]
      BY <3>2 DEF P!Pay, P!Accounts
    <3>. HIDE DEF second
    <3>4. /\ held' \in [P!Accounts -> Int] /\ held'["escrow"] = second["escrow"] - (net - share)
          /\ held'["lab"] = second["lab"] /\ held'["payer"] = second["payer"]
          /\ held'["agent"] = second["agent"] + (net - share)
      BY <3>1, <3>3, <1>8 DEF P!Pay, P!Accounts
    <3>5. /\ first["payer"] \in Int /\ first["agent"] \in Int /\ first["escrow"] \in Int
          /\ held["payer"] \in Int /\ held["agent"] \in Int /\ held["escrow"] \in Int
      BY <3>2, <1>2 DEF P!Accounts
    <3>. QED
      BY <3>2, <3>3, <3>4, <3>5, <2>3, <1>3, <1>8
  <2>. QED
    BY <2>1, <2>2, <2>3
<1>11. EscrowShapes'
  BY <1>1, <1>2, <1>4, <1>5, <1>8, <1>10 DEF EscrowInv, EscrowShapes
<1>12. OneDecides'
  <2>1. \A e \in Disputes : dispute[e] # None => dispute[e].status # "resolved"
    BY <1>1 DEF EscrowInv, OneDecides
  <2>2. \A e \in Disputes : dispute'[e] # None /\ dispute'[e].status = "resolved" => e = d
    BY <1>5, <2>1
  <2>3. \A e \in Disputes : dispute'[e] # None /\ dispute'[e].status # "resolved" =>
          dispute'[e].won = FALSE
    BY <1>4, <1>5 DEF EscrowInv, OneDecides
  <2>. QED
    BY <1>8, <2>2, <2>3 DEF OneDecides
<1>13. DisputeFee * Cardinality(P!Lost)' = DisputeFee * Cardinality(P!Lost) - back
       /\ DisputeFee * Cardinality(P!Lost) \in Int
  <2>1. d \in P!Lost
    BY <1>1, <1>3 DEF P!Lost
  <2>2. CASE outcome = "release"
    <3>1. P!Lost' = P!Lost
      BY <1>1, <1>3, <1>4, <1>5, <1>6, <2>2 DEF P!Lost
    <3>. QED
      BY <3>1, <2>2, LostIsFinite, FeeTimes
  <2>3. CASE outcome # "release"
    <3>1. P!Lost' = P!Lost \ {d}
      BY <1>1, <1>3, <1>4, <1>5, <1>6, <2>3 DEF P!Lost
    <3>2. Cardinality(P!Lost)' = Cardinality(P!Lost) - 1
      BY <3>1, <2>1, LostIsFinite, FS_RemoveElement
    <3>. QED
      BY <3>2, <2>3, LostIsFinite, FeeTimes
  <2>. QED
    BY <2>2, <2>3
<1>14. EscrowBooks'
  <2>1. /\ held["payer"] \in Int /\ held["agent"] \in Int
        /\ held["escrow"] \in Int /\ held["lab"] \in Int
        /\ held'["payer"] \in Int /\ held'["agent"] \in Int
    BY <1>2, <1>10 DEF P!Accounts
  <2>2. back \in Int
    BY <1>3
  <2>. HIDE DEF back, net
  <2>3. held'["escrow"] = escrow'.fee
    BY <1>8, <1>9, <1>10, <2>1
  <2>4. held'["lab"] = DisputeFee * Cardinality(P!Lost)' + 0
    BY <1>9, <1>10, <1>13, <2>1, <2>2
  <2>5. held["payer"] + held["agent"] + held["escrow"] + held["lab"] = 0
    BY DEF EscrowInv, EscrowBooks
  <2>6. held'["payer"] + held'["agent"] + held'["escrow"] + held'["lab"] = 0
    BY <2>5, <1>8, <1>10, <2>1, <2>2
  <2>7. ~P!Delivered'
    BY <1>4, <1>5, <1>6 DEF P!Delivered, P!Decided
  <2>. QED
    BY <1>8, <2>3, <2>4, <2>6, <2>7 DEF EscrowBooks
<1>. QED
  BY <1>11, <1>12, <1>14 DEF EscrowInv

LEMMA PlanEscrowStep == ASSUME EscrowInv, P!Next \/ UNCHANGED planners PROVE EscrowInv'
<1>1. ASSUME UNCHANGED <<escrow, dispute, held>>, clock' = clock \/ clock' = clock + 1
      PROVE  EscrowInv'
  <2>1. P!Lost' = P!Lost /\ P!Locked' = P!Locked /\ P!Delivered' = P!Delivered
    BY <1>1 DEF P!Lost, P!Locked, P!Delivered, P!Decided
  <2>2. EscrowShapes'
    BY <1>1 DEF EscrowInv, EscrowShapes
  <2>3. EscrowBooks'
    BY <1>1, <2>1 DEF EscrowInv, EscrowBooks
  <2>4. OneDecides'
    BY <1>1, <2>1 DEF EscrowInv, OneDecides
  <2>. QED
    BY <2>2, <2>3, <2>4 DEF EscrowInv
<1>2. CASE UNCHANGED planners
  BY <1>1, <1>2 DEF planners, escrows
<1>3. ASSUME NEW amount \in LockAmounts, NEW timeout \in 1..MaxClock, P!Lock(amount, timeout)
      PROVE  EscrowInv'
  BY <1>3, PlanLockInv
<1>4. CASE P!Release
  BY <1>4, PlanReleaseInv
<1>5. CASE P!TimeoutRefund
  BY <1>5, PlanTimeoutInv
<1>6. ASSUME NEW d \in Disputes,
             \/ \E opener \in P!Parties : P!DisputeOpen(d, opener)
             \/ P!DisputeRespond(d)
             \/ \E share \in Partials : P!DisputeResolve(d, "partial", share)
             \/ \E outcome \in {"refund", "release"} : P!DisputeResolve(d, outcome, 0)
      PROVE  EscrowInv'
  <2>1. Partials \subseteq Int
    BY PlanConstants
  <2>. QED
    BY <1>6, <2>1, PlanOpenInv, PlanRespondInv, PlanResolveInv
<1>7. CASE \/ P!CreateBudget \/ P!Second \/ P!Thrown
           \/ \E category \in Categories, amount \in Charges : P!Authorize(category, amount)
  BY <1>1, <1>7 DEF P!CreateBudget, P!Second, P!Thrown, P!planVars, P!Authorize
<1>. QED
  BY <1>2, <1>3, <1>4, <1>5, <1>6, <1>7 DEF P!Next

\* What authorizeBudget leaves of a row: each charge of a window is a stretch
\* of what the row has spent, and starts where the last one ended.
BudgetRows == [spent : Int, start : Int]
ChargeRows ==
  [row : Nat, of : Categories, at : Int, before : Int, amount : Nat, start : Int]
BudgetShapes ==
  /\ budget \in Seq(BudgetRows) /\ Len(budget) <= Len(Budgets)
  /\ charged \subseteq ChargeRows
  /\ clock \in Nat
BudgetHeld ==
  /\ \A i \in 1..Len(budget) : budget[i].spent >= 0 /\ budget[i].start <= clock
  /\ \A c \in charged :
       /\ c.row \in 1..Len(budget) /\ c.start <= budget[c.row].start
       /\ c.start = budget[c.row].start => c.before + c.amount <= budget[c.row].spent
  /\ \A c \in charged :
       /\ Budgets[c.row].categories = {} \/ c.of \in Budgets[c.row].categories
       /\ c.before >= 0 /\ c.before + c.amount <= Budgets[c.row].cap
       /\ \A e \in charged :
            e # c /\ e.row = c.row /\ e.start = c.start => P!Follows(c, e) \/ P!Follows(e, c)
       /\ Budgets[c.row].secs # None => c.at < c.start + Budgets[c.row].secs
BudgetInv == BudgetShapes /\ BudgetHeld

LEMMA BudgetInitInv == ASSUME P!Init PROVE BudgetInv
<1>1. budget = <<>> /\ charged = {} /\ clock = 0 /\ Len(Budgets) \in Nat
  BY PlanConstants DEF P!Init
<1>. QED
  BY <1>1 DEF BudgetInv, BudgetShapes, BudgetHeld

LEMMA CreateBudgetInv == ASSUME BudgetInv, P!CreateBudget PROVE BudgetInv'
<1>. DEFINE row == [spent |-> 0, start |-> clock]
<1>1. /\ Len(budget) < Len(Budgets) /\ budget' = Append(budget, row)
      /\ UNCHANGED <<charged, clock>>
      /\ budget \in Seq(BudgetRows) /\ Len(Budgets) \in Nat
  BY PlanConstants DEF P!CreateBudget, BudgetInv, BudgetShapes
<1>2. row \in BudgetRows /\ row.spent = 0 /\ row.start = clock /\ clock \in Nat
  BY DEF BudgetRows, BudgetInv, BudgetShapes
<1>. HIDE DEF row
<1>3. /\ budget' \in Seq(BudgetRows) /\ Len(budget') = Len(budget) + 1 /\ Len(budget) \in Nat
      /\ \A i \in 1..Len(budget) : budget'[i] = budget[i]
      /\ budget'[Len(budget) + 1] = row
  BY <1>1, <1>2
<1>4. BudgetShapes'
  BY <1>1, <1>3 DEF BudgetInv, BudgetShapes
<1>5. \A i \in 1..Len(budget)' : budget'[i].spent >= 0 /\ budget'[i].start <= clock'
  BY <1>1, <1>2, <1>3 DEF BudgetInv, BudgetHeld
<1>6. \A c \in charged :
        /\ c.row \in 1..Len(budget)' /\ budget'[c.row] = budget[c.row]
  BY <1>3 DEF BudgetInv, BudgetHeld
<1>7. BudgetHeld'
  BY <1>1, <1>5, <1>6 DEF BudgetInv, BudgetHeld, P!Follows
<1>. QED
  BY <1>4, <1>7 DEF BudgetInv

\* selectActiveBudget takes a matching row and rolls it over when its window
\* is past: to a window that no charge has.
LEMMA RolledRow ==
  ASSUME BudgetInv, NEW i \in 1..Len(budget)
  PROVE  LET row == P!Rolled(i)
         IN /\ row \in BudgetRows /\ row.spent >= 0 /\ budget[i].start <= row.start
            /\ row.start <= clock
            /\ Budgets[i].secs # None => clock < row.start + Budgets[i].secs
            /\ \A c \in charged : c.row = i /\ c.start = row.start =>
                 c.before + c.amount <= row.spent
<1>. DEFINE row == P!Rolled(i)
            rolls == Budgets[i].secs # None /\ clock >= budget[i].start + Budgets[i].secs
<1>1. /\ i \in 1..Len(Budgets) /\ Len(Budgets) \in Nat
      /\ budget[i] \in BudgetRows /\ clock \in Nat
      /\ budget[i].spent >= 0 /\ budget[i].start <= clock
  BY PlanConstants DEF BudgetInv, BudgetShapes, BudgetHeld
<1>2. Budgets[i].secs \in (Nat \ {0}) \cup {None}
  <2>. DEFINE terms ==
         [cap : Int, secs : (Nat \ {0}) \cup {None}, categories : SUBSET Categories]
  <2>1. Budgets \in Seq(terms)
    BY PlanConstants
  <2>. HIDE DEF terms
  <2>2. Budgets[i] \in terms
    BY <1>1, <2>1
  <2>. QED
    BY <2>2 DEF terms
<1>3. budget[i].start \in Int /\ budget[i].spent \in Int
  BY <1>1 DEF BudgetRows
<1>4. \A c \in charged : c.row = i =>
        /\ c \in ChargeRows /\ c.start \in Int /\ c.start <= budget[i].start
        /\ c.start = budget[i].start => c.before + c.amount <= budget[i].spent
  BY DEF BudgetInv, BudgetShapes, BudgetHeld, ChargeRows
<1>5. CASE rolls
  <2>1. row = [spent |-> 0, start |-> clock]
    BY <1>5 DEF P!Rolled
  <2>2. row \in BudgetRows /\ row.spent = 0 /\ row.start = clock
    BY <2>1, <1>1 DEF BudgetRows
  <2>3. budget[i].start < clock /\ Budgets[i].secs \in Nat \ {0}
    BY <1>1, <1>2, <1>3, <1>5
  <2>. QED
    BY <2>2, <2>3, <1>1, <1>3, <1>4
<1>6. CASE ~rolls
  <2>1. row = budget[i]
    BY <1>6 DEF P!Rolled
  <2>2. Budgets[i].secs # None => clock < budget[i].start + Budgets[i].secs
    BY <1>1, <1>2, <1>3, <1>6
  <2>. QED
    BY <2>1, <2>2, <1>1, <1>3, <1>4
<1>. QED
  BY <1>5, <1>6

LEMMA AuthorizeInv ==
  ASSUME BudgetInv, NEW category \in Categories, NEW amount \in Charges,
         P!Authorize(category, amount)
  PROVE  BudgetInv'
<1>1. PICK i \in P!Newest(category) :
        LET row == P!Rolled(i)
        IN /\ row.spent + amount <= Budgets[i].cap
           /\ budget' = [budget EXCEPT ![i] = [row EXCEPT !.spent = @ + amount]]
           /\ charged' = charged \cup {[row |-> i, of |-> category, at |-> clock,
                                        before |-> row.spent, amount |-> amount,
                                        start |-> row.start]}
  BY DEF P!Authorize
<1>2. UNCHANGED clock
  BY DEF P!Authorize
<1>3. /\ i \in 1..Len(budget) /\ amount \in Nat /\ Len(budget) \in Nat
      /\ Budgets[i].categories = {} \/ category \in Budgets[i].categories
      /\ budget \in Seq(BudgetRows) /\ clock \in Nat
  BY PlanConstants DEF P!Newest, P!Matching, BudgetInv, BudgetShapes
<1>. DEFINE row == P!Rolled(i)
            next == [row EXCEPT !.spent = @ + amount]
            new == [row |-> i, of |-> category, at |-> clock, before |-> row.spent,
                    amount |-> amount, start |-> row.start]
<1>4. /\ row \in BudgetRows /\ row.spent >= 0 /\ budget[i].start <= row.start
      /\ row.start <= clock
      /\ Budgets[i].secs # None => clock < row.start + Budgets[i].secs
      /\ \A c \in charged : c.row = i /\ c.start = row.start => c.before + c.amount <= row.spent
  BY <1>3, RolledRow
<1>5. row.spent \in Int /\ row.start \in Int /\ row.spent + amount <= Budgets[i].cap
  BY <1>1, <1>4 DEF BudgetRows
<1>6. budget' = [budget EXCEPT ![i] = next] /\ charged' = charged \cup {new}
  BY <1>1
<1>. HIDE DEF row
<1>7. next \in BudgetRows /\ next.spent = row.spent + amount /\ next.start = row.start
  <2>1. row \in BudgetRows /\ row.spent + amount \in Int
    BY <1>3, <1>4, <1>5
  <2>. QED
    BY <2>1 DEF BudgetRows
<1>8. /\ new \in ChargeRows /\ new.row = i /\ new.of = category /\ new.at = clock
      /\ new.before = row.spent /\ new.amount = amount /\ new.start = row.start
  BY <1>3, <1>5 DEF ChargeRows
<1>. HIDE DEF next, new
<1>9. /\ budget' \in Seq(BudgetRows) /\ Len(budget') = Len(budget)
      /\ \A j \in 1..Len(budget) : budget'[j] = IF j = i THEN next ELSE budget[j]
  BY <1>3, <1>6, <1>7
<1>10. BudgetShapes'
  BY <1>2, <1>6, <1>8, <1>9 DEF BudgetInv, BudgetShapes
<1>11. \A j \in 1..Len(budget)' : budget'[j].spent >= 0 /\ budget'[j].start <= clock'
  BY <1>2, <1>3, <1>4, <1>5, <1>7, <1>9 DEF BudgetInv, BudgetHeld
<1>12. \A c \in charged :
         /\ c \in ChargeRows /\ c.row \in 1..Len(budget) /\ c.start <= budget[c.row].start
         /\ c.start = budget[c.row].start => c.before + c.amount <= budget[c.row].spent
  BY DEF BudgetInv, BudgetShapes, BudgetHeld
<1>13. budget[i].start \in Int
  <2>1. budget[i] \in BudgetRows
    BY <1>3
  <2>. QED
    BY <2>1 DEF BudgetRows
<1>14. \A c \in charged' :
         /\ c.row \in 1..Len(budget)' /\ c.start <= budget'[c.row].start
         /\ c.start = budget'[c.row].start => c.before + c.amount <= budget'[c.row].spent
  <2>1. ASSUME NEW c \in charged, c.row = i
        PROVE  /\ c.start <= next.start
               /\ c.start = next.start => c.before + c.amount <= next.spent
    <3>1. c.start \in Int /\ c.before + c.amount \in Int
      BY <1>12 DEF ChargeRows
    <3>2. c.start <= row.start
      BY <1>4, <1>5, <1>12, <1>13, <2>1, <3>1
    <3>. QED
      BY <1>3, <1>4, <1>5, <1>7, <2>1, <3>1, <3>2
  <2>2. ASSUME NEW c \in charged, c.row # i
        PROVE  c.row \in 1..Len(budget) /\ budget'[c.row] = budget[c.row]
    BY <1>9, <1>12, <2>2
  <2>3. new.row \in 1..Len(budget)' /\ budget'[new.row] = next
        /\ new.start = next.start /\ new.before + new.amount = next.spent
    BY <1>3, <1>7, <1>8, <1>9
  <2>4. new.start <= next.start /\ next.spent \in Int
        /\ new.before + new.amount <= next.spent
    BY <1>5, <1>7, <2>3 DEF BudgetRows
  <2>. QED
    BY <1>6, <1>9, <1>12, <2>1, <2>2, <2>3, <2>4
<1>15. ASSUME NEW c \in charged, c.row = new.row, c.start = new.start
       PROVE  P!Follows(new, c)
  BY <1>4, <1>8, <1>15 DEF P!Follows
<1>16. \A c \in charged' :
         /\ Budgets[c.row].categories = {} \/ c.of \in Budgets[c.row].categories
         /\ c.before >= 0 /\ c.before + c.amount <= Budgets[c.row].cap
         /\ Budgets[c.row].secs # None => c.at < c.start + Budgets[c.row].secs
  <2>1. /\ Budgets[new.row].categories = {} \/ new.of \in Budgets[new.row].categories
        /\ new.before >= 0 /\ new.before + new.amount <= Budgets[new.row].cap
        /\ Budgets[new.row].secs # None => new.at < new.start + Budgets[new.row].secs
    BY <1>3, <1>4, <1>5, <1>8
  <2>. QED
    BY <1>6, <2>1 DEF BudgetInv, BudgetHeld
<1>17. \A c, e \in charged' :
         e # c /\ e.row = c.row /\ e.start = c.start => P!Follows(c, e) \/ P!Follows(e, c)
  BY <1>6, <1>15 DEF BudgetInv, BudgetHeld
<1>18. BudgetHeld'
  BY <1>11, <1>14, <1>16, <1>17 DEF BudgetHeld, P!Follows
<1>. QED
  BY <1>10, <1>18 DEF BudgetInv

LEMMA PlanBudgetStep == ASSUME BudgetInv, P!Next \/ UNCHANGED planners PROVE BudgetInv'
<1>1. ASSUME UNCHANGED <<budget, charged>>, clock' = clock \/ clock' = clock + 1
      PROVE  BudgetInv'
  <2>1. BudgetShapes'
    BY <1>1 DEF BudgetInv, BudgetShapes
  <2>2. \A i \in 1..Len(budget) : budget[i].start <= clock'
    <3>1. \A i \in 1..Len(budget) : budget[i] \in BudgetRows /\ clock \in Nat
      BY DEF BudgetInv, BudgetShapes
    <3>. QED
      BY <1>1, <3>1 DEF BudgetInv, BudgetHeld, BudgetRows
  <2>3. BudgetHeld'
    BY <1>1, <2>2 DEF BudgetInv, BudgetHeld, P!Follows
  <2>. QED
    BY <2>1, <2>3 DEF BudgetInv
<1>2. CASE UNCHANGED planners
  BY <1>1, <1>2 DEF planners, budgets
<1>3. CASE P!CreateBudget
  BY <1>3, CreateBudgetInv
<1>4. ASSUME NEW category \in Categories, NEW amount \in Charges, P!Authorize(category, amount)
      PROVE  BudgetInv'
  BY <1>4, AuthorizeInv
<1>5. ASSUME P!Next, ~P!CreateBudget,
             \A category \in Categories, amount \in Charges : ~P!Authorize(category, amount)
      PROVE  BudgetInv'
  BY <1>1, <1>5 DEF P!Next, P!Lock, P!Release, P!TimeoutRefund, P!DisputeOpen,
     P!DisputeRespond, P!DisputeResolve, P!Second, P!Thrown, P!planVars
<1>. QED
  BY <1>2, <1>3, <1>4, <1>5

LEMMA PlansInvariant == Spec => [](EscrowInv /\ BudgetInv)
<1>1. Init => EscrowInv /\ BudgetInv
  BY PartsBegin, PlanInitInv, BudgetInitInv
<1>2. EscrowInv /\ BudgetInv /\ [Next]_vars => EscrowInv' /\ BudgetInv'
  BY PartsMove, PlanEscrowStep, PlanBudgetStep
<1>. QED
  BY <1>1, <1>2, PTL DEF Spec

\* However release, timeout and disputes follow each other, an escrow's whole
\* amount stays locked until one of them pays the net, once; only a release by
\* receipt pays the lock's fee to the lab; and one dispute decides.  No window's
\* charges exceed the cap or overlap (toll-3-core.mjs).
THEOREM PlansAddUp == Spec => []PlansBalance
<1>1. ASSUME EscrowInv, BudgetInv PROVE P!PlansBalance
  <2>1. /\ held["escrow"] =
             IF escrow = None \/ P!Delivered THEN 0
             ELSE IF P!Locked THEN escrow.amount ELSE escrow.fee
        /\ held["lab"] =
             DisputeFee * Cardinality(P!Lost) + (IF P!Delivered THEN escrow.fee ELSE 0)
        /\ held["payer"] + held["agent"] + held["escrow"] + held["lab"] = 0
    BY <1>1 DEF EscrowInv, EscrowBooks
  <2>2. \A d, e \in Disputes :
          dispute[d] # None /\ dispute[e] # None =>
            (dispute[d].status = "resolved" /\ dispute[e].status = "resolved" => d = e)
    BY <1>1 DEF EscrowInv, OneDecides
  <2>3. \A c \in charged :
          /\ Budgets[c.row].categories = {} \/ c.of \in Budgets[c.row].categories
          /\ c.before >= 0 /\ c.before + c.amount <= Budgets[c.row].cap
          /\ \A e \in charged :
               e # c /\ e.row = c.row /\ e.start = c.start => P!Follows(c, e) \/ P!Follows(e, c)
          /\ Budgets[c.row].secs # None => c.at < c.start + Budgets[c.row].secs
    BY <1>1 DEF BudgetInv, BudgetHeld
  <2>4. P!Cardinality(P!Lost) = Cardinality(P!Lost)
    BY DEF P!Cardinality, Cardinality
  <2>. QED
    BY <2>1, <2>2, <2>3, <2>4 DEF P!PlansBalance
<1>. QED
  BY <1>1, PlansInvariant, PTL DEF PlansBalance

-----------------------------------------------------------------------------
(* Riders at the gate *)

\* What a door asks of its rider (the routes' gates and requireRider): a
\* scope that no sandbox rider has, if its work is more than reading or
\* retiring the rider's own marks; and a tool that spends names a scope that
\* is blocked for the sandbox's riders (sandbox.ts).
DryDoor(row) ==
  /\ row.bucket \in R!Buckets \cup {None}
  /\ \/ row.work \in {"read", "mark"}
     \/ row.scope # None /\ Len(row.scope) = 2 /\ row.scope[2] # "read"
  /\ row.door = "mcp" /\ row.work = "spend" => R!BlockedForSandbox(row.scope)

LEMMA RestIsDry ==
  ASSUME NEW level, NEW scope, NEW bucket \in R!Buckets \cup {None}, NEW work,
         \/ work \in {"read", "mark"}
         \/ scope # None /\ Len(scope) = 2 /\ scope[2] # "read"
  PROVE  DryDoor(R!Rest(level, scope, bucket, work))
BY DEF DryDoor, R!Rest

LEMMA ToolIsDry ==
  ASSUME NEW scope, NEW bucket \in R!Buckets \cup {None}, NEW work,
         \/ work \in {"read", "mark"}
         \/ scope # None /\ Len(scope) = 2 /\ scope[2] # "read",
         work = "spend" => R!BlockedForSandbox(scope)
  PROVE  DryDoor(R!RequireRider(scope, bucket, work))
BY DEF DryDoor, R!RequireRider

ScopeAreas ==
  {"channels", "claims", "credits", "cddg", "dm", "follows", "notifications", "posts",
   "predictions", "purchase", "queries", "read", "tasks", "thoughts", "tools"}
ScopeActs ==
  {"answer", "approve", "awareness", "bind", "catalog", "claim", "comment", "complete",
   "inject", "install", "like", "post", "publish", "purchase", "read", "resolve", "send",
   "spend", "stake", "step", "transfer", "write", "*"}

LEMMA ScopeIsPair ==
  ASSUME NEW area \in ScopeAreas, NEW act \in ScopeActs \ {"read"}
  PROVE  <<area, act>> # None /\ Len(<<area, act>>) = 2 /\ <<area, act>>[2] # "read"
BY RiderConstants DEF ScopeAreas, ScopeActs

\* A route that asks a rider for more than reading asks for a scope.
LEMMA RestActIsDry ==
  ASSUME NEW level, NEW area \in ScopeAreas, NEW act \in ScopeActs \ {"read"},
         NEW bucket \in R!Buckets \cup {None}, NEW work
  PROVE  DryDoor(R!Rest(level, <<area, act>>, bucket, work))
BY RestIsDry, ScopeIsPair

LEMMA RestReadIsDry ==
  ASSUME NEW level, NEW scope, NEW bucket \in R!Buckets \cup {None}, NEW work \in {"read", "mark"}
  PROVE  DryDoor(R!Rest(level, scope, bucket, work))
BY RestIsDry

LEMMA RestDoorsAreDry == \A row \in R!RestDoors : DryDoor(row)
<1>1. "writes" \in R!Buckets /\ "dm" \in R!Buckets /\ "buy" \in R!Buckets
  BY DEF R!Buckets
<1>2. \A row \in {R!RestTaskPost, R!RestTaskCancel, R!RestTaskClaim, R!RestTaskSubmit,
                  R!RestTaskApprove, R!RestTaskReject, R!RestSpend, R!RestTransfer,
                  R!RestPurchase} :
        DryDoor(row)
  BY <1>1, RestActIsDry DEF R!RestTaskPost, R!RestTaskCancel, R!RestTaskClaim,
     R!RestTaskSubmit, R!RestTaskApprove, R!RestTaskReject, R!RestSpend, R!RestTransfer,
     R!RestPurchase, ScopeAreas, ScopeActs
<1>3. \A row \in {R!RestClaim, R!RestStake, R!RestResolveClaim, R!RestThought, R!RestQuery,
                  R!RestAnswer, R!RestPrediction, R!RestResolvePrediction} :
        DryDoor(row)
  BY <1>1, RestActIsDry DEF R!RestClaim, R!RestStake, R!RestResolveClaim, R!RestThought,
     R!RestQuery, R!RestAnswer, R!RestPrediction, R!RestResolvePrediction, ScopeAreas, ScopeActs
<1>4. \A row \in {R!RestPost, R!RestLike, R!RestComment, R!RestFollow, R!RestChannelPost,
                  R!RestDm, R!RestPublish, R!RestInstall} :
        DryDoor(row)
  BY <1>1, RestActIsDry DEF R!RestPost, R!RestLike, R!RestComment, R!RestFollow,
     R!RestChannelPost, R!RestDm, R!RestPublish, R!RestInstall, ScopeAreas, ScopeActs
<1>5. \A row \in {R!RestHistory, R!RestBalance, R!RestNotifications, R!RestNotificationRead,
                  R!RestThread, R!DemoCatalog, R!DemoCheckout, R!DemoAccount} :
        DryDoor(row)
  BY RestReadIsDry DEF R!RestHistory, R!RestBalance, R!RestNotifications,
     R!RestNotificationRead, R!RestThread, R!DemoCatalog, R!DemoCheckout, R!DemoAccount
<1>. QED
  BY <1>2, <1>3, <1>4, <1>5 DEF R!RestDoors

\* A tool that spends asks for a scope that sandbox.ts blocks.
LEMMA ToolActIsDry ==
  ASSUME NEW area \in ScopeAreas, NEW act \in ScopeActs \ {"read"},
         NEW bucket \in R!Buckets \cup {None}, NEW work,
         work = "spend" => R!BlockedForSandbox(<<area, act>>)
  PROVE  DryDoor(R!RequireRider(<<area, act>>, bucket, work))
BY ToolIsDry, ScopeIsPair

LEMMA SpendingToolsAreBlocked ==
  /\ R!BlockedForSandbox(<<"tasks", "post">>) /\ R!BlockedForSandbox(<<"tasks", "claim">>)
  /\ R!BlockedForSandbox(<<"credits", "spend">>)
  /\ R!BlockedForSandbox(<<"credits", "transfer">>)
BY DEF R!BlockedForSandbox, R!SpendOrMutate

\* A tool that only reads.
LEMMA ToolReadIsDry ==
  ASSUME NEW scope, NEW work \in {"read", "mark"}
  PROVE  DryDoor(R!RequireRider(scope, None, work))
BY ToolIsDry

LEMMA GateDoorIsDry ==
  DryDoor([R!RequireRider(<<"claims", "resolve">>, None, "write")
             EXCEPT !.door = "gate", !.level = 3])
BY ScopeIsPair DEF DryDoor, R!RequireRider, ScopeAreas, ScopeActs

LEMMA McpDoorsAreDry ==
  \A row \in R!McpBalance \cup R!McpTasks \cup R!McpCredits \cup R!McpClaims \cup R!McpComms
             \cup R!McpSocial \cup R!McpMessages \cup R!McpMarket :
    DryDoor(row)
<1>1. "writes" \in R!Buckets /\ "dm" \in R!Buckets
  BY DEF R!Buckets
<1>2. \A row \in R!McpBalance : DryDoor(row)
  BY ToolReadIsDry DEF R!McpBalance
<1>3. \A row \in R!McpTasks : DryDoor(row)
  BY ToolActIsDry, SpendingToolsAreBlocked DEF R!McpTasks, ScopeAreas, ScopeActs
<1>4. \A row \in R!McpCredits : DryDoor(row)
  BY ToolActIsDry, SpendingToolsAreBlocked DEF R!McpCredits, ScopeAreas, ScopeActs
<1>5. \A row \in R!McpClaims : DryDoor(row)
  BY ToolActIsDry, GateDoorIsDry DEF R!McpClaims, ScopeAreas, ScopeActs
<1>6. \A row \in R!McpComms : DryDoor(row)
  BY <1>1, ToolActIsDry DEF R!McpComms, ScopeAreas, ScopeActs
<1>7. \A row \in R!McpSocial : DryDoor(row)
  BY ToolActIsDry, ToolReadIsDry DEF R!McpSocial, ScopeAreas, ScopeActs
<1>8. \A row \in R!McpMessages : DryDoor(row)
  BY <1>1, ToolActIsDry, ToolReadIsDry DEF R!McpMessages, ScopeAreas, ScopeActs
<1>9. \A row \in R!McpMarket : DryDoor(row)
  BY ToolActIsDry DEF R!McpMarket, ScopeAreas, ScopeActs
<1>. QED
  BY <1>2, <1>3, <1>4, <1>5, <1>6, <1>7, <1>8, <1>9

LEMMA GuardedDoorsAreDry == \A row \in R!Doors : row.door # "open" => DryDoor(row)
<1>1. \A row \in R!McpPlanes : row.door # "open" => DryDoor(row)
  BY ToolActIsDry DEF R!McpPlanes, R!Anyone, ScopeAreas, ScopeActs
<1>2. \A row \in R!McpRegister \cup R!McpReputation \cup R!McpBrowse \cup R!McpLab :
        row.door = "open"
  BY DEF R!McpRegister, R!McpReputation, R!McpBrowse, R!McpLab, R!Anyone
<1>. QED
  BY <1>1, <1>2, RestDoorsAreDry, McpDoorsAreDry DEF R!Doors

\* What the gate lets a rider of the sandbox through to (rider.ts, sandbox.ts).
LEMMA AdmittedIsDry ==
  ASSUME NEW r \in Riders, NEW row \in R!Doors, row.door # "open", R!Admits(r, row)
  PROVE  /\ row.bucket \in R!Buckets \cup {None}
         /\ Claims[r].sandbox => row.work \in {"read", "mark"}
         /\ R!IsSandboxRider(r) /\ row.door = "mcp" => row.work # "spend"
<1>1. DryDoor(row)
  BY GuardedDoorsAreDry
<1>2. ASSUME Claims[r].sandbox, row.scope # None, Len(row.scope) = 2, row.scope[2] # "read"
      PROVE  FALSE
  <2>1. PICK granted \in Claims[r].scopes :
          \/ granted = row.scope \/ granted = <<"*">>
          \/ Len(granted) = 2 /\ granted[2] = "*" /\ granted[1] = row.scope[1]
    BY <1>2 DEF R!Admits, R!HasScope
  <2>2. granted \in {<<"sandbox">>}
                     \cup ({"credits", "dm", "tasks", "notifications"} \X {"read"})
    BY <1>2, <2>1, RiderConstants
  <2>3. CASE granted = <<"sandbox">>
    BY <1>2, <2>1, <2>3
  <2>4. ASSUME NEW area \in {"credits", "dm", "tasks", "notifications"},
               granted = <<area, "read">>
        PROVE  FALSE
    BY <1>2, <2>1, <2>4
  <2>. QED
    BY <2>2, <2>3, <2>4
<1>. QED
  BY <1>1, <1>2 DEF DryDoor, R!Admits

-----------------------------------------------------------------------------

GateOpens == {R!Residual(row) : row \in {d \in R!Doors : d.door # "open"}}
GateCalls ==
  [call : Nat, rider : Riders, open : GateOpens, late : BOOLEAN,
   at : {"revoked", "count", "do"}, window : Nat \cup {None}]
OpenTo ==
  [r \in Riders |->
     {R!Residual(row) : row \in {d \in R!Doors : d.door # "open" /\ R!Admits(r, d)}}]
GateShapes ==
  /\ may = OpenTo
  /\ window \in Nat /\ begun \in Nat
  /\ gate \in [Workers -> {None} \cup GateCalls]
  /\ \A w \in Workers : gate[w] # None => gate[w].open \in may[gate[w].rider]

\* What a call does it was let through to.
DoneIsOpen ==
  \A did \in admitted : did.rider # None =>
    did.rider \in Riders /\ did.open \in may[did.rider]

\* revokeRider writes the row before it answers, so that with a table that can
\* be read the check of a call begun later finds it (rider.ts).
Reachable == "revoked_tokens" \notin outage
ListShapes ==
  /\ listed \in Seq(Riders)
  /\ cancelled \in [Riders -> Nat \cup {None}]
RevokedIsListed ==
  Reachable => \A r \in Riders :
    cancelled[r] # None <=> \E i \in 1..Len(listed) : listed[i] = r
LateIsTurnedBack ==
  /\ \A w \in Workers : gate[w] # None /\ gate[w].late = TRUE => cancelled[gate[w].rider] # None
  /\ Reachable => \A w \in Workers : gate[w] # None /\ gate[w].at # "revoked" =>
                    gate[w].late = FALSE
  /\ Reachable => \A did \in admitted : did.late = FALSE

\* The places of a window: calls that were counted within the limit, done or
\* not (checkRateLimit).
Ticket(w) ==
  [call |-> gate[w].call, rider |-> gate[w].rider, open |-> gate[w].open,
   late |-> gate[w].late, window |-> gate[w].window]
Tickets ==
  {did \in admitted : did.rider # None}
    \cup {Ticket(w) : w \in {v \in Workers : gate[v] # None /\ gate[v].at = "do"}}
Places(who, bucket, at) ==
  {t \in Tickets : Claims[t.rider].agent = who /\ t.open.bucket = bucket /\ t.window = at}
WindowsKept ==
  /\ counts \in [R!Agents -> [R!Buckets -> Nat]]
  /\ \A w \in Workers : gate[w] # None =>
       /\ gate[w].at = "revoked" => gate[w].window = None
       /\ gate[w].at = "count" => gate[w].open.bucket # None
  /\ \A t \in Tickets : t.window \in Nat \cup {None} /\ (t.window # None => t.window <= window)
  /\ "rate_limits" \notin outage =>
       \A who \in R!Agents, bucket \in R!Buckets, at \in Nat :
         /\ IsFiniteSet(Places(who, bucket, at))
         /\ Cardinality(Places(who, bucket, at)) <= WindowLimits[bucket]
         /\ at = window => Cardinality(Places(who, bucket, at)) <= counts[who][bucket]

\* A copy of the list is the newest entries of the list as it was.
CopyIsOld ==
  Reachable /\ edge # None =>
    /\ edge.at \in Nat /\ edge.at <= window
    /\ \E n \in 0..Len(listed) :
         /\ edge.jtis = {listed[i] : i \in {j \in 1..n : n - j < ListLimit}}
         /\ \A i \in n + 1..Len(listed) : cancelled[listed[i]] >= edge.at
VerdictsAreOld ==
  Reachable =>
    \A seen \in offline :
      /\ seen.rider \in Riders /\ seen.at \in Nat
      /\ seen.valid /\ seen.listed =>
           cancelled[seen.rider] # None /\ cancelled[seen.rider] >= seen.at - Stale

GateInv == GateShapes /\ DoneIsOpen
ListInv == ListShapes /\ RevokedIsListed /\ CopyIsOld /\ VerdictsAreOld

LEMMA TimeIsNoNone == None \notin Nat
BY RiderConstants

LEMMA OpensAreDry ==
  ASSUME GateInv, NEW r \in Riders, NEW open \in may[r]
  PROVE  /\ open.bucket \in R!Buckets \cup {None} /\ open \in GateOpens
         /\ Claims[r].sandbox => open.work \in {"read", "mark"}
         /\ R!IsSandboxRider(r) /\ open.door = "mcp" => open.work # "spend"
<1>1. PICK row \in R!Doors : row.door # "open" /\ R!Admits(r, row) /\ open = R!Residual(row)
  BY DEF GateInv, GateShapes, OpenTo
<1>2. open.bucket = row.bucket /\ open.work = row.work /\ open.door = row.door
  BY <1>1 DEF R!Residual
<1>. QED
  BY <1>1, <1>2, AdmittedIsDry DEF GateOpens

LEMMA RiderInitInv == ASSUME R!Init PROVE GateInv /\ ListInv /\ LateIsTurnedBack /\ WindowsKept
<1>1. GateInv
  BY DEF R!Init, GateInv, GateShapes, OpenTo, DoneIsOpen
<1>2. /\ listed = <<>> /\ Len(listed) = 0 /\ cancelled = [r \in Riders |-> None]
      /\ edge = None /\ offline = {} /\ admitted = {} /\ gate = [w \in Workers |-> None]
  BY DEF R!Init
<1>3. ListInv
  BY <1>2 DEF ListInv, ListShapes, RevokedIsListed, CopyIsOld, VerdictsAreOld
<1>4. LateIsTurnedBack
  BY <1>2 DEF LateIsTurnedBack
<1>5. Tickets = {}
  BY <1>2 DEF Tickets
<1>6. \A who, bucket, at : Places(who, bucket, at) = {}
  BY <1>5 DEF Places
<1>7. counts \in [R!Agents -> [R!Buckets -> Nat]]
      /\ \A who \in R!Agents, bucket \in R!Buckets : counts[who][bucket] = 0
  BY DEF R!Init
<1>8. \A bucket \in R!Buckets : WindowLimits[bucket] \in Nat
  BY RiderConstants DEF R!Buckets
<1>9. WindowsKept
  <2>1. \A w \in Workers : gate[w] = None
    BY <1>2
  <2>2. \A t \in Tickets : FALSE
    BY <1>5
  <2>3. \A who \in R!Agents, bucket \in R!Buckets, at \in Nat :
          /\ IsFiniteSet(Places(who, bucket, at))
          /\ Cardinality(Places(who, bucket, at)) <= WindowLimits[bucket]
          /\ at = window => Cardinality(Places(who, bucket, at)) <= counts[who][bucket]
    BY <1>6, <1>7, <1>8, FS_EmptySet
  <2>. QED
    BY <1>7, <2>1, <2>2, <2>3 DEF WindowsKept
<1>. QED
  BY <1>1, <1>3, <1>4, <1>9

-----------------------------------------------------------------------------

\* A call keeps what its rider's claims opened for it.
LEMMA GateMovesInv ==
  ASSUME GateInv, NEW w \in Workers, gate[w] # None,
         NEW c \in {None} \cup GateCalls, gate' = [gate EXCEPT ![w] = c],
         c # None => c.rider = gate[w].rider /\ c.open = gate[w].open,
         UNCHANGED <<may, window, begun>>
  PROVE  GateShapes'
BY DEF GateInv, GateShapes

LEMMA GateStepInv == ASSUME GateInv, R!Next \/ UNCHANGED riders PROVE GateInv'
<1>1. ASSUME UNCHANGED <<may, begun, gate, admitted>>, window' = window \/ window' = window + 1
      PROVE  GateInv'
  BY <1>1 DEF GateInv, GateShapes, DoneIsOpen
<1>2. CASE UNCHANGED riders
  BY <1>1, <1>2 DEF riders
<1>3. ASSUME NEW w \in Workers, R!Unguarded(w) PROVE GateInv'
  <2>1. PICK row \in R!Doors :
          admitted' = admitted \cup
            {[call |-> begun, rider |-> None, open |-> R!Residual(row), late |-> FALSE,
              window |-> None]}
    BY <1>3 DEF R!Unguarded
  <2>2. UNCHANGED <<may, window, gate>> /\ begun' = begun + 1
    BY <1>3 DEF R!Unguarded
  <2>3. DoneIsOpen'
    BY <2>1, <2>2 DEF GateInv, DoneIsOpen
  <2>. QED
    BY <2>2, <2>3 DEF GateInv, GateShapes
<1>4. ASSUME NEW w \in Workers, NEW r \in Riders, R!Begin(w, r) PROVE GateInv'
  <2>. DEFINE late == cancelled[r] # None
  <2>1. PICK open \in may[r] :
          gate' = [gate EXCEPT ![w] = [call |-> begun, rider |-> r, open |-> open, late |-> late,
                                       at |-> "revoked", window |-> None]]
    BY <1>4 DEF R!Begin
  <2>2. UNCHANGED <<may, window, admitted>> /\ begun' = begun + 1
    BY <1>4 DEF R!Begin
  <2>3. late \in BOOLEAN
    OBVIOUS
  <2>. HIDE DEF late
  <2>. DEFINE c == [call |-> begun, rider |-> r, open |-> open, late |-> late,
                    at |-> "revoked", window |-> None]
  <2>4. c \in GateCalls /\ c.rider = r /\ c.open = open
    BY <2>3, OpensAreDry DEF GateCalls, GateInv, GateShapes
  <2>5. gate' = [gate EXCEPT ![w] = c]
    BY <2>1
  <2>. HIDE DEF c
  <2>6. GateShapes'
    BY <2>2, <2>4, <2>5 DEF GateInv, GateShapes
  <2>. QED
    BY <2>2, <2>6 DEF GateInv, DoneIsOpen
<1>5. ASSUME NEW w \in Workers, gate[w] # None, gate' = [gate EXCEPT ![w] = None],
             UNCHANGED <<may, window, begun>>
      PROVE  GateShapes'
  BY <1>5, GateMovesInv
<1>6. ASSUME NEW w \in Workers, R!CheckRevoked(w) PROVE GateInv'
  <2>. DEFINE at == IF gate[w].open.bucket = None THEN "do" ELSE "count"
              c == [gate[w] EXCEPT !.at = at]
  <2>1. gate[w] # None /\ UNCHANGED <<may, window, begun, admitted>>
    BY <1>6 DEF R!CheckRevoked
  <2>2. gate[w] \in GateCalls
    BY <2>1 DEF GateInv, GateShapes
  <2>3. c \in GateCalls /\ c.rider = gate[w].rider /\ c.open = gate[w].open
    BY <2>2 DEF GateCalls
  <2>4. gate' = [gate EXCEPT ![w] = None] \/ gate' = [gate EXCEPT ![w] = c]
    BY <1>6 DEF R!CheckRevoked, R!Ended
  <2>. HIDE DEF c
  <2>5. GateShapes'
    BY <2>1, <2>3, <2>4, GateMovesInv
  <2>. QED
    BY <2>1, <2>5 DEF GateInv, DoneIsOpen
<1>7. ASSUME NEW w \in Workers, R!CheckRateLimit(w) PROVE GateInv'
  <2>. DEFINE c == [gate[w] EXCEPT !.at = "do", !.window = window]
  <2>1. gate[w] # None /\ UNCHANGED <<may, window, begun, admitted>>
    BY <1>7 DEF R!CheckRateLimit
  <2>2. gate[w] \in GateCalls /\ window \in Nat
    BY <2>1 DEF GateInv, GateShapes
  <2>3. c \in GateCalls /\ c.rider = gate[w].rider /\ c.open = gate[w].open
    BY <2>2 DEF GateCalls
  <2>4. gate' = [gate EXCEPT ![w] = None] \/ gate' = [gate EXCEPT ![w] = c]
    BY <1>7 DEF R!CheckRateLimit, R!Counted, R!Ended
  <2>. HIDE DEF c
  <2>5. GateShapes'
    BY <2>1, <2>3, <2>4, GateMovesInv
  <2>. QED
    BY <2>1, <2>5 DEF GateInv, DoneIsOpen
<1>8. ASSUME NEW w \in Workers, R!Refuse(w) PROVE GateInv'
  <2>1. /\ gate[w] # None /\ gate' = [gate EXCEPT ![w] = None]
        /\ UNCHANGED <<may, window, begun, admitted>>
    BY <1>8 DEF R!Refuse, R!Ended
  <2>. QED
    BY <2>1, <1>5 DEF GateInv, DoneIsOpen
<1>9. ASSUME NEW w \in Workers, R!Do(w) PROVE GateInv'
  <2>1. /\ gate[w] # None /\ gate' = [gate EXCEPT ![w] = None]
        /\ UNCHANGED <<may, window, begun>> /\ admitted' = admitted \cup {Ticket(w)}
    BY <1>9 DEF R!Do, R!Ended, Ticket
  <2>2. gate[w] \in GateCalls /\ gate[w].open \in may[gate[w].rider]
    BY <2>1 DEF GateInv, GateShapes
  <2>3. Ticket(w).rider \in Riders /\ Ticket(w).open \in may[Ticket(w).rider]
    BY <2>2 DEF Ticket, GateCalls
  <2>4. DoneIsOpen'
    BY <2>1, <2>3 DEF GateInv, DoneIsOpen
  <2>. QED
    BY <2>1, <2>4, <1>5 DEF GateInv
<1>10. CASE \/ \E r \in Riders : R!Revoke(r) \/ R!VerifyRiderCredential(r)
            \/ R!PublishList \/ R!Tick
  BY <1>1, <1>10 DEF R!Revoke, R!VerifyRiderCredential, R!PublishList, R!Tick
<1>. QED
  BY <1>2, <1>3, <1>4, <1>6, <1>7, <1>8, <1>9, <1>10 DEF R!Next

-----------------------------------------------------------------------------

LEMMA ListStaysInv ==
  ASSUME ListInv, UNCHANGED <<outage, listed, cancelled, edge, offline>>,
         window' = window \/ window' = window + 1, window \in Nat
  PROVE  ListInv'
<1>1. Reachable' = Reachable
  BY DEF Reachable
<1>2. ListShapes' /\ RevokedIsListed' /\ VerdictsAreOld'
  BY <1>1 DEF ListInv, ListShapes, RevokedIsListed, VerdictsAreOld
<1>3. CopyIsOld'
  BY <1>1 DEF ListInv, CopyIsOld
<1>. QED
  BY <1>2, <1>3 DEF ListInv

\* A revocation adds at most its rider, and now.
LEMMA RevokeInv ==
  ASSUME ListInv, window \in Nat, NEW r \in Riders, R!Revoke(r)
  PROVE  ListInv'
<1>. DEFINE since == IF cancelled[r] = None THEN window ELSE cancelled[r]
<1>1. /\ UNCHANGED <<outage, window, edge, offline>>
      /\ listed' = IF "revoked_tokens" \in outage \/ r \in R!ToSet(listed) THEN listed
                   ELSE Append(listed, r)
      /\ cancelled' = [cancelled EXCEPT ![r] = since]
  BY DEF R!Revoke
<1>2. listed \in Seq(Riders) /\ Len(listed) \in Nat /\ cancelled \in [Riders -> Nat \cup {None}]
  BY DEF ListInv, ListShapes
<1>3. R!ToSet(listed) = {listed[i] : i \in 1..Len(listed)}
  BY <1>2 DEF R!ToSet
<1>4. since \in Nat /\ since # None /\ (cancelled[r] # None => since = cancelled[r])
      /\ (cancelled[r] = None => since = window)
  BY <1>2, TimeIsNoNone
<1>. HIDE DEF since
<1>5. /\ cancelled' \in [Riders -> Nat \cup {None}]
      /\ \A q \in Riders : cancelled'[q] = IF q = r THEN since ELSE cancelled[q]
  BY <1>1, <1>2, <1>4
<1>6. Reachable' = Reachable
  BY <1>1 DEF Reachable
<1>7. CASE "revoked_tokens" \in outage
  <2>1. ListShapes'
    BY <1>1, <1>2, <1>5, <1>7 DEF ListShapes
  <2>. QED
    BY <2>1, <1>6, <1>7 DEF ListInv, RevokedIsListed, CopyIsOld, VerdictsAreOld, Reachable
<1>8. CASE "revoked_tokens" \notin outage /\ r \in R!ToSet(listed)
  <2>1. listed' = listed /\ cancelled[r] # None
    BY <1>1, <1>3, <1>8 DEF ListInv, RevokedIsListed, Reachable
  <2>2. \A q \in Riders : cancelled'[q] = cancelled[q]
    BY <1>4, <1>5, <2>1
  <2>3. ListShapes'
    BY <1>2, <1>5, <2>1 DEF ListShapes
  <2>4. RevokedIsListed'
    BY <1>6, <2>1, <2>2 DEF ListInv, RevokedIsListed
  <2>5. \A i \in 1..Len(listed) : listed[i] \in Riders
    BY <1>2
  <2>6. CopyIsOld'
    BY <1>1, <1>2, <1>6, <2>1, <2>2, <2>5 DEF ListInv, CopyIsOld
  <2>7. VerdictsAreOld'
    BY <1>1, <1>6, <2>2 DEF ListInv, VerdictsAreOld
  <2>. QED
    BY <2>3, <2>4, <2>6, <2>7 DEF ListInv
<1>9. CASE "revoked_tokens" \notin outage /\ r \notin R!ToSet(listed)
  <2>. DEFINE n == Len(listed)
  <2>1. /\ listed' = Append(listed, r) /\ listed' \in Seq(Riders) /\ Len(listed') = n + 1
        /\ listed'[n + 1] = r /\ \A i \in 1..n : listed'[i] = listed[i]
    BY <1>1, <1>2, <1>9
  <2>2. cancelled[r] = None /\ since = window
    BY <1>3, <1>4, <1>9 DEF ListInv, RevokedIsListed, Reachable
  <2>3. \A i \in 1..n : listed[i] \in Riders /\ listed[i] # r
     /\ cancelled'[listed[i]] = cancelled[listed[i]]
    BY <1>2, <1>3, <1>5, <1>9
  <2>4. ListShapes'
    BY <1>5, <2>1 DEF ListShapes
  <2>5. RevokedIsListed'
    <3>1. \A q \in Riders : q # r =>
            ((\E i \in 1..n + 1 : listed'[i] = q) <=> \E i \in 1..n : listed[i] = q)
      BY <2>1, <1>2
    <3>2. \E i \in 1..n + 1 : listed'[i] = r
      BY <2>1, <1>2
    <3>. QED
      BY <3>1, <3>2, <1>4, <1>5, <1>6, <2>1 DEF ListInv, RevokedIsListed
  <2>6. ASSUME Reachable, edge # None
        PROVE  /\ edge.at \in Nat /\ edge.at <= window
               /\ \E m \in 0..n + 1 :
                    /\ edge.jtis = {listed'[i] : i \in {j \in 1..m : m - j < ListLimit}}
                    /\ \A i \in m + 1..n + 1 : cancelled'[listed'[i]] >= edge.at
    <3>1. edge.at \in Nat /\ edge.at <= window
      BY <2>6 DEF ListInv, CopyIsOld
    <3>2. PICK m \in 0..n :
            /\ edge.jtis = {listed[i] : i \in {j \in 1..m : m - j < ListLimit}}
            /\ \A i \in m + 1..n : cancelled[listed[i]] >= edge.at
      BY <2>6 DEF ListInv, CopyIsOld
    <3>3. m \in 0..n + 1 /\ 1..m \subseteq 1..n
      BY <1>2
    <3>4. edge.jtis = {listed'[i] : i \in {j \in 1..m : m - j < ListLimit}}
      BY <3>2, <3>3, <2>1
    <3>5. \A i \in m + 1..n + 1 : (i \in 1..n /\ i \in m + 1..n) \/ i = n + 1
      BY <1>2
    <3>6. \A i \in m + 1..n + 1 : cancelled'[listed'[i]] >= edge.at
      BY <3>1, <3>2, <3>5, <2>1, <2>2, <2>3, <1>5
    <3>. QED
      BY <3>1, <3>3, <3>4, <3>6
  <2>7. CopyIsOld'
    BY <1>1, <1>6, <2>1, <2>6 DEF CopyIsOld
  <2>8. VerdictsAreOld'
    BY <1>1, <1>5, <1>6, <2>2 DEF ListInv, VerdictsAreOld
  <2>. QED
    BY <2>4, <2>5, <2>7, <2>8 DEF ListInv
<1>. QED
  BY <1>7, <1>8, <1>9

\* The list is published as it is (rider-revocation.json).
LEMMA PublishInv == ASSUME ListInv, window \in Nat, R!PublishList PROVE ListInv'
<1>. DEFINE copy == [at |-> window, jtis |-> R!ListRevoked]
<1>1. edge' = copy /\ UNCHANGED <<outage, window, listed, cancelled, offline>>
  BY DEF R!PublishList
<1>2. copy.at = window /\ copy.jtis = R!ListRevoked
  OBVIOUS
<1>. HIDE DEF copy
<1>3. Len(listed) \in Nat
  BY DEF ListInv, ListShapes
<1>4. Len(listed) \in 0..Len(listed) /\ \A i \in Len(listed) + 1..Len(listed) : FALSE
  BY <1>3
<1>5. copy.jtis = {listed[i] : i \in {j \in 1..Len(listed) : Len(listed) - j < ListLimit}}
  BY <1>2 DEF R!ListRevoked
<1>6. CopyIsOld'
  BY <1>1, <1>2, <1>4, <1>5 DEF CopyIsOld
<1>7. ListShapes' /\ RevokedIsListed' /\ VerdictsAreOld'
  BY <1>1 DEF ListInv, ListShapes, RevokedIsListed, VerdictsAreOld, Reachable
<1>. QED
  BY <1>6, <1>7 DEF ListInv

\* What is listed now and was not listed then was revoked since: a newer
\* entry only ever pushes others off (verify.mjs, with its copy of the list).
LEMMA VerifyOfflineInv ==
  ASSUME ListInv, window \in Nat, NEW r \in Riders, R!VerifyRiderCredential(r)
  PROVE  ListInv'
<1>. DEFINE valid == r \notin edge.jtis
            now_ == r \in R!ListRevoked
            verdict == [rider |-> r, at |-> window, valid |-> valid, listed |-> now_]
<1>1. /\ edge # None /\ window - edge.at <= Stale /\ offline' = offline \cup {verdict}
      /\ UNCHANGED <<outage, window, listed, cancelled, edge>>
  BY DEF R!VerifyRiderCredential
<1>2. verdict.rider = r /\ verdict.at = window /\ verdict.valid = valid /\ verdict.listed = now_
  OBVIOUS
<1>3. ASSUME Reachable, valid, now_
      PROVE  cancelled[r] # None /\ cancelled[r] >= window - Stale
  <2>. DEFINE n == Len(listed)
  <2>1. n \in Nat /\ ListLimit \in Nat /\ edge.at \in Nat /\ Stale \in Nat
    BY <1>1, <1>3, RiderConstants DEF ListInv, ListShapes, CopyIsOld
  <2>2. PICK i \in 1..n : n - i < ListLimit /\ listed[i] = r
    BY <1>3 DEF R!ListRevoked
  <2>3. PICK m \in 0..n :
          /\ edge.jtis = {listed[j] : j \in {k \in 1..m : m - k < ListLimit}}
          /\ \A j \in m + 1..n : cancelled[listed[j]] >= edge.at
    BY <1>1, <1>3 DEF ListInv, CopyIsOld
  <2>4. ~(i \in 1..m /\ m - i < ListLimit)
    BY <1>3, <2>2, <2>3
  <2>5. i \in m + 1..n
    BY <2>1, <2>2, <2>3, <2>4
  <2>6. cancelled[r] # None /\ cancelled[r] \in Nat
    BY <1>3, <2>2 DEF ListInv, RevokedIsListed, ListShapes
  <2>7. cancelled[r] >= edge.at
    BY <2>2, <2>3, <2>5
  <2>. QED
    BY <1>1, <2>1, <2>6, <2>7
<1>. HIDE DEF verdict, valid, now_
<1>4. Reachable' = Reachable
  BY <1>1 DEF Reachable
<1>5. VerdictsAreOld'
  BY <1>1, <1>2, <1>3, <1>4 DEF ListInv, VerdictsAreOld
<1>6. ListShapes' /\ RevokedIsListed' /\ CopyIsOld'
  BY <1>1, <1>4 DEF ListInv, ListShapes, RevokedIsListed, CopyIsOld
<1>. QED
  BY <1>5, <1>6 DEF ListInv

LEMMA ListStepInv ==
  ASSUME ListInv, GateInv, R!Next \/ UNCHANGED riders
  PROVE  ListInv'
<1>1. window \in Nat
  BY DEF GateInv, GateShapes
<1>2. ASSUME NEW r \in Riders, R!Revoke(r) PROVE ListInv'
  BY <1>1, <1>2, RevokeInv
<1>3. ASSUME NEW r \in Riders, R!VerifyRiderCredential(r) PROVE ListInv'
  BY <1>1, <1>3, VerifyOfflineInv
<1>4. CASE R!PublishList
  BY <1>1, <1>4, PublishInv
<1>5. CASE UNCHANGED riders
  BY <1>1, <1>5, ListStaysInv DEF riders
<1>6. ASSUME R!Next, ~R!PublishList,
             \A r \in Riders : ~R!Revoke(r) /\ ~R!VerifyRiderCredential(r)
      PROVE  ListInv'
  BY <1>1, <1>6, ListStaysInv DEF R!Next, R!Unguarded, R!CheckRevoked, R!CheckRateLimit,
     R!Refuse, R!Do, R!Begin, R!Tick
<1>. QED
  BY <1>2, <1>3, <1>4, <1>5, <1>6

-----------------------------------------------------------------------------

\* A call begun after the cancellation is late, and the check that comes
\* before its work finds its rider on the list (checkGateForToken).
LEMMA LateMovesInv ==
  ASSUME LateIsTurnedBack, ListInv, GateInv, NEW w \in Workers,
         NEW c \in {None} \cup GateCalls, gate' = [gate EXCEPT ![w] = c],
         c # None => (c.late = TRUE => cancelled[c.rider] # None),
         Reachable => (c # None /\ c.at # "revoked" => c.late = FALSE),
         UNCHANGED <<outage, cancelled>>,
         Reachable => \A did \in admitted' : did.late = FALSE
  PROVE  LateIsTurnedBack'
BY DEF LateIsTurnedBack, Reachable, GateInv, GateShapes

LEMMA LateStepInv ==
  ASSUME LateIsTurnedBack, ListInv, GateInv, R!Next \/ UNCHANGED riders
  PROVE  LateIsTurnedBack'
<1>1. ASSUME UNCHANGED <<outage, gate, admitted>>,
             \A r \in Riders : cancelled[r] # None => cancelled'[r] # None
      PROVE  LateIsTurnedBack'
  <2>1. \A w \in Workers : gate[w] # None => gate[w].rider \in Riders
    BY DEF GateInv, GateShapes, GateCalls
  <2>. QED
    BY <1>1, <2>1 DEF LateIsTurnedBack, Reachable
<1>2. CASE UNCHANGED riders
  BY <1>1, <1>2 DEF riders
<1>3. ASSUME NEW w \in Workers, R!Unguarded(w) PROVE LateIsTurnedBack'
  <2>1. PICK row \in R!Doors :
          admitted' = admitted \cup
            {[call |-> begun, rider |-> None, open |-> R!Residual(row), late |-> FALSE,
              window |-> None]}
    BY <1>3 DEF R!Unguarded
  <2>2. UNCHANGED <<outage, gate, cancelled>>
    BY <1>3 DEF R!Unguarded
  <2>. QED
    BY <2>1, <2>2 DEF LateIsTurnedBack, Reachable
<1>4. ASSUME NEW w \in Workers, NEW r \in Riders, R!Begin(w, r) PROVE LateIsTurnedBack'
  <2>. DEFINE late == cancelled[r] # None
  <2>1. PICK open \in may[r] :
          gate' = [gate EXCEPT ![w] = [call |-> begun, rider |-> r, open |-> open, late |-> late,
                                       at |-> "revoked", window |-> None]]
    BY <1>4 DEF R!Begin
  <2>2. UNCHANGED <<outage, cancelled, admitted>>
    BY <1>4 DEF R!Begin
  <2>3. late \in BOOLEAN /\ (late = TRUE => cancelled[r] # None)
    OBVIOUS
  <2>. HIDE DEF late
  <2>. DEFINE c == [call |-> begun, rider |-> r, open |-> open, late |-> late,
                    at |-> "revoked", window |-> None]
  <2>4. c \in GateCalls /\ c.rider = r /\ c.late = late /\ c.at = "revoked"
    BY <2>3, OpensAreDry DEF GateCalls, GateInv, GateShapes
  <2>5. gate' = [gate EXCEPT ![w] = c]
    BY <2>1
  <2>. HIDE DEF c
  <2>. QED
    BY <2>2, <2>3, <2>4, <2>5, LateMovesInv DEF LateIsTurnedBack
<1>5. ASSUME NEW w \in Workers, R!CheckRevoked(w) PROVE LateIsTurnedBack'
  <2>. DEFINE at == IF gate[w].open.bucket = None THEN "do" ELSE "count"
              c == [gate[w] EXCEPT !.at = at]
  <2>1. gate[w] # None /\ UNCHANGED <<outage, cancelled, admitted>>
    BY <1>5 DEF R!CheckRevoked
  <2>2. gate[w] \in GateCalls
    BY <2>1 DEF GateInv, GateShapes
  <2>3. c \in GateCalls /\ c.rider = gate[w].rider /\ c.late = gate[w].late
    BY <2>2 DEF GateCalls
  <2>. HIDE DEF c
  <2>4. CASE gate' = [gate EXCEPT ![w] = None]
    BY <2>1, <2>4, LateMovesInv DEF LateIsTurnedBack
  <2>5. CASE ~R!IsRevoked(gate[w].rider) /\ gate' = [gate EXCEPT ![w] = c]
    <3>1. ASSUME Reachable PROVE c.late = FALSE
      <4>1. gate[w].rider \in Riders /\ gate[w].late \in BOOLEAN
        BY <2>2 DEF GateCalls
      <4>2. ~\E i \in 1..Len(listed) : listed[i] = gate[w].rider
        BY <2>5, <3>1 DEF R!IsRevoked, R!ToSet, Reachable, ListInv, ListShapes
      <4>3. cancelled[gate[w].rider] = None
        BY <3>1, <4>1, <4>2 DEF ListInv, RevokedIsListed
      <4>. QED
        BY <2>1, <2>3, <4>1, <4>3 DEF LateIsTurnedBack
    <3>. QED
      BY <2>1, <2>3, <2>5, <3>1, LateMovesInv DEF LateIsTurnedBack
  <2>. QED
    BY <2>4, <2>5, <1>5 DEF R!CheckRevoked, R!Ended, c
<1>6. ASSUME NEW w \in Workers, R!CheckRateLimit(w) PROVE LateIsTurnedBack'
  <2>. DEFINE c == [gate[w] EXCEPT !.at = "do", !.window = window]
  <2>1. gate[w] # None /\ gate[w].at = "count" /\ UNCHANGED <<outage, cancelled, admitted>>
    BY <1>6 DEF R!CheckRateLimit
  <2>2. gate[w] \in GateCalls /\ window \in Nat
    BY <2>1 DEF GateInv, GateShapes
  <2>3. c \in GateCalls /\ c.rider = gate[w].rider /\ c.late = gate[w].late
    BY <2>2 DEF GateCalls
  <2>4. gate' = [gate EXCEPT ![w] = None] \/ gate' = [gate EXCEPT ![w] = c]
    BY <1>6 DEF R!CheckRateLimit, R!Counted, R!Ended
  <2>. HIDE DEF c
  <2>5. CASE gate' = [gate EXCEPT ![w] = None]
    BY <2>1, <2>5, LateMovesInv DEF LateIsTurnedBack
  <2>6. CASE gate' = [gate EXCEPT ![w] = c]
    <3>1. Reachable => c.late = FALSE
      BY <2>1, <2>3 DEF LateIsTurnedBack
    <3>. QED
      BY <2>1, <2>3, <2>6, <3>1, LateMovesInv DEF LateIsTurnedBack
  <2>. QED
    BY <2>4, <2>5, <2>6
<1>7. ASSUME NEW w \in Workers, R!Refuse(w) PROVE LateIsTurnedBack'
  <2>1. gate' = [gate EXCEPT ![w] = None] /\ UNCHANGED <<outage, cancelled, admitted>>
    BY <1>7 DEF R!Refuse, R!Ended
  <2>. QED
    BY <2>1, LateMovesInv DEF LateIsTurnedBack
<1>8. ASSUME NEW w \in Workers, R!Do(w) PROVE LateIsTurnedBack'
  <2>1. /\ gate[w] # None /\ gate[w].at = "do" /\ gate' = [gate EXCEPT ![w] = None]
        /\ UNCHANGED <<outage, cancelled>> /\ admitted' = admitted \cup {Ticket(w)}
    BY <1>8 DEF R!Do, R!Ended, Ticket
  <2>2. Ticket(w).late = gate[w].late
    BY DEF Ticket
  <2>3. Reachable => \A did \in admitted' : did.late = FALSE
    BY <2>1, <2>2 DEF LateIsTurnedBack
  <2>. QED
    BY <2>1, <2>3, LateMovesInv
<1>9. CASE \/ \E r \in Riders : R!Revoke(r) \/ R!VerifyRiderCredential(r)
           \/ R!PublishList \/ R!Tick
  <2>1. ASSUME NEW r \in Riders, R!Revoke(r)
        PROVE  \A q \in Riders : cancelled[q] # None => cancelled'[q] # None
    BY <2>1, TimeIsNoNone DEF R!Revoke, ListInv, ListShapes
  <2>. QED
    BY <1>1, <1>9, <2>1 DEF R!Revoke, R!VerifyRiderCredential, R!PublishList, R!Tick
<1>. QED
  BY <1>2, <1>3, <1>4, <1>5, <1>6, <1>7, <1>8, <1>9 DEF R!Next

-----------------------------------------------------------------------------

\* What a step adds to the places of a window, and how the counter follows.
LEMMA PlacesGrow ==
  ASSUME NEW who, NEW bucket, NEW at, NEW t,
         IsFiniteSet(Places(who, bucket, at)), Tickets' \subseteq Tickets \cup {t}
  PROVE  /\ IsFiniteSet(Places(who, bucket, at)')
         /\ Cardinality(Places(who, bucket, at))' <= Cardinality(Places(who, bucket, at)) + 1
         /\ Cardinality(Places(who, bucket, at)) \in Nat
<1>. DEFINE old == Places(who, bucket, at)
            new == Places(who, bucket, at)'
<1>1. new \subseteq old \cup {t}
  BY DEF Places
<1>. HIDE DEF old, new
<1>2. /\ IsFiniteSet(old \cup {t}) /\ Cardinality(old) \in Nat
      /\ Cardinality(old \cup {t}) <= Cardinality(old) + 1
  <2>1. IsFiniteSet(old)
    BY DEF old
  <2>2. Cardinality(old) \in Nat
    BY <2>1, FS_CardinalityType
  <2>. QED
    BY <2>1, <2>2, FS_AddElement
<1>3. IsFiniteSet(new) /\ Cardinality(new) <= Cardinality(old \cup {t})
      /\ Cardinality(new) \in Nat /\ Cardinality(old \cup {t}) \in Nat
  BY <1>1, <1>2, FS_Subset, FS_CardinalityType
<1>. QED
  BY <1>2, <1>3 DEF old, new

LEMMA PlacesShrink ==
  ASSUME NEW who, NEW bucket, NEW at, IsFiniteSet(Places(who, bucket, at)),
         Places(who, bucket, at)' \subseteq Places(who, bucket, at)
  PROVE  /\ IsFiniteSet(Places(who, bucket, at)')
         /\ Cardinality(Places(who, bucket, at))' <= Cardinality(Places(who, bucket, at))
         /\ Cardinality(Places(who, bucket, at)) \in Nat
         /\ Cardinality(Places(who, bucket, at))' \in Nat
<1>. DEFINE old == Places(who, bucket, at)
            new == Places(who, bucket, at)'
<1>1. new \subseteq old /\ IsFiniteSet(old)
  OBVIOUS
<1>. HIDE DEF old, new
<1>2. /\ IsFiniteSet(new) /\ Cardinality(new) <= Cardinality(old)
      /\ Cardinality(new) \in Nat /\ Cardinality(old) \in Nat
  BY <1>1, FS_Subset, FS_CardinalityType
<1>. QED
  BY <1>2 DEF old, new

LEMMA LimitIsNat == \A bucket \in R!Buckets : WindowLimits[bucket] \in Nat
BY RiderConstants DEF R!Buckets

\* A step that gives out no place in any window.
LEMMA NoPlaceInv ==
  ASSUME WindowsKept, window \in Nat, UNCHANGED <<outage, counts, window>>,
         \A t \in Tickets' : t \in Tickets \/ t.window = None,
         GateInv, NEW w \in Workers, NEW c,
         gate' = gate \/ gate' = [gate EXCEPT ![w] = c],
         c # None => /\ c.at = "revoked" => c.window = None
                     /\ c.at = "count" => c.open.bucket # None
  PROVE  WindowsKept'
<1>1. \A t \in Tickets' : t.window \in Nat \cup {None} /\ (t.window # None => t.window <= window')
  BY DEF WindowsKept
<1>2. ASSUME "rate_limits" \notin outage,
             NEW who \in R!Agents, NEW bucket \in R!Buckets, NEW at \in Nat
      PROVE  /\ IsFiniteSet(Places(who, bucket, at)')
             /\ Cardinality(Places(who, bucket, at))' <= WindowLimits[bucket]
             /\ at = window => Cardinality(Places(who, bucket, at))' <= counts[who][bucket]
  <2>1. Places(who, bucket, at)' \subseteq Places(who, bucket, at)
    BY TimeIsNoNone DEF Places
  <2>2. /\ IsFiniteSet(Places(who, bucket, at))
        /\ Cardinality(Places(who, bucket, at)) <= WindowLimits[bucket]
        /\ at = window => Cardinality(Places(who, bucket, at)) <= counts[who][bucket]
    BY <1>2 DEF WindowsKept
  <2>3. counts[who][bucket] \in Nat /\ WindowLimits[bucket] \in Nat
    BY LimitIsNat DEF WindowsKept
  <2>4. /\ IsFiniteSet(Places(who, bucket, at)')
        /\ Cardinality(Places(who, bucket, at))' <= Cardinality(Places(who, bucket, at))
        /\ Cardinality(Places(who, bucket, at)) \in Nat
        /\ Cardinality(Places(who, bucket, at))' \in Nat
    BY <2>1, <2>2, PlacesShrink
  <2>. QED
    BY <2>2, <2>3, <2>4
<1>3. counts' \in [R!Agents -> [R!Buckets -> Nat]]
  BY DEF WindowsKept
<1>4. \A v \in Workers : gate'[v] # None =>
        /\ gate'[v].at = "revoked" => gate'[v].window = None
        /\ gate'[v].at = "count" => gate'[v].open.bucket # None
  BY DEF WindowsKept, GateInv, GateShapes
<1>. QED
  BY <1>1, <1>2, <1>3, <1>4 DEF WindowsKept

\* A call counted within the limit takes a place of the window it was counted
\* in; one beyond it is turned back, and the counter goes on.
LEMMA CountInv ==
  ASSUME WindowsKept, GateInv, NEW w \in Workers, R!CheckRateLimit(w)
  PROVE  WindowsKept'
<1>. DEFINE c == [gate[w] EXCEPT !.at = "do", !.window = window]
            who == Claims[gate[w].rider].agent
            bucket == gate[w].open.bucket
            t == [call |-> c.call, rider |-> c.rider, open |-> c.open, late |-> c.late,
                  window |-> c.window]
<1>1. /\ gate[w] # None /\ gate[w].at = "count" /\ UNCHANGED <<outage, window, admitted>>
      /\ \/ "rate_limits" \in outage /\ gate' = [gate EXCEPT ![w] = c] /\ UNCHANGED counts
         \/ /\ "rate_limits" \notin outage
            /\ counts' = [counts EXCEPT ![who][bucket] = @ + 1]
            /\ IF counts'[who][bucket] <= WindowLimits[bucket]
               THEN gate' = [gate EXCEPT ![w] = c] ELSE gate' = [gate EXCEPT ![w] = None]
  BY DEF R!CheckRateLimit, R!Counted, R!Ended
<1>2. /\ gate[w] \in GateCalls /\ window \in Nat /\ gate \in [Workers -> {None} \cup GateCalls]
      /\ gate[w].open \in may[gate[w].rider]
  BY <1>1 DEF GateInv, GateShapes
<1>3. gate[w].rider \in Riders /\ bucket \in R!Buckets /\ who \in R!Agents
  <2>1. gate[w].rider \in Riders
    BY <1>2 DEF GateCalls
  <2>2. bucket \in R!Buckets \cup {None} /\ bucket # None
    BY <1>1, <1>2, <2>1, OpensAreDry DEF WindowsKept
  <2>. QED
    BY <2>1, <2>2 DEF R!Agents
<1>4. /\ c.at = "do" /\ c.window = window /\ c.rider = gate[w].rider /\ c.open = gate[w].open
      /\ t.window = window
  BY <1>2 DEF GateCalls
<1>. HIDE DEF c
<1>5. Tickets' \subseteq Tickets \cup {t}
  <2>1. CASE gate' = [gate EXCEPT ![w] = c]
    BY <1>1, <1>2, <2>1 DEF Tickets, Ticket
  <2>2. CASE gate' = [gate EXCEPT ![w] = None]
    BY <1>1, <1>2, <2>2 DEF Tickets, Ticket
  <2>. QED
    BY <1>1, <2>1, <2>2
<1>6. gate' = [gate EXCEPT ![w] = None] => Tickets' \subseteq Tickets
  BY <1>1, <1>2 DEF Tickets, Ticket
<1>7. Claims[t.rider].agent = who /\ t.open.bucket = bucket
  BY <1>4
<1>. HIDE DEF t, who, bucket
<1>8. \A s \in Tickets' : s.window \in Nat \cup {None} /\ (s.window # None => s.window <= window')
  BY <1>1, <1>2, <1>4, <1>5 DEF WindowsKept
<1>9. counts' \in [R!Agents -> [R!Buckets -> Nat]]
  BY <1>1, <1>3 DEF WindowsKept
<1>10. \A v \in Workers : gate'[v] # None =>
         /\ gate'[v].at = "revoked" => gate'[v].window = None
         /\ gate'[v].at = "count" => gate'[v].open.bucket # None
  BY <1>1, <1>2, <1>4 DEF WindowsKept
<1>11. ASSUME "rate_limits" \notin outage,
              NEW which \in R!Agents, NEW of \in R!Buckets, NEW at \in Nat
       PROVE  /\ IsFiniteSet(Places(which, of, at)')
              /\ Cardinality(Places(which, of, at))' <= WindowLimits[of]
              /\ at = window => Cardinality(Places(which, of, at))' <= counts'[which][of]
  <2>. DEFINE old == Cardinality(Places(which, of, at))
              new == Cardinality(Places(which, of, at))'
  <2>1. /\ IsFiniteSet(Places(which, of, at)) /\ old <= WindowLimits[of]
        /\ at = window => old <= counts[which][of]
    BY <1>11 DEF WindowsKept
  <2>2. counts[which][of] \in Nat /\ counts'[which][of] \in Nat /\ WindowLimits[of] \in Nat
    BY <1>9, LimitIsNat DEF WindowsKept
  <2>3. counts'[which][of] = counts[which][of] + (IF which = who /\ of = bucket THEN 1 ELSE 0)
    <3>1. counts \in [R!Agents -> [R!Buckets -> Nat]]
      BY DEF WindowsKept
    <3>2. counts' = [counts EXCEPT ![who][bucket] = @ + 1]
      BY <1>1, <1>11
    <3>3. CASE which = who /\ of = bucket
      BY <3>1, <3>2, <3>3, <1>3
    <3>4. CASE ~(which = who /\ of = bucket)
      BY <3>1, <3>2, <3>4, <1>3, <2>2
    <3>. QED
      BY <3>3, <3>4
  <2>4. CASE which = who /\ of = bucket /\ at = window /\ gate' # [gate EXCEPT ![w] = None]
    <3>1. IsFiniteSet(Places(which, of, at)') /\ new <= old + 1 /\ old \in Nat
      BY <1>5, <2>1, PlacesGrow
    <3>2. new \in Nat
      BY <3>1, FS_CardinalityType
    <3>3. counts'[which][of] <= WindowLimits[of]
      BY <1>1, <1>11, <2>4
    <3>. QED
      BY <2>1, <2>2, <2>3, <2>4, <3>1, <3>2, <3>3
  <2>5. CASE ~(which = who /\ of = bucket /\ at = window) \/ gate' = [gate EXCEPT ![w] = None]
    <3>1. Places(which, of, at)' \subseteq Places(which, of, at)
      BY <1>4, <1>5, <1>6, <1>7, <2>5 DEF Places
    <3>2. /\ IsFiniteSet(Places(which, of, at)') /\ new <= old /\ old \in Nat /\ new \in Nat
      BY <2>1, <3>1, PlacesShrink
    <3>. QED
      BY <2>1, <2>2, <2>3, <3>2
  <2>. QED
    BY <2>4, <2>5
<1>. QED
  BY <1>1, <1>8, <1>9, <1>10, <1>11 DEF WindowsKept

\* A new window has no place taken, and its counters start over.
LEMMA TickWindowInv == ASSUME WindowsKept, GateInv, R!Tick PROVE WindowsKept'
<1>1. /\ window \in Nat /\ window' = window + 1 /\ UNCHANGED <<outage, gate, admitted>>
      /\ counts' = [who \in R!Agents |-> [bucket \in R!Buckets |-> 0]]
  BY DEF GateInv, GateShapes, R!Tick
<1>2. Tickets' = Tickets
  BY <1>1 DEF Tickets, Ticket
<1>3. \A who, bucket, at : Places(who, bucket, at)' = Places(who, bucket, at)
  BY <1>2 DEF Places
<1>4. \A who, bucket : Places(who, bucket, window + 1) = {}
  BY <1>1, TimeIsNoNone DEF Places, WindowsKept
<1>5. /\ counts' \in [R!Agents -> [R!Buckets -> Nat]]
      /\ \A who \in R!Agents, bucket \in R!Buckets : counts'[who][bucket] = 0
  BY <1>1
<1>6. \A t \in Tickets' : t.window \in Nat \cup {None} /\ (t.window # None => t.window <= window')
  BY <1>1, <1>2 DEF WindowsKept
<1>7. ASSUME "rate_limits" \notin outage,
             NEW who \in R!Agents, NEW bucket \in R!Buckets, NEW at \in Nat
      PROVE  /\ IsFiniteSet(Places(who, bucket, at)')
             /\ Cardinality(Places(who, bucket, at))' <= WindowLimits[bucket]
             /\ at = window' => Cardinality(Places(who, bucket, at))' <= counts'[who][bucket]
  BY <1>1, <1>3, <1>4, <1>5, <1>7, FS_EmptySet DEF WindowsKept
<1>. QED
  BY <1>1, <1>5, <1>6, <1>7 DEF WindowsKept

LEMMA WindowStepInv ==
  ASSUME WindowsKept, GateInv, R!Next \/ UNCHANGED riders
  PROVE  WindowsKept'
<1>0. window \in Nat /\ gate \in [Workers -> {None} \cup GateCalls]
  BY DEF GateInv, GateShapes
<1>1. ASSUME UNCHANGED <<outage, counts, window, gate, admitted>> PROVE WindowsKept'
  <2>1. Tickets' = Tickets
    BY <1>1 DEF Tickets, Ticket
  <2>2. \A who, bucket, at : Places(who, bucket, at)' = Places(who, bucket, at)
    BY <2>1 DEF Places
  <2>. QED
    BY <1>1, <2>1, <2>2 DEF WindowsKept
<1>2. CASE UNCHANGED riders
  BY <1>1, <1>2 DEF riders
<1>3. ASSUME NEW w \in Workers, R!Unguarded(w) PROVE WindowsKept'
  <2>1. PICK row \in R!Doors :
          admitted' = admitted \cup
            {[call |-> begun, rider |-> None, open |-> R!Residual(row), late |-> FALSE,
              window |-> None]}
    BY <1>3 DEF R!Unguarded
  <2>2. UNCHANGED <<outage, counts, window, gate>>
    BY <1>3 DEF R!Unguarded
  <2>3. \A t \in Tickets' : t \in Tickets
    BY <2>1, <2>2 DEF Tickets, Ticket
  <2>. QED
    BY <1>0, <2>2, <2>3, NoPlaceInv
<1>4. ASSUME NEW w \in Workers, NEW r \in Riders, R!Begin(w, r) PROVE WindowsKept'
  <2>. DEFINE late == cancelled[r] # None
  <2>1. PICK open \in may[r] :
          gate' = [gate EXCEPT ![w] = [call |-> begun, rider |-> r, open |-> open, late |-> late,
                                       at |-> "revoked", window |-> None]]
    BY <1>4 DEF R!Begin
  <2>2. UNCHANGED <<outage, counts, window, admitted>>
    BY <1>4 DEF R!Begin
  <2>. HIDE DEF late
  <2>. DEFINE c == [call |-> begun, rider |-> r, open |-> open, late |-> late,
                    at |-> "revoked", window |-> None]
  <2>3. gate' = [gate EXCEPT ![w] = c] /\ c.at = "revoked" /\ c.window = None
    BY <2>1
  <2>. HIDE DEF c
  <2>4. \A t \in Tickets' : t \in Tickets
    BY <1>0, <2>2, <2>3 DEF Tickets, Ticket
  <2>. QED
    BY <1>0, <2>2, <2>3, <2>4, NoPlaceInv
<1>5. ASSUME NEW w \in Workers, gate[w] # None, gate' = [gate EXCEPT ![w] = None],
             UNCHANGED <<outage, counts, window>>,
             admitted' = admitted \/ (gate[w].at = "do" /\ admitted' = admitted \cup {Ticket(w)})
      PROVE  WindowsKept'
  <2>1. \A t \in Tickets' : t \in Tickets
    <3>1. \A v \in Workers : gate'[v] # None => v # w /\ gate'[v] = gate[v]
      BY <1>0, <1>5
    <3>. QED
      BY <1>5, <3>1 DEF Tickets, Ticket
  <2>. QED
    BY <1>0, <1>5, <2>1, NoPlaceInv
<1>6. ASSUME NEW w \in Workers, R!CheckRevoked(w) PROVE WindowsKept'
  <2>. DEFINE at == IF gate[w].open.bucket = None THEN "do" ELSE "count"
              c == [gate[w] EXCEPT !.at = at]
  <2>1. /\ gate[w] # None /\ gate[w].at = "revoked"
        /\ UNCHANGED <<outage, counts, window, admitted>>
        /\ gate' = [gate EXCEPT ![w] = None] \/ gate' = [gate EXCEPT ![w] = c]
    BY <1>6 DEF R!CheckRevoked, R!Ended
  <2>2. gate[w] \in GateCalls /\ gate[w].window = None
    BY <1>0, <2>1 DEF WindowsKept
  <2>3. c.window = None /\ c.open = gate[w].open /\ c.at = at
    BY <2>2 DEF GateCalls
  <2>. HIDE DEF c
  <2>4. \A t \in Tickets' : t \in Tickets \/ t.window = None
    BY <1>0, <2>1, <2>3 DEF Tickets, Ticket
  <2>5. CASE gate' = [gate EXCEPT ![w] = None]
    BY <1>5, <2>1, <2>5
  <2>6. CASE gate' = [gate EXCEPT ![w] = c]
    BY <1>0, <2>1, <2>3, <2>4, <2>6, NoPlaceInv
  <2>. QED
    BY <2>1, <2>5, <2>6
<1>7. ASSUME NEW w \in Workers, R!CheckRateLimit(w) PROVE WindowsKept'
  BY <1>7, CountInv
<1>8. ASSUME NEW w \in Workers, R!Refuse(w) PROVE WindowsKept'
  BY <1>5, <1>8 DEF R!Refuse, R!Ended
<1>9. ASSUME NEW w \in Workers, R!Do(w) PROVE WindowsKept'
  <2>1. /\ gate[w] # None /\ gate[w].at = "do" /\ gate' = [gate EXCEPT ![w] = None]
        /\ UNCHANGED <<outage, counts, window>> /\ admitted' = admitted \cup {Ticket(w)}
    BY <1>9 DEF R!Do, R!Ended, Ticket
  <2>. QED
    BY <1>5, <2>1
<1>10. CASE R!Tick
  BY <1>10, TickWindowInv
<1>11. CASE (\E r \in Riders : R!Revoke(r) \/ R!VerifyRiderCredential(r)) \/ R!PublishList
  BY <1>1, <1>11 DEF R!Revoke, R!VerifyRiderCredential, R!PublishList
<1>. QED
  BY <1>2, <1>3, <1>4, <1>6, <1>7, <1>8, <1>9, <1>10, <1>11 DEF R!Next

RiderInv == GateInv /\ ListInv /\ LateIsTurnedBack /\ WindowsKept

LEMMA RiderInvariant == Spec => []RiderInv
<1>1. Init => RiderInv
  BY PartsBegin, RiderInitInv DEF RiderInv
<1>2. RiderInv /\ [Next]_vars => RiderInv'
  BY PartsMove, GateStepInv, ListStepInv, LateStepInv, WindowStepInv DEF RiderInv
<1>. QED
  BY <1>1, <1>2, PTL DEF Spec

\* A cancelled rider, a sandbox rider and an agent at its limit get no
\* further, through any door, however their calls, revocations and windows
\* overlap; a verifier with an old list is late by that list's age
\* (rider.ts checkGateForToken, sandbox.ts, rate-limit.ts, verify.mjs).
THEOREM RevokedRidersStop == Spec => []RevokedIsRefused
<1>1. ASSUME RiderInv PROVE R!RevokedIsRefused
  <2>1. R!CancelledIsRefused
    BY <1>1 DEF RiderInv, LateIsTurnedBack, Reachable, R!CancelledIsRefused
  <2>2. R!SandboxStaysDry
    BY <1>1, OpensAreDry DEF RiderInv, GateInv, DoneIsOpen, R!SandboxStaysDry
  <2>3. ASSUME "rate_limits" \notin outage,
               NEW who \in R!Agents, NEW bucket \in R!Buckets, NEW at \in 0..MaxTime
        PROVE  R!Cardinality({did \in admitted : did.rider # None
                                /\ Claims[did.rider].agent = who
                                /\ did.open.bucket = bucket /\ did.window = at})
                 <= WindowLimits[bucket]
    <3>. DEFINE S == {did \in admitted : did.rider # None /\ Claims[did.rider].agent = who
                                /\ did.open.bucket = bucket /\ did.window = at}
    <3>1. at \in Nat
      BY RiderConstants
    <3>2. /\ IsFiniteSet(Places(who, bucket, at))
          /\ Cardinality(Places(who, bucket, at)) <= WindowLimits[bucket]
      BY <1>1, <2>3, <3>1 DEF RiderInv, WindowsKept
    <3>3. S \subseteq Places(who, bucket, at)
      BY DEF Places, Tickets
    <3>. HIDE DEF S
    <3>4. /\ Cardinality(S) <= Cardinality(Places(who, bucket, at)) /\ Cardinality(S) \in Nat
          /\ Cardinality(Places(who, bucket, at)) \in Nat
      BY <3>2, <3>3, FS_Subset, FS_CardinalityType
    <3>5. R!Cardinality(S) = Cardinality(S)
      BY DEF R!Cardinality, Cardinality
    <3>6. Cardinality(S) <= WindowLimits[bucket]
      BY <3>2, <3>4, LimitIsNat
    <3>. QED
      BY <3>5, <3>6 DEF S
  <2>4. R!WindowsHold
    BY <2>3 DEF R!WindowsHold
  <2>5. R!OfflineCatchesUp
    BY <1>1 DEF RiderInv, ListInv, VerdictsAreOld, Reachable, R!OfflineCatchesUp
  <2>. QED
    BY <2>1, <2>2, <2>4, <2>5 DEF R!RevokedIsRefused
<1>. QED
  BY <1>1, RiderInvariant, PTL DEF RevokedIsRefused

-----------------------------------------------------------------------------
(* Agents under many ids *)

\* What holds of zero and of the successor of whatever it holds of holds of
\* every number: otherwise it fails first of some number, by well-foundedness.
LEMMA EveryNat ==
  ASSUME NEW T \in SUBSET Nat, 0 \in T, \A n \in T : n + 1 \in T
  PROVE  T = Nat
<1>1. SUFFICES ASSUME Nat \ T # {} PROVE FALSE
  OBVIOUS
<1>2. PICK n \in Nat \ T : \A m \in Nat \ T : ~(<<m, n>> \in OpToRel(<, Nat))
  <2>1. IsWellFoundedOn(OpToRel(<, Nat), Nat)
    BY NatLessThanWellFounded
  <2>2. Nat \ T \subseteq Nat
    OBVIOUS
  <2>. QED
    BY ONLY <1>1, <2>1, <2>2, WFMin
<1>3. n - 1 \in Nat /\ n - 1 < n
  OBVIOUS
<1>4. n - 1 \in T
  <2>1. <<n - 1, n>> \in OpToRel(<, Nat)
    BY <1>3 DEF OpToRel
  <2>. QED
    BY <1>2, <1>3, <2>1
<1>5. (n - 1) + 1 = n
  OBVIOUS
<1>6. (n - 1) + 1 \in T
  BY <1>4
<1>. QED
  BY <1>5, <1>6


AliasEnds == {"self", "peer"}
AliasTables == [AgentIds -> AgentIds \cup {None}]
AliasWalks == [start : AgentIds, at : AgentIds, seen : SUBSET AgentIds, hops : Nat]
AliasCalls ==
  [do : {"send", "list", "read"}, route : BOOLEAN, given : [AliasEnds -> AgentIds],
   named : [AliasEnds -> AgentIds], fresh : BOOLEAN, walk : [AliasEnds -> AliasWalks],
   rounds : Seq(SUBSET AliasEnds)]
AliasMessages ==
  [given : [AliasEnds -> AgentIds], stored : [AliasEnds -> AgentIds], read : BOOLEAN,
   fresh : BOOLEAN]

\* Where an id leads, hop by hop.
Leads(table, id, c) ==
  /\ c \in [0..MaxAliases -> AgentIds] /\ c[0] = id
  /\ \A n \in 0..MaxAliases - 1 :
       c[n + 1] = IF table[c[n]] = None THEN c[n] ELSE table[c[n]]

\* What holds at the start of a chain and from one hop to the next holds all along.
LEMMA AlongChain ==
  ASSUME NEW T \in SUBSET (0..MaxAliases), 0 \in T,
         \A n \in 0..MaxAliases - 1 : n \in T => n + 1 \in T
  PROVE  T = 0..MaxAliases
<1>. DEFINE S == {n \in Nat : n <= MaxAliases => n \in T}
<1>0. MaxAliases \in Nat
  BY AliasConstants
<1>1. 0 \in S
  OBVIOUS
<1>2. ASSUME NEW n \in S PROVE n + 1 \in S
  BY <1>0, <1>2
<1>3. S = Nat
  <2>. HIDE DEF S
  <2>1. S \in SUBSET Nat
    BY DEF S
  <2>. QED
    BY ONLY <1>1, <1>2, <2>1, EveryNat
<1>4. ASSUME NEW n \in 0..MaxAliases PROVE n \in T
  <2>1. n \in S
    BY <1>0, <1>3
  <2>. QED
    BY <1>0, <2>1
<1>. QED
  BY <1>4

\* The hops of Follow, as Aliases defines them.
Hops(table, id, f) ==
  f = [n \in 0..MaxAliases |->
         IF n = 0 THEN id ELSE IF table[f[n - 1]] = None THEN f[n - 1] ELSE table[f[n - 1]]]

LEMMA HopsExist ==
  ASSUME NEW table, NEW id
  PROVE  \E f : Hops(table, id, f)
<1>. DEFINE up(f, n) == IF n = 0 THEN id
                        ELSE IF table[f[n - 1]] = None THEN f[n - 1] ELSE table[f[n - 1]]
            T == {n \in 0..MaxAliases : \E f : \A m \in 0..n : f[m] = up(f, m)}
<1>0. MaxAliases \in Nat
  BY AliasConstants
<1>1. 0 \in T
  <2>. DEFINE h == [n \in {0} |-> id]
  <2>1. \A m \in 0..0 : h[m] = up(h, m)
    OBVIOUS
  <2>. HIDE DEF h, up
  <2>. QED
    BY <1>0, <2>1
<1>2. ASSUME NEW n \in 0..MaxAliases - 1, n \in T PROVE n + 1 \in T
  <2>1. PICK f : \A m \in 0..n : f[m] = up(f, m)
    BY <1>2
  <2>. DEFINE h == [m \in 0..n + 1 |-> up(f, m)]
  <2>2. ASSUME NEW m \in 0..n PROVE h[m] = f[m]
    BY <1>0, <2>1
  <2>3. ASSUME NEW m \in 0..n + 1 PROVE h[m] = up(h, m)
    <3>1. h[m] = up(f, m)
      OBVIOUS
    <3>2. CASE m = 0
      BY <3>1, <3>2
    <3>3. CASE m # 0
      <4>1. m - 1 \in 0..n
        BY <1>0, <3>3
      <4>. HIDE DEF h
      <4>2. h[m - 1] = f[m - 1]
        BY <2>2, <4>1
      <4>. QED
        BY <3>1, <3>3, <4>2
    <3>. QED
      BY <3>2, <3>3
  <2>. HIDE DEF h, up
  <2>. QED
    BY <1>0, <2>3
<1>3. T = 0..MaxAliases
  <2>. HIDE DEF T
  <2>1. T \in SUBSET (0..MaxAliases)
    BY DEF T
  <2>. QED
    BY ONLY <1>1, <1>2, <2>1, AlongChain
<1>4. PICK f : \A m \in 0..MaxAliases : f[m] = up(f, m)
  BY <1>0, <1>3
<1>. DEFINE h == [m \in 0..MaxAliases |-> up(f, m)]
<1>5. ASSUME NEW m \in 0..MaxAliases PROVE h[m] = up(h, m)
  <2>1. \A k \in 0..MaxAliases : h[k] = f[k]
    BY <1>4
  <2>2. m # 0 => m - 1 \in 0..MaxAliases
    BY <1>0
  <2>. HIDE DEF h
  <2>3. m # 0 => h[m - 1] = f[m - 1]
    BY <2>1, <2>2
  <2>. QED
    BY <1>4, <2>1, <2>3
<1>6. h = [m \in 0..MaxAliases |-> up(h, m)]
  <2>1. h = [m \in 0..MaxAliases |-> h[m]]
    OBVIOUS
  <2>. HIDE DEF h
  <2>. QED
    BY <1>5, <2>1
<1>. QED
  BY <1>6 DEF Hops

LEMMA FollowLeads ==
  ASSUME NEW table \in AliasTables, NEW id \in AgentIds
  PROVE  \E c : Leads(table, id, c) /\ I!Follow(table, id) = c[MaxAliases]
<1>. DEFINE f == CHOOSE h : Hops(table, id, h)
<1>0. MaxAliases \in Nat
  BY AliasConstants
<1>1. Hops(table, id, f)
  BY HopsExist
<1>2. I!Follow(table, id) = f[MaxAliases]
  BY DEF I!Follow, Hops
<1>. HIDE DEF f
<1>3. f[0] = id
  BY <1>0, <1>1 DEF Hops
<1>4. ASSUME NEW n \in 0..MaxAliases - 1
      PROVE  f[n + 1] = IF table[f[n]] = None THEN f[n] ELSE table[f[n]]
  <2>1. n + 1 \in 0..MaxAliases /\ n + 1 # 0 /\ (n + 1) - 1 = n
    BY <1>0
  <2>. QED
    BY <1>1, <2>1 DEF Hops
<1>5. \A n \in 0..MaxAliases : f[n] \in AgentIds
  <2>. DEFINE T == {n \in 0..MaxAliases : f[n] \in AgentIds}
  <2>1. 0 \in T
    BY <1>0, <1>3
  <2>2. ASSUME NEW n \in 0..MaxAliases - 1, n \in T PROVE n + 1 \in T
    BY <1>0, <1>4, <2>2 DEF AliasTables
  <2>3. T = 0..MaxAliases
    <3>. HIDE DEF T
    <3>1. T \in SUBSET (0..MaxAliases)
      BY DEF T
    <3>. QED
      BY ONLY <2>1, <2>2, <3>1, AlongChain
  <2>. QED
    BY <2>3
<1>6. f \in [0..MaxAliases -> AgentIds]
  BY <1>1, <1>5 DEF Hops
<1>. QED
  BY <1>2, <1>3, <1>4, <1>6 DEF Leads

\* Two chains that start alike stay together as long as the tables agree.
LEMMA LeadsAgree ==
  ASSUME NEW table, NEW other, NEW id, NEW c, NEW d, Leads(table, id, c), Leads(other, id, d),
         NEW h \in 0..MaxAliases, \A n \in 0..h - 1 : other[c[n]] = table[c[n]]
  PROVE  \A n \in 0..h : d[n] = c[n]
<1>. DEFINE T == {n \in 0..MaxAliases : n <= h => d[n] = c[n]}
<1>0. MaxAliases \in Nat
  BY AliasConstants
<1>1. 0 \in T
  BY <1>0 DEF Leads
<1>2. ASSUME NEW n \in 0..MaxAliases - 1, n \in T PROVE n + 1 \in T
  <2>1. SUFFICES ASSUME n + 1 <= h PROVE d[n + 1] = c[n + 1]
    BY <1>0
  <2>2. n \in 0..h - 1 /\ d[n] = c[n]
    BY <1>0, <1>2, <2>1
  <2>. QED
    BY <2>2 DEF Leads
<1>3. T = 0..MaxAliases
  <2>. HIDE DEF T
  <2>1. T \in SUBSET (0..MaxAliases)
    BY DEF T
  <2>. QED
    BY ONLY <1>1, <1>2, <2>1, AlongChain
<1>. QED
  BY <1>0, <1>3

LEMMA LeadsIsFollow ==
  ASSUME NEW table \in AliasTables, NEW id \in AgentIds, NEW c, Leads(table, id, c)
  PROVE  I!Follow(table, id) = c[MaxAliases]
<1>1. PICK d : Leads(table, id, d) /\ I!Follow(table, id) = d[MaxAliases]
  BY FollowLeads
<1>2. MaxAliases \in 0..MaxAliases
  BY AliasConstants
<1>3. \A n \in 0..MaxAliases : d[n] = c[n]
  BY <1>1, <1>2, LeadsAgree
<1>. QED
  BY <1>1, <1>2, <1>3

\* Where nothing leads on, a chain stays.
LEMMA LeadsStay ==
  ASSUME NEW table, NEW id, NEW c, Leads(table, id, c), NEW h \in 0..MaxAliases,
         table[c[h]] = None
  PROVE  c[MaxAliases] = c[h]
<1>. DEFINE T == {n \in 0..MaxAliases : n >= h => c[n] = c[h]}
<1>0. MaxAliases \in Nat
  BY AliasConstants
<1>1. 0 \in T
  BY <1>0
<1>2. ASSUME NEW n \in 0..MaxAliases - 1, n \in T PROVE n + 1 \in T
  <2>1. SUFFICES ASSUME n + 1 >= h, n + 1 # h PROVE c[n + 1] = c[h]
    BY <1>0
  <2>2. c[n] = c[h]
    BY <1>0, <1>2, <2>1
  <2>. QED
    BY <2>2 DEF Leads
<1>3. T = 0..MaxAliases
  <2>. HIDE DEF T
  <2>1. T \in SUBSET (0..MaxAliases)
    BY DEF T
  <2>. QED
    BY ONLY <1>1, <1>2, <2>1, AlongChain
<1>. QED
  BY <1>0, <1>3

\* A chain that comes back to where it was never ends.
LEMMA LeadsBack ==
  ASSUME NEW table, NEW id, NEW c, Leads(table, id, c), NEW h \in 0..MaxAliases - 1,
         NEW j \in 0..h, c[h + 1] = c[j], \A n \in 0..h : table[c[n]] # None
  PROVE  table[c[MaxAliases]] # None
<1>. DEFINE T == {n \in 0..MaxAliases : \E k \in 0..h : c[n] = c[k]}
<1>0. MaxAliases \in Nat
  BY AliasConstants
<1>1. 0 \in T
  BY <1>0
<1>2. ASSUME NEW n \in 0..MaxAliases - 1, n \in T PROVE n + 1 \in T
  <2>1. PICK k \in 0..h : c[n] = c[k]
    BY <1>2
  <2>2. c[n + 1] = c[k + 1]
    BY <1>0, <2>1 DEF Leads
  <2>3. \E l \in 0..h : c[k + 1] = c[l]
    BY <1>0
  <2>. QED
    BY <1>0, <2>2, <2>3
<1>3. T = 0..MaxAliases
  <2>. HIDE DEF T
  <2>1. T \in SUBSET (0..MaxAliases)
    BY DEF T
  <2>. QED
    BY ONLY <1>1, <1>2, <2>1, AlongChain
<1>. QED
  BY <1>0, <1>3

\* What a call still has to resolve, and then to do.
AliasRounds(r) ==
  \/ Len(r) = 1 /\ r[1] = {}
  \/ Len(r) = 2 /\ r[1] # {} /\ r[2] = {}
  \/ Len(r) = 3 /\ r[1] = {"self"} /\ r[2] = {"peer"} /\ r[3] = {}
  \/ Len(r) = 3 /\ r[1] = {} /\ r[2] = AliasEnds /\ r[3] = {}
  \/ Len(r) = 4 /\ r[1] # {} /\ r[2] = {} /\ r[3] = AliasEnds /\ r[4] = {}

\* The ends not yet resolved for its next statement.
Unresolved(r) == IF Len(r) = 3 /\ r[1] # {} THEN AliasEnds ELSE r[1]

\* A walk stands on the chain of where it started, short of its end.
Passes(w) ==
  \E c :
    /\ Leads(alias, w.start, c)
    /\ w.hops \in 0..MaxAliases - 1 /\ w.at = c[w.hops]
    /\ \A x \in w.seen : \E n \in 0..w.hops : x = c[n]
    /\ \A n \in 0..w.hops : c[n] \in w.seen
    /\ \A n \in 0..w.hops - 1 : c[n] # w.at /\ alias[c[n]] # None

\* A walk of end e of a call is from an id of the same agent, and one that is
\* over has arrived.
Goes(c, e) ==
  LET ids == {c.given[e], I!Follow(alias, c.given[e])}
  IN /\ c.named[e] \in ids /\ c.walk[e].start \in ids /\ Passes(c.walk[e])
     /\ c.route \/ e \in Unresolved(c.rounds)
          \/ c.walk[e].at = I!Follow(alias, c.given[e])

Sure(x) == x.fresh /\ I!Settled(x.given)

GoodCall(c) ==
  /\ c \in AliasCalls
  /\ IF c.route THEN c.rounds = <<{"self"}>> ELSE AliasRounds(c.rounds)
  /\ Sure(c) => \A e \in AliasEnds : Goes(c, e)

GoodMessage(m) ==
  /\ m \in AliasMessages
  /\ Sure(m) => \A e \in AliasEnds : m.stored[e] = I!Follow(alias, m.given[e])

AliasInv ==
  /\ alias \in AliasTables
  /\ walker = [i \in Walkers |-> walker[i]]
  /\ \A i \in Walkers : walker[i] # None => GoodCall(walker[i])
  /\ \A m \in messages : GoodMessage(m)

LEMMA Around == I!Ends = AliasEnds
BY DEF I!Ends, AliasEnds

\* Where the chain of what was given ends, it stays.
LEMMA SettledEnds ==
  ASSUME alias \in AliasTables, NEW given \in [AliasEnds -> AgentIds], I!Settled(given),
         NEW e \in AliasEnds
  PROVE  /\ I!Follow(alias, given[e]) \in AgentIds /\ alias[I!Follow(alias, given[e])] = None
         /\ I!Follow(alias, I!Follow(alias, given[e])) = I!Follow(alias, given[e])
<1>0. MaxAliases \in Nat
  BY AliasConstants
<1>1. PICK c : Leads(alias, given[e], c) /\ I!Follow(alias, given[e]) = c[MaxAliases]
  BY FollowLeads
<1>2. c[MaxAliases] \in AgentIds /\ alias[c[MaxAliases]] = None
  BY <1>0, <1>1, Around DEF Leads, I!Settled
<1>3. PICK d : /\ Leads(alias, c[MaxAliases], d)
               /\ I!Follow(alias, c[MaxAliases]) = d[MaxAliases]
  BY <1>2, FollowLeads
<1>4. d[0] = c[MaxAliases] /\ 0 \in 0..MaxAliases
  BY <1>0, <1>3 DEF Leads
<1>5. d[MaxAliases] = d[0]
  BY <1>2, <1>3, <1>4, LeadsStay
<1>. QED
  BY <1>1, <1>2, <1>3, <1>4, <1>5

LEMMA WalkBegins ==
  ASSUME alias \in AliasTables, NEW id \in AgentIds
  PROVE  I!Walk(id) \in AliasWalks /\ I!Walk(id).start = id /\ Passes(I!Walk(id))
<1>1. PICK c : Leads(alias, id, c)
  BY FollowLeads
<1>2. I!Walk(id) = [start |-> id, at |-> id, seen |-> {id}, hops |-> 0]
  BY DEF I!Walk
<1>. DEFINE w == I!Walk(id)
<1>3. w.start = id /\ w.at = id /\ w.seen = {id} /\ w.hops = 0 /\ w \in AliasWalks
  BY <1>2 DEF AliasWalks
<1>. HIDE DEF w
<1>4. c[0] = id /\ 0 \in 0..MaxAliases - 1
  BY <1>1, AliasConstants DEF Leads
<1>5. Passes(w)
  BY <1>1, <1>3, <1>4 DEF Passes
<1>. QED
  BY <1>3, <1>5 DEF w

\* A walk of a settled chain that can go on does so, or arrives.
LEMMA WalkGoesOn ==
  ASSUME alias \in AliasTables, NEW w \in AliasWalks, Passes(w),
         alias[I!Follow(alias, w.start)] = None
  PROVE  LET next == alias[w.at]
         IN /\ next \in {None} \cup w.seen => w.at = I!Follow(alias, w.start)
            /\ next \notin {None} \cup w.seen =>
                 /\ next \in AgentIds
                 /\ w.hops + 1 = MaxAliases => next = I!Follow(alias, w.start)
                 /\ w.hops + 1 # MaxAliases => Passes(I!Advance(w, next))
                 /\ I!Advance(w, next) \in AliasWalks /\ I!Advance(w, next).start = w.start
<1>. DEFINE h == w.hops
            next == alias[w.at]
<1>0. MaxAliases \in Nat /\ None \notin AgentIds
  BY AliasConstants
<1>1. PICK c :
        /\ Leads(alias, w.start, c)
        /\ h \in 0..MaxAliases - 1 /\ w.at = c[h]
        /\ \A x \in w.seen : \E n \in 0..h : x = c[n]
        /\ \A n \in 0..h : c[n] \in w.seen
        /\ \A n \in 0..h - 1 : c[n] # w.at /\ alias[c[n]] # None
  BY DEF Passes
<1>2. w.start \in AgentIds /\ w.at \in AgentIds /\ next \in AgentIds \cup {None}
  BY DEF AliasWalks, AliasTables
<1>3. I!Follow(alias, w.start) = c[MaxAliases]
  BY <1>1, <1>2, LeadsIsFollow
<1>4. CASE next = None
  <2>1. h \in 0..MaxAliases /\ alias[c[h]] = None
    BY <1>0, <1>1, <1>4
  <2>2. c[MaxAliases] = c[h]
    BY <1>1, <2>1, LeadsStay
  <2>. QED
    BY <1>1, <1>3, <1>4, <2>2
<1>5. ASSUME next # None PROVE c[h + 1] = next
  BY <1>1, <1>5 DEF Leads
<1>6. CASE next # None /\ next \in w.seen
  <2>1. PICK j \in 0..h : next = c[j]
    BY <1>1, <1>6
  <2>2. c[h + 1] = c[j]
    BY <1>5, <1>6, <2>1
  <2>3. ASSUME NEW n \in 0..h PROVE alias[c[n]] # None
    <3>1. n = h \/ n \in 0..h - 1
      BY <1>1
    <3>. QED
      BY <1>1, <1>6, <3>1
  <2>4. alias[c[MaxAliases]] # None
    BY <1>1, <2>1, <2>2, <2>3, LeadsBack
  <2>. QED
    BY <1>3, <2>4
<1>7. CASE next # None /\ next \notin w.seen
  <2>. DEFINE v == I!Advance(w, next)
  <2>1. /\ v \in AliasWalks /\ v.start = w.start /\ v.at = next
        /\ v.seen = w.seen \cup {next} /\ v.hops = h + 1
    <3>1. PICK x \in AgentIds : x = next
      BY <1>2, <1>7
    <3>2. /\ w.hops \in Nat /\ w.seen \cup {x} \in SUBSET AgentIds /\ w.hops + 1 \in Nat
      BY <3>1 DEF AliasWalks
    <3>3. PICK s \in SUBSET AgentIds, k \in Nat : s = w.seen \cup {x} /\ k = w.hops + 1
      BY <3>2
    <3>. DEFINE u == [w EXCEPT !.at = x, !.seen = s, !.hops = k]
    <3>4. u \in AliasWalks /\ u.start = w.start /\ u.at = x /\ u.seen = s /\ u.hops = k
      BY DEF AliasWalks
    <3>5. v = u
      BY <3>1, <3>3 DEF I!Advance
    <3>. HIDE DEF u, v
    <3>. QED
      BY <3>1, <3>3, <3>4, <3>5
  <2>2. h + 1 = MaxAliases => next = c[MaxAliases]
    BY <1>5, <1>7
  <2>. HIDE DEF v
  <2>3. ASSUME h + 1 # MaxAliases PROVE Passes(v)
    <3>. DEFINE k == h + 1
    <3>1. k \in 0..MaxAliases - 1 /\ v.hops = k /\ v.at = c[k]
      BY <1>0, <1>1, <1>5, <1>7, <2>1, <2>3
    <3>2. \A n : n \in 0..k <=> n \in 0..h \/ n = k
      BY <1>1
    <3>3. \A x \in v.seen : \E n \in 0..k : x = c[n]
      BY <1>1, <1>5, <1>7, <2>1, <3>2
    <3>4. \A n \in 0..k : c[n] \in v.seen
      BY <1>1, <1>5, <1>7, <2>1, <3>2
    <3>5. ASSUME NEW n \in 0..k - 1 PROVE c[n] # v.at /\ alias[c[n]] # None
      <4>1. n \in 0..h /\ (n = h \/ n \in 0..h - 1)
        BY <1>1
      <4>2. c[n] # v.at
        BY <1>1, <1>7, <2>1, <4>1
      <4>3. alias[c[n]] # None
        BY <1>1, <1>7, <4>1
      <4>. QED
        BY <4>2, <4>3
    <3>. HIDE DEF k
    <3>6. Leads(alias, v.start, c)
      BY <1>1, <2>1
    <3>. QED
      BY <3>1, <3>3, <3>4, <3>5, <3>6 DEF Passes
  <2>. QED
    BY <1>2, <1>3, <1>7, <2>1, <2>2, <2>3 DEF v
<1>. QED
  BY <1>4, <1>6, <1>7

\* A remint of an id no walk has passed leaves its chain as far as it went.
LEMMA WalkIsPassed ==
  ASSUME alias \in AliasTables, alias' \in AliasTables, NEW old \in AgentIds,
         \A x \in AgentIds \ {old} : alias'[x] = alias[x],
         NEW w \in AliasWalks, Passes(w), old \notin w.seen \ {w.at}
  PROVE  Passes(w)'
<1>0. MaxAliases \in Nat
  BY AliasConstants
<1>1. PICK c :
        /\ Leads(alias, w.start, c)
        /\ w.hops \in 0..MaxAliases - 1 /\ w.at = c[w.hops]
        /\ \A x \in w.seen : \E n \in 0..w.hops : x = c[n]
        /\ \A n \in 0..w.hops : c[n] \in w.seen
        /\ \A n \in 0..w.hops - 1 : c[n] # w.at /\ alias[c[n]] # None
  BY DEF Passes
<1>2. PICK d : Leads(alias', w.start, d)
  <2>1. w.start \in AgentIds
    BY DEF AliasWalks
  <2>. QED
    BY <2>1, FollowLeads
<1>3. ASSUME NEW n \in 0..w.hops - 1 PROVE alias'[c[n]] = alias[c[n]]
  <2>1. n \in 0..w.hops /\ n \in 0..MaxAliases
    BY <1>0, <1>1
  <2>2. c[n] \in w.seen \ {w.at} /\ c[n] \in AgentIds
    BY <1>1, <2>1 DEF Leads
  <2>. QED
    BY <2>2
<1>4. w.hops \in 0..MaxAliases
  BY <1>0, <1>1
<1>5. \A n \in 0..w.hops : d[n] = c[n]
  BY <1>1, <1>2, <1>3, <1>4, LeadsAgree
<1>6. \A n \in 0..w.hops - 1 : n \in 0..w.hops
  BY <1>1
<1>7. w.hops \in 0..w.hops
  BY <1>1
<1>8. /\ w.at = d[w.hops]
      /\ \A x \in w.seen : \E n \in 0..w.hops : x = d[n]
      /\ \A n \in 0..w.hops : d[n] \in w.seen
  BY <1>1, <1>5, <1>7
<1>9. \A n \in 0..w.hops - 1 : d[n] # w.at /\ alias'[d[n]] # None
  BY <1>1, <1>3, <1>5, <1>6
<1>. QED
  BY <1>1, <1>2, <1>8, <1>9 DEF Passes

LEMMA RoundsShort ==
  ASSUME NEW r \in Seq(SUBSET AliasEnds), AliasRounds(r), NEW e \in r[1], r[1] = {e},
         NEW q \in Seq(SUBSET AliasEnds), Len(q) = Len(r) - 1,
         \A k \in 1..Len(q) : q[k] = r[k + 1]
  PROVE  /\ AliasRounds(q)
         /\ \A x \in AliasEnds : x \notin Unresolved(q) => x = e \/ x \notin Unresolved(r)
<1>1. Len(r) = 2 => Len(q) = 1 /\ q[1] = r[2]
  OBVIOUS
<1>2. Len(r) = 3 => Len(q) = 2 /\ q[1] = r[2] /\ q[2] = r[3]
  OBVIOUS
<1>3. Len(r) = 4 => Len(q) = 3 /\ q[1] = r[2] /\ q[2] = r[3] /\ q[3] = r[4]
  OBVIOUS
<1>4. CASE Len(r) = 2
  BY <1>1, <1>4 DEF AliasRounds, Unresolved
<1>5. CASE Len(r) = 3
  <2>1. r[1] = {"self"} /\ r[2] = {"peer"} /\ r[3] = {} /\ e = "self"
    BY <1>5 DEF AliasRounds
  <2>. QED
    BY <1>2, <1>5, <2>1 DEF AliasRounds, Unresolved, AliasEnds
<1>6. CASE Len(r) = 4
  BY <1>3, <1>6 DEF AliasRounds, Unresolved
<1>. QED
  BY <1>4, <1>5, <1>6 DEF AliasRounds

LEMMA RoundsLess ==
  ASSUME NEW r \in Seq(SUBSET AliasEnds), AliasRounds(r), NEW e \in r[1], r[1] # {e},
         NEW q \in Seq(SUBSET AliasEnds), Len(q) = Len(r), q[1] = r[1] \ {e},
         \A k \in 2..Len(r) : q[k] = r[k]
  PROVE  /\ AliasRounds(q)
         /\ \A x \in AliasEnds : x \notin Unresolved(q) => x = e \/ x \notin Unresolved(r)
<1>1. Len(r) = 2 => q[2] = r[2]
  OBVIOUS
<1>2. Len(r) = 4 => q[2] = r[2] /\ q[3] = r[3] /\ q[4] = r[4]
  OBVIOUS
<1>3. q[1] # {}
  OBVIOUS
<1>4. CASE Len(r) = 2
  BY <1>1, <1>3, <1>4 DEF AliasRounds, Unresolved
<1>5. CASE Len(r) = 4
  BY <1>2, <1>3, <1>5 DEF AliasRounds, Unresolved
<1>. QED
  BY <1>4, <1>5 DEF AliasRounds

LEMMA RoundsMove ==
  ASSUME NEW r \in Seq(SUBSET AliasEnds), AliasRounds(r), NEW e \in Head(r),
         NEW q, q = (IF Head(r) \ {e} = {} THEN <<>> ELSE <<Head(r) \ {e}>>) \o Tail(r)
  PROVE  /\ q \in Seq(SUBSET AliasEnds) /\ AliasRounds(q)
         /\ \A x \in AliasEnds : x \notin Unresolved(q) => x = e \/ x \notin Unresolved(r)
<1>. DEFINE t == Tail(r)
            left == Head(r) \ {e}
<1>1. /\ Head(r) = r[1] /\ r[1] \in SUBSET AliasEnds /\ e \in r[1] /\ Len(r) \in Nat /\ r # <<>>
  BY DEF AliasRounds
<1>2. /\ t \in Seq(SUBSET AliasEnds) /\ Len(t) = Len(r) - 1
      /\ \A k \in 1..Len(t) : t[k] = r[k + 1]
  BY <1>1
<1>3. left \in SUBSET AliasEnds
  BY <1>1
<1>. HIDE DEF t
<1>4. CASE left = {}
  <2>1. q = t
    BY <1>2, <1>4 DEF t
  <2>2. r[1] = {e}
    BY <1>1, <1>4
  <2>. QED
    BY <1>1, <1>2, <2>1, <2>2, RoundsShort
<1>5. CASE left # {}
  <2>. DEFINE s == <<left>>
  <2>1. s \in Seq(SUBSET AliasEnds) /\ Len(s) = 1 /\ s[1] = left
    BY <1>3
  <2>2. q = s \o t
    BY <1>5 DEF t
  <2>. HIDE DEF s, left
  <2>3. /\ q \in Seq(SUBSET AliasEnds) /\ Len(q) = Len(r) /\ q[1] = left
        /\ \A k \in 2..Len(r) : q[k] = t[k - 1]
    <3>1. /\ q \in Seq(SUBSET AliasEnds) /\ Len(q) = Len(s) + Len(t)
          /\ \A k \in 1..Len(s) + Len(t) : q[k] = IF k <= Len(s) THEN s[k] ELSE t[k - Len(s)]
      BY ONLY <1>2, <2>1, <2>2, ConcatProperties
    <3>2. Len(s) + Len(t) = Len(r) /\ Len(r) >= 1
      BY <1>1, <1>2, <2>1
    <3>3. \A k \in 1..Len(r) : q[k] = IF k <= 1 THEN s[k] ELSE t[k - 1]
      BY <2>1, <3>1, <3>2
    <3>4. q[1] = left
      <4>1. 1 \in 1..Len(r)
        BY ONLY <1>1, <3>2
      <4>. QED
        BY ONLY <2>1, <3>3, <4>1
    <3>5. ASSUME NEW k \in 2..Len(r) PROVE q[k] = t[k - 1]
      <4>1. k \in 1..Len(r) /\ ~(k <= 1)
        BY ONLY <1>1, <3>5
      <4>. QED
        BY ONLY <3>3, <4>1
    <3>. QED
      BY ONLY <3>1, <3>2, <3>4, <3>5
  <2>4. \A k \in 2..Len(r) : q[k] = r[k]
    <3>1. \A k \in 2..Len(r) : k - 1 \in 1..Len(t) /\ (k - 1) + 1 = k
      BY <1>1, <1>2
    <3>. QED
      BY <1>2, <2>3, <3>1
  <2>5. left = r[1] \ {e}
    BY <1>1 DEF left
  <2>6. r[1] # {e}
    BY <1>1, <1>5, <2>5
  <2>. QED
    BY ONLY AliasRounds(r), r \in Seq(SUBSET AliasEnds),
            <1>1, <2>3, <2>4, <2>5, <2>6, RoundsLess
<1>. QED
  BY <1>4, <1>5

\* The second half of a read resolves both ends anew.
LEMMA RoundsAgain ==
  ASSUME NEW r \in Seq(SUBSET AliasEnds), AliasRounds(r), Head(r) = {}, Len(r) # 1
  PROVE  /\ Tail(r) \in Seq(SUBSET AliasEnds)
         /\ AliasRounds(Tail(r)) /\ Unresolved(Tail(r)) = AliasEnds
<1>. DEFINE t == Tail(r)
<1>1. Len(r) = 3 /\ r[1] = {} /\ r[2] = AliasEnds /\ r[3] = {}
  BY DEF AliasRounds
<1>2. /\ t \in Seq(SUBSET AliasEnds) /\ Len(t) = 2 /\ t[1] = r[2] /\ t[2] = r[3]
  BY <1>1
<1>. HIDE DEF t
<1>3. AliasRounds(t) /\ Unresolved(t) = AliasEnds
  BY <1>1, <1>2 DEF AliasRounds, Unresolved, AliasEnds
<1>. QED
  BY <1>2, <1>3 DEF t

LEMMA RoundsBegin ==
  ASSUME NEW do \in {"send", "list", "read"}
  PROVE  /\ I!Rounds(do) \in Seq(SUBSET AliasEnds) /\ AliasRounds(I!Rounds(do))
         /\ Unresolved(I!Rounds(do)) = AliasEnds
<1>1. CASE do = "send"
  <2>. DEFINE r == <<{"self"}, {"peer"}, {}>>
  <2>1. r \in Seq(SUBSET AliasEnds) /\ Len(r) = 3 /\ r[1] = {"self"} /\ r[2] = {"peer"} /\ r[3] = {}
    BY DEF AliasEnds
  <2>2. I!Rounds(do) = r
    BY <1>1 DEF I!Rounds
  <2>. HIDE DEF r
  <2>. QED
    BY <2>1, <2>2 DEF AliasRounds, Unresolved
<1>2. CASE do = "list"
  <2>. DEFINE r == <<AliasEnds, {}>>
  <2>1. r \in Seq(SUBSET AliasEnds) /\ Len(r) = 2 /\ r[1] = AliasEnds /\ r[2] = {}
    OBVIOUS
  <2>2. I!Rounds(do) = r
    BY <1>2, Around DEF I!Rounds
  <2>. HIDE DEF r
  <2>. QED
    BY <2>1, <2>2 DEF AliasRounds, Unresolved, AliasEnds
<1>3. CASE do = "read"
  <2>. DEFINE r == <<AliasEnds, {}, AliasEnds, {}>>
  <2>1. /\ r \in Seq(SUBSET AliasEnds) /\ Len(r) = 4
        /\ r[1] = AliasEnds /\ r[2] = {} /\ r[3] = AliasEnds /\ r[4] = {}
    OBVIOUS
  <2>2. I!Rounds(do) = r
    BY <1>3, Around DEF I!Rounds
  <2>. HIDE DEF r
  <2>. QED
    BY <2>1, <2>2 DEF AliasRounds, Unresolved, AliasEnds
<1>. QED
  BY <1>1, <1>2, <1>3

\* A call that starts its walks afresh.
LEMMA BegunIsGood ==
  ASSUME alias \in AliasTables, NEW c \in AliasCalls,
         c.walk = [e \in AliasEnds |-> I!Walk(c.named[e])],
         IF c.route THEN c.rounds = <<{"self"}>>
         ELSE AliasRounds(c.rounds) /\ Unresolved(c.rounds) = AliasEnds,
         Sure(c) => \A e \in AliasEnds :
           c.named[e] \in {c.given[e], I!Follow(alias, c.given[e])}
  PROVE  GoodCall(c)
<1>1. ASSUME NEW e \in AliasEnds
      PROVE  c.walk[e].start = c.named[e] /\ Passes(c.walk[e])
  <2>1. c.named[e] \in AgentIds
    BY DEF AliasCalls
  <2>. QED
    BY <2>1, WalkBegins
<1>2. ASSUME Sure(c), NEW e \in AliasEnds PROVE Goes(c, e)
  BY <1>1, <1>2 DEF Goes
<1>. QED
  BY <1>2 DEF GoodCall

LEMMA RestartIsGood ==
  ASSUME alias \in AliasTables, NEW c \in AliasCalls, NEW r \in Seq(SUBSET AliasEnds),
         IF c.route THEN r = <<{"self"}>> ELSE AliasRounds(r) /\ Unresolved(r) = AliasEnds,
         Sure(c) => \A e \in AliasEnds :
           c.named[e] \in {c.given[e], I!Follow(alias, c.given[e])}
  PROVE  GoodCall(I!Restart(c, r))
<1>. DEFINE walks == [e \in AliasEnds |-> I!Walk(c.named[e])]
            d == [c EXCEPT !.rounds = r, !.walk = walks]
<1>1. walks \in [AliasEnds -> AliasWalks]
  BY WalkBegins DEF AliasCalls
<1>2. I!Restart(c, r) = d
  BY Around DEF I!Restart
<1>3. walks = [e \in AliasEnds |-> I!Walk(c.named[e])]
  OBVIOUS
<1>. HIDE DEF walks
<1>4. /\ d \in AliasCalls /\ d.rounds = r /\ d.walk = walks /\ d.route = c.route
      /\ d.given = c.given /\ d.named = c.named /\ d.fresh = c.fresh
  BY <1>1 DEF AliasCalls
<1>. HIDE DEF d
<1>5. Sure(d) => Sure(c)
  BY <1>4 DEF Sure
<1>6. GoodCall(d)
  BY <1>3, <1>4, <1>5, BegunIsGood
<1>. QED
  BY <1>2, <1>6

LEMMA RestIsGood ==
  ASSUME alias \in AliasTables, NEW c \in AliasCalls, GoodCall(c), NEW e \in Head(c.rounds),
         NEW id \in AgentIds, Sure(c) => id = I!Follow(alias, c.given[e])
  PROVE  /\ GoodCall(I!Rest(c, e, id))
         /\ I!Rest(c, e, id) \in AliasCalls /\ I!Rest(c, e, id).given = c.given
<1>0. c.rounds \in Seq(SUBSET AliasEnds) /\ c.do \in {"send", "list", "read"}
  BY DEF AliasCalls
<1>1. CASE c.route
  <2>. DEFINE rounds == I!Rounds(c.do)
              named == [c.named EXCEPT !.self = id]
              d == [c EXCEPT !.route = FALSE, !.named = named]
  <2>1. c.rounds = <<{"self"}>>
    BY <1>1 DEF GoodCall
  <2>2. e = "self"
    BY <2>1
  <2>3. named \in [AliasEnds -> AgentIds] /\ named["self"] = id /\ named["peer"] = c.named["peer"]
    BY DEF AliasCalls, AliasEnds
  <2>4. I!Rest(c, e, id) = I!Restart(d, rounds)
    BY <1>1 DEF I!Rest
  <2>. HIDE DEF named
  <2>5. /\ d \in AliasCalls /\ ~d.route /\ d.named = named /\ d.given = c.given
        /\ d.fresh = c.fresh
    BY <2>3 DEF AliasCalls
  <2>. HIDE DEF d
  <2>6. ASSUME Sure(d), NEW x \in AliasEnds
        PROVE  d.named[x] \in {d.given[x], I!Follow(alias, d.given[x])}
    <3>1. Sure(c)
      BY <2>5, <2>6 DEF Sure
    <3>2. c.named[x] \in {c.given[x], I!Follow(alias, c.given[x])}
      BY <2>6, <3>1 DEF GoodCall, Goes
    <3>. QED
      BY <2>2, <2>3, <2>5, <2>6, <3>1, <3>2 DEF AliasEnds
  <2>7. /\ rounds \in Seq(SUBSET AliasEnds) /\ AliasRounds(rounds)
        /\ Unresolved(rounds) = AliasEnds
    BY <1>0, RoundsBegin
  <2>. HIDE DEF rounds
  <2>8. GoodCall(I!Restart(d, rounds))
    BY <2>5, <2>6, <2>7, RestartIsGood
  <2>9. I!Restart(d, rounds).given = d.given
    BY <2>5 DEF AliasCalls, I!Restart
  <2>. QED
    BY <2>4, <2>5, <2>8, <2>9 DEF GoodCall
<1>2. CASE ~c.route
  <2>. DEFINE left == Head(c.rounds) \ {e}
              q == (IF left = {} THEN <<>> ELSE <<left>>) \o Tail(c.rounds)
              walk == [c.walk EXCEPT ![e] = I!Walk(id)]
              d == [c EXCEPT !.walk = walk, !.rounds = q]
  <2>1. AliasRounds(c.rounds)
    BY <1>2 DEF GoodCall
  <2>2. /\ q \in Seq(SUBSET AliasEnds) /\ AliasRounds(q)
        /\ \A x \in AliasEnds : x \notin Unresolved(q) => x = e \/ x \notin Unresolved(c.rounds)
    BY <1>0, <2>1, RoundsMove
  <2>3. I!Rest(c, e, id) = d
    BY <1>2 DEF I!Rest
  <2>. HIDE DEF q
  <2>4. I!Walk(id) \in AliasWalks /\ I!Walk(id).start = id /\ Passes(I!Walk(id))
    BY WalkBegins
  <2>5. e \in AliasEnds
    <3>1. Head(c.rounds) = c.rounds[1] /\ c.rounds[1] \in SUBSET AliasEnds
      BY <1>0, <2>1 DEF AliasRounds
    <3>. QED
      BY <3>1
  <2>6. /\ walk \in [AliasEnds -> AliasWalks] /\ walk[e] = I!Walk(id)
        /\ \A x \in AliasEnds \ {e} : walk[x] = c.walk[x]
    BY <2>4, <2>5 DEF AliasCalls
  <2>. HIDE DEF walk
  <2>7. /\ d \in AliasCalls /\ d.rounds = q /\ d.walk = walk /\ d.route = c.route
        /\ d.given = c.given /\ d.named = c.named /\ d.fresh = c.fresh
    BY <2>2, <2>6 DEF AliasCalls
  <2>. HIDE DEF d
  <2>8. ASSUME Sure(d), NEW x \in AliasEnds PROVE Goes(d, x)
    <3>1. Sure(c) /\ Goes(c, x)
      BY <2>7, <2>8 DEF Sure, GoodCall
    <3>2. CASE x = e
      <4>1. id = I!Follow(alias, c.given[x]) /\ I!Walk(id).at = id
        BY <3>1, <3>2 DEF I!Walk
      <4>. QED
        BY <2>4, <2>6, <2>7, <3>1, <3>2, <4>1 DEF Goes
    <3>3. CASE x # e
      <4>1. walk[x] = c.walk[x] /\ (x \notin Unresolved(q) => x \notin Unresolved(c.rounds))
        BY <2>2, <2>6, <2>8, <3>3
      <4>. QED
        BY <1>2, <2>7, <3>1, <4>1 DEF Goes
    <3>. QED
      BY <3>2, <3>3
  <2>. QED
    BY <1>2, <2>2, <2>3, <2>7, <2>8 DEF GoodCall
<1>. QED
  BY <1>1, <1>2

\* One lookup of a walk, made or failed.
LEMMA LookupIsGood ==
  ASSUME AliasInv, NEW i \in Walkers, NEW e \in I!Ends, I!DbLookup(i, e)
  PROVE  \E c : GoodCall(c) /\ walker' = [walker EXCEPT ![i] = c]
<1>0. alias \in AliasTables /\ MaxAliases \in Nat \ {0} /\ None \notin AgentIds
  BY AliasConstants DEF AliasInv
<1>. DEFINE c == walker[i]
<1>1. GoodCall(c) /\ c \in AliasCalls /\ e \in Head(c.rounds) /\ e \in AliasEnds
  BY Around DEF AliasInv, GoodCall, I!DbLookup, I!Resolving, I!Busy
<1>2. PICK w \in AliasWalks : w = c.walk[e]
  BY <1>1 DEF AliasCalls
<1>3. PICK next \in AgentIds \cup {None} : next = alias[w.at]
  BY <1>0, <1>2 DEF AliasTables, AliasWalks
<1>4. walker' = [walker EXCEPT ![i] =
                   IF next \in {None} \cup w.seen THEN I!Rest(c, e, w.at)
                   ELSE IF w.hops + 1 = MaxAliases THEN I!Rest(c, e, next)
                   ELSE [c EXCEPT !.walk = [c.walk EXCEPT ![e] = I!Advance(w, next)]]]
  <2>1. walker' = [walker EXCEPT ![i] =
                   IF alias[c.walk[e].at] \in {None} \cup c.walk[e].seen
                   THEN I!Rest(c, e, c.walk[e].at)
                   ELSE IF c.walk[e].hops + 1 = MaxAliases THEN I!Rest(c, e, alias[c.walk[e].at])
                   ELSE [c EXCEPT !.walk =
                     [c.walk EXCEPT ![e] = I!Advance(c.walk[e], alias[c.walk[e].at])]]]
    BY DEF I!DbLookup
  <2>. HIDE DEF c
  <2>. QED
    BY ONLY <1>2, <1>3, <2>1
<1>. HIDE DEF c
<1>5. ASSUME Sure(c)
      PROVE  /\ Passes(w) /\ I!Follow(alias, w.start) = I!Follow(alias, c.given[e])
             /\ alias[I!Follow(alias, w.start)] = None
  <2>1. Goes(c, e)
    BY <1>1, <1>5 DEF GoodCall
  <2>2. c.given \in [AliasEnds -> AgentIds] /\ I!Settled(c.given)
    BY <1>1, <1>5 DEF Sure, AliasCalls
  <2>3. /\ alias[I!Follow(alias, c.given[e])] = None
        /\ I!Follow(alias, I!Follow(alias, c.given[e])) = I!Follow(alias, c.given[e])
    BY <1>0, <1>1, <2>2, SettledEnds
  <2>4. Passes(w) /\ w.start \in {c.given[e], I!Follow(alias, c.given[e])}
    BY <1>2, <2>1 DEF Goes
  <2>. QED
    BY <2>3, <2>4
<1>6. ASSUME Sure(c)
      PROVE  /\ next \in {None} \cup w.seen => w.at = I!Follow(alias, c.given[e])
             /\ next \notin {None} \cup w.seen =>
                  /\ w.hops + 1 = MaxAliases => next = I!Follow(alias, c.given[e])
                  /\ w.hops + 1 # MaxAliases => Passes(I!Advance(w, next))
  BY <1>0, <1>2, <1>3, <1>5, <1>6, WalkGoesOn
<1>7. CASE next \in {None} \cup w.seen
  <2>1. w.at \in AgentIds
    BY <1>2 DEF AliasWalks
  <2>2. GoodCall(I!Rest(c, e, w.at))
    BY <1>0, <1>1, <1>6, <1>7, <2>1, RestIsGood
  <2>. QED
    BY <1>4, <1>7, <2>2
<1>8. CASE next \notin {None} \cup w.seen /\ w.hops + 1 = MaxAliases
  <2>1. next \in AgentIds
    BY <1>3, <1>8
  <2>2. GoodCall(I!Rest(c, e, next))
    BY <1>0, <1>1, <1>6, <1>8, <2>1, RestIsGood
  <2>. QED
    BY <1>4, <1>8, <2>2
<1>9. CASE next \notin {None} \cup w.seen /\ w.hops + 1 # MaxAliases
  <2>. DEFINE v == I!Advance(w, next)
              walk == [c.walk EXCEPT ![e] = v]
              d == [c EXCEPT !.walk = walk]
  <2>1. next \in AgentIds
    BY <1>3, <1>9
  <2>2. v \in AliasWalks /\ v.start = w.start
    <3>1. /\ w.hops \in Nat /\ w.seen \cup {next} \in SUBSET AgentIds /\ w.hops + 1 \in Nat
      BY <2>1 DEF AliasWalks
    <3>2. PICK s \in SUBSET AgentIds, k \in Nat : s = w.seen \cup {next} /\ k = w.hops + 1
      BY <3>1
    <3>. DEFINE u == [w EXCEPT !.at = next, !.seen = s, !.hops = k]
    <3>3. u \in AliasWalks /\ u.start = w.start
      BY <2>1 DEF AliasWalks
    <3>4. v = u
      BY <3>2 DEF I!Advance
    <3>. HIDE DEF u, v
    <3>. QED
      BY <3>3, <3>4
  <2>. HIDE DEF v
  <2>3. /\ walk \in [AliasEnds -> AliasWalks] /\ walk[e] = v
        /\ \A x \in AliasEnds \ {e} : walk[x] = c.walk[x]
    BY <1>1, <2>2 DEF AliasCalls
  <2>. HIDE DEF walk
  <2>4. /\ d \in AliasCalls /\ d.rounds = c.rounds /\ d.walk = walk /\ d.route = c.route
        /\ d.given = c.given /\ d.named = c.named /\ d.fresh = c.fresh
    BY <1>1, <2>3 DEF AliasCalls
  <2>. HIDE DEF d
  <2>5. ASSUME Sure(d), NEW x \in AliasEnds PROVE Goes(d, x)
    <3>1. Sure(c) /\ Goes(c, x)
      BY <1>1, <2>4, <2>5 DEF Sure, GoodCall
    <3>2. CASE x = e
      <4>1. Passes(v)
        BY <1>6, <1>9, <3>1 DEF v
      <4>2. e \in Unresolved(c.rounds) \/ c.route
        <5>1. ~c.route => /\ c.rounds \in Seq(SUBSET AliasEnds) /\ AliasRounds(c.rounds)
          BY <1>1 DEF GoodCall, AliasCalls
        <5>2. ~c.route => Head(c.rounds) = c.rounds[1]
          BY <5>1 DEF AliasRounds
        <5>. QED
          BY <1>1, <5>2 DEF Unresolved
      <4>. QED
        BY <1>2, <2>2, <2>3, <2>4, <3>1, <3>2, <4>1, <4>2 DEF Goes
    <3>3. CASE x # e
      <4>1. walk[x] = c.walk[x]
        BY <2>3, <2>5, <3>3
      <4>. QED
        BY <2>4, <3>1, <4>1 DEF Goes
    <3>. QED
      BY <3>2, <3>3
  <2>6. GoodCall(d)
    BY <1>1, <2>4, <2>5 DEF GoodCall
  <2>. QED
    BY <1>4, <1>9, <2>6 DEF d, walk, v
<1>. QED
  BY <1>7, <1>8, <1>9

LEMMA GoodStays ==
  ASSUME UNCHANGED alias
  PROVE  /\ \A c : GoodCall(c) => GoodCall(c)'
         /\ \A m : GoodMessage(m) => GoodMessage(m)'
BY DEF GoodCall, GoodMessage, Sure, Goes, Passes, I!Settled

LEMMA Arrived ==
  ASSUME NEW c, GoodCall(c), Head(c.rounds) = {}
  PROVE  /\ ~c.route /\ AliasRounds(c.rounds)
         /\ Sure(c) => \A e \in AliasEnds : c.walk[e].at = I!Follow(alias, c.given[e])
<1>1. ~c.route
  <2>1. c.rounds # <<{"self"}>>
    OBVIOUS
  <2>. QED
    BY <2>1 DEF GoodCall
<1>2. AliasRounds(c.rounds) /\ c.rounds \in Seq(SUBSET AliasEnds)
  BY <1>1 DEF GoodCall, AliasCalls
<1>3. c.rounds[1] = {}
  BY <1>2 DEF AliasRounds
<1>4. Unresolved(c.rounds) = {}
  BY <1>3 DEF Unresolved
<1>. QED
  BY <1>1, <1>2, <1>4 DEF GoodCall, Goes

\* What a settled chain leads to is so before a remint that keeps it.
LEMMA SettledBefore ==
  ASSUME alias \in AliasTables, NEW old \in AgentIds, NEW new \in AgentIds,
         alias' = [alias EXCEPT ![old] = new], NEW given \in [AliasEnds -> AgentIds],
         \A e \in AliasEnds : I!Follow(alias', given[e]) = I!Follow(alias, given[e]),
         I!Settled(given)'
  PROVE  I!Settled(given)
<1>1. ASSUME NEW e \in AliasEnds PROVE alias[I!Follow(alias, given[e])] = None
  <2>1. PICK x \in AgentIds : x = I!Follow(alias, given[e])
    <3>1. PICK c : Leads(alias, given[e], c) /\ I!Follow(alias, given[e]) = c[MaxAliases]
      BY FollowLeads
    <3>. QED
      BY <3>1, AliasConstants DEF Leads
  <2>2. alias'[I!Follow(alias', given[e])] = None
    BY <1>1, Around DEF I!Settled
  <2>3. alias'[x] = None
    BY <1>1, <2>1, <2>2
  <2>. QED
    BY <2>1, <2>3, AliasConstants DEF AliasTables
<1>. QED
  BY <1>1, Around DEF I!Settled

LEMMA RemintStep ==
  ASSUME AliasInv, NEW old \in AgentIds, NEW new \in AgentIds, I!RecordRemint(old, new)
  PROVE  AliasInv'
<1>. DEFINE Same(given) ==
              \A e \in AliasEnds : I!Follow(alias', given[e]) = I!Follow(alias, given[e])
            Passed(walk) == \E e \in AliasEnds : old \in walk[e].seen \ {walk[e].at}
<1>1. /\ alias \in AliasTables /\ alias' = [alias EXCEPT ![old] = new]
      /\ messages' = {[m EXCEPT !.fresh = m.fresh /\ Same(m.given)] : m \in messages}
      /\ walker' = [i \in Walkers |->
           IF walker[i] # None
           THEN [walker[i] EXCEPT
                  !.fresh = walker[i].fresh /\ Same(walker[i].given) /\ ~Passed(walker[i].walk)]
           ELSE None]
  BY Around DEF AliasInv, I!RecordRemint, I!Busy
<1>. HIDE DEF Same, Passed
<1>2. alias' \in AliasTables
  BY <1>1 DEF AliasTables
<1>3. ASSUME NEW given \in [AliasEnds -> AgentIds], Same(given), I!Settled(given)'
      PROVE  /\ I!Settled(given)
             /\ \A e \in AliasEnds : I!Follow(alias', given[e]) = I!Follow(alias, given[e])
  BY <1>1, <1>3, SettledBefore DEF Same
<1>4. ASSUME NEW m \in messages, NEW x \in BOOLEAN, x <=> (m.fresh /\ Same(m.given))
      PROVE  GoodMessage([m EXCEPT !.fresh = x])'
  <2>. DEFINE d == [m EXCEPT !.fresh = x]
  <2>1. GoodMessage(m) /\ m \in AliasMessages
    BY DEF AliasInv, GoodMessage
  <2>2. /\ d \in AliasMessages /\ d.given = m.given /\ d.stored = m.stored /\ d.fresh = x
        /\ m.given \in [AliasEnds -> AgentIds]
    BY <2>1 DEF AliasMessages
  <2>. HIDE DEF d
  <2>3. ASSUME x, I!Settled(d.given)', NEW e \in AliasEnds
        PROVE  d.stored[e] = I!Follow(alias', d.given[e])
    <3>1. /\ I!Settled(m.given) /\ m.fresh
          /\ I!Follow(alias', m.given[e]) = I!Follow(alias, m.given[e])
      BY <1>3, <1>4, <2>2, <2>3
    <3>2. m.stored[e] = I!Follow(alias, m.given[e])
      BY <2>1, <3>1 DEF GoodMessage, Sure
    <3>. QED
      BY <2>2, <3>1, <3>2
  <2>. QED
    <3>1. GoodMessage(d)'
      BY <2>2, <2>3 DEF GoodMessage, Sure
    <3>. QED
      BY <3>1 DEF d
<1>5. ASSUME NEW c, GoodCall(c), NEW x \in BOOLEAN,
             x <=> (c.fresh /\ Same(c.given) /\ ~Passed(c.walk))
      PROVE  GoodCall([c EXCEPT !.fresh = x])'
  <2>. DEFINE d == [c EXCEPT !.fresh = x]
  <2>1. c \in AliasCalls
    BY <1>5 DEF GoodCall
  <2>2. /\ d \in AliasCalls /\ d.given = c.given /\ d.named = c.named /\ d.walk = c.walk
        /\ d.route = c.route /\ d.rounds = c.rounds /\ d.fresh = x
        /\ c.given \in [AliasEnds -> AgentIds]
    BY <2>1 DEF AliasCalls
  <2>. HIDE DEF d
  <2>3. ASSUME x, I!Settled(d.given)', NEW e \in AliasEnds PROVE Goes(d, e)'
    <3>1. /\ I!Settled(c.given) /\ c.fresh
          /\ I!Follow(alias', c.given[e]) = I!Follow(alias, c.given[e])
      BY <1>3, <1>5, <2>2, <2>3
    <3>2. Goes(c, e)
      BY <1>5, <2>3, <3>1 DEF GoodCall, Sure
    <3>3. c.walk[e] \in AliasWalks /\ old \notin c.walk[e].seen \ {c.walk[e].at}
      BY <1>5, <2>1, <2>3 DEF AliasCalls, Passed
    <3>4. Passes(c.walk[e])'
      <4>1. PICK w \in AliasWalks : w = c.walk[e]
        BY <3>3
      <4>2. Passes(w) /\ old \notin w.seen \ {w.at}
        BY <3>2, <3>3, <4>1 DEF Goes
      <4>3. \A y \in AgentIds \ {old} : alias'[y] = alias[y]
        BY <1>1 DEF AliasTables
      <4>4. Passes(w)'
        BY <1>1, <1>2, <4>2, <4>3, WalkIsPassed
      <4>. QED
        BY <4>1, <4>4
    <3>. QED
      BY <2>2, <3>1, <3>2, <3>4 DEF Goes
  <2>. QED
    <3>1. IF d.route THEN d.rounds = <<{"self"}>> ELSE AliasRounds(d.rounds)
      BY <1>5, <2>2 DEF GoodCall
    <3>2. GoodCall(d)'
      BY <2>2, <2>3, <3>1 DEF GoodCall, Sure
    <3>. QED
      BY <3>2 DEF d
<1>6. ASSUME NEW i \in Walkers, walker'[i] # None PROVE GoodCall(walker[i])'
  <2>1. walker[i] # None /\ GoodCall(walker[i])
    BY <1>1, <1>6 DEF AliasInv
  <2>2. PICK c : c = walker[i]
    OBVIOUS
  <2>3. PICK x \in BOOLEAN : x <=> (c.fresh /\ Same(c.given) /\ ~Passed(c.walk))
    OBVIOUS
  <2>4. GoodCall([c EXCEPT !.fresh = x])'
    BY <1>5, <2>1, <2>2, <2>3
  <2>5. walker'[i] = [c EXCEPT !.fresh = x]
    BY <1>1, <2>1, <2>2, <2>3
  <2>. QED
    BY <2>4, <2>5
<1>7. ASSUME NEW m \in messages' PROVE GoodMessage(m)'
  <2>1. PICK n \in messages : m = [n EXCEPT !.fresh = n.fresh /\ Same(n.given)]
    BY <1>1
  <2>2. PICK x \in BOOLEAN : x <=> (n.fresh /\ Same(n.given))
    OBVIOUS
  <2>3. m = [n EXCEPT !.fresh = x]
    BY <2>1, <2>2
  <2>. QED
    BY <1>4, <2>2, <2>3
<1>. QED
  BY <1>1, <1>2, <1>6, <1>7 DEF AliasInv

LEMMA AliasInvOn == ASSUME AliasInv, UNCHANGED aliases PROVE AliasInv'
BY GoodStays DEF AliasInv, aliases

LEMMA AliasStep ==
  ASSUME AliasInv, I!Next
  PROVE  AliasInv'
<1>0. alias \in AliasTables
  BY DEF AliasInv
\* A call goes on, or is over.
<1>1. ASSUME UNCHANGED alias, NEW i \in Walkers, NEW c, c = None \/ GoodCall(c),
             walker' = [walker EXCEPT ![i] = c], \A m \in messages' : GoodMessage(m)
      PROVE  AliasInv'
  <2>1. ASSUME NEW j \in Walkers, walker'[j] # None PROVE GoodCall(walker[j])'
    <3>1. PICK d : d = walker'[j]
      OBVIOUS
    <3>2. GoodCall(d)
      BY <1>1, <2>1, <3>1 DEF AliasInv
    <3>3. GoodCall(d)'
      BY <1>1, <3>2, GoodStays
    <3>. QED
      BY <3>1, <3>3
  <2>2. ASSUME NEW m \in messages' PROVE GoodMessage(m)'
    BY <1>1, GoodStays
  <2>3. walker' = [j \in Walkers |-> walker'[j]] /\ alias' \in AliasTables
    BY <1>0, <1>1 DEF AliasInv
  <2>. QED
    BY <2>1, <2>2, <2>3 DEF AliasInv
<1>2. \A m \in messages : GoodMessage(m)
  BY DEF AliasInv
<1>3. ASSUME NEW i \in Walkers, NEW do \in {"send", "list", "read"}, NEW route \in BOOLEAN,
             NEW self \in AgentIds, NEW peer \in AgentIds, I!Begin(i, do, route, self, peer)
      PROVE  AliasInv'
  <2>. DEFINE named == [self |-> self, peer |-> peer]
              walks == [e \in AliasEnds |-> I!Walk(named[e])]
              r == IF route THEN <<{"self"}>> ELSE I!Rounds(do)
              c == [do |-> do, route |-> route, given |-> named, named |-> named, fresh |-> TRUE,
                    walk |-> walks, rounds |-> r]
  <2>1. UNCHANGED <<alias, messages>> /\ walker' = [walker EXCEPT ![i] = c]
    BY <1>3, Around DEF I!Begin
  <2>2. named \in [AliasEnds -> AgentIds]
    BY DEF AliasEnds
  <2>. HIDE DEF named
  <2>3. walks \in [AliasEnds -> AliasWalks] /\ walks = [e \in AliasEnds |-> I!Walk(named[e])]
    BY <1>0, <2>2, WalkBegins
  <2>4. /\ r \in Seq(SUBSET AliasEnds)
        /\ IF route THEN r = <<{"self"}>> ELSE AliasRounds(r) /\ Unresolved(r) = AliasEnds
    <3>1. <<{"self"}>> \in Seq(SUBSET AliasEnds)
      BY DEF AliasEnds
    <3>. QED
      BY <3>1, RoundsBegin
  <2>. HIDE DEF r, walks
  <2>5. /\ c \in AliasCalls /\ c.route = route /\ c.named = named /\ c.given = named
        /\ c.rounds = r /\ c.walk = walks
    BY <2>2, <2>3, <2>4 DEF AliasCalls
  <2>. HIDE DEF c
  <2>6. GoodCall(c)
    BY <1>0, <2>3, <2>4, <2>5, BegunIsGood
  <2>. QED
    BY <1>1, <1>2, <2>1, <2>6
<1>4. ASSUME NEW i \in Walkers, NEW e \in I!Ends, I!DbLookup(i, e) PROVE AliasInv'
  <2>1. UNCHANGED <<alias, messages>>
    BY <1>4 DEF I!DbLookup
  <2>. QED
    BY <1>1, <1>2, <1>4, <2>1, LookupIsGood
<1>5. ASSUME NEW i \in Walkers, NEW e \in I!Ends, I!LookupFails(i, e) PROVE AliasInv'
  <2>. DEFINE c == walker[i]
              d == [c EXCEPT !.fresh = FALSE]
  <2>1. PICK id \in {c.walk[e].at, c.walk[e].start} :
          walker' = [walker EXCEPT ![i] = I!Rest(d, e, id)]
    BY <1>5 DEF I!LookupFails
  <2>2. /\ UNCHANGED <<alias, messages>> /\ e \in Head(c.rounds) /\ GoodCall(c)
        /\ c \in AliasCalls /\ e \in AliasEnds
    BY <1>5, Around DEF I!LookupFails, I!Resolving, I!Busy, AliasInv, GoodCall
  <2>. HIDE DEF c
  <2>3. id \in AgentIds
    BY <2>1, <2>2 DEF AliasCalls, AliasWalks
  <2>4. /\ d \in AliasCalls /\ d.fresh = FALSE /\ d.rounds = c.rounds /\ d.route = c.route
    BY <2>2 DEF AliasCalls
  <2>. HIDE DEF d
  <2>5. GoodCall(d) /\ ~Sure(d)
    BY <2>2, <2>4 DEF GoodCall, Sure
  <2>6. GoodCall(I!Rest(d, e, id))
    BY <1>0, <2>2, <2>3, <2>4, <2>5, RestIsGood
  <2>. QED
    BY <1>1, <1>2, <2>1, <2>2, <2>6
<1>6. ASSUME NEW i \in Walkers, I!SendDirectMessage(i) PROVE AliasInv'
  <2>. DEFINE c == walker[i]
              ends == [self |-> c.walk["self"].at, peer |-> c.walk["peer"].at]
              m == [given |-> c.given, stored |-> ends, read |-> FALSE, fresh |-> c.fresh]
  <2>1. /\ UNCHANGED alias /\ walker' = [walker EXCEPT ![i] = None]
        /\ messages' = messages \/ messages' = messages \cup {m}
        /\ GoodCall(c) /\ c \in AliasCalls /\ Head(c.rounds) = {}
    BY <1>6 DEF I!SendDirectMessage, I!Leave, I!At, I!Busy, I!To, AliasInv, GoodCall
  <2>. HIDE DEF c
  <2>2. ends \in [AliasEnds -> AgentIds] /\ \A e \in AliasEnds : ends[e] = c.walk[e].at
    BY <2>1 DEF AliasEnds, AliasCalls, AliasWalks
  <2>. HIDE DEF ends
  <2>3. /\ m \in AliasMessages /\ m.given = c.given /\ m.fresh = c.fresh /\ m.stored = ends
    BY <2>1, <2>2 DEF AliasMessages, AliasCalls
  <2>. HIDE DEF m
  <2>4. GoodMessage(m)
    BY <2>1, <2>2, <2>3, Arrived DEF GoodMessage, Sure
  <2>. QED
    BY <1>1, <1>2, <2>1, <2>4
<1>7. ASSUME NEW i \in Walkers, I!ListThread(i) PROVE AliasInv'
  <2>. DEFINE c == walker[i]
  <2>1. /\ UNCHANGED <<alias, messages>> /\ GoodCall(c) /\ c \in AliasCalls
        /\ Head(c.rounds) = {}
        /\ \/ walker' = [walker EXCEPT ![i] = None]
           \/ Len(c.rounds) # 1 /\ walker' = [walker EXCEPT ![i] = I!Restart(c, Tail(c.rounds))]
    BY <1>7 DEF I!ListThread, I!Leave, I!At, I!Busy, AliasInv, GoodCall
  <2>. HIDE DEF c
  <2>2. ASSUME Len(c.rounds) # 1 PROVE GoodCall(I!Restart(c, Tail(c.rounds)))
    <3>1. c.rounds \in Seq(SUBSET AliasEnds) /\ ~c.route /\ AliasRounds(c.rounds)
      BY <2>1, Arrived DEF AliasCalls
    <3>2. PICK r \in Seq(SUBSET AliasEnds) :
            r = Tail(c.rounds) /\ AliasRounds(r) /\ Unresolved(r) = AliasEnds
      BY <2>1, <2>2, <3>1, RoundsAgain
    <3>3. Sure(c) => \A e \in AliasEnds :
            c.named[e] \in {c.given[e], I!Follow(alias, c.given[e])}
      BY <2>1 DEF GoodCall, Goes
    <3>. QED
      BY <1>0, <2>1, <3>1, <3>2, <3>3, RestartIsGood
  <2>. QED
    BY <1>1, <1>2, <2>1, <2>2
<1>8. ASSUME NEW i \in Walkers, I!MarkThreadRead(i) PROVE AliasInv'
  <2>1. /\ UNCHANGED alias /\ walker' = [walker EXCEPT ![i] = None]
        /\ \A m \in messages' : m \in messages
             \/ \E n \in messages : m = [n EXCEPT !.read = TRUE]
    BY <1>8 DEF I!MarkThreadRead, I!Leave
  <2>2. ASSUME NEW n \in messages PROVE GoodMessage([n EXCEPT !.read = TRUE])
    <3>. DEFINE d == [n EXCEPT !.read = TRUE]
    <3>1. n \in AliasMessages /\ GoodMessage(n)
      BY <1>2 DEF GoodMessage
    <3>2. d \in AliasMessages /\ d.given = n.given /\ d.fresh = n.fresh /\ d.stored = n.stored
      BY <3>1 DEF AliasMessages
    <3>. HIDE DEF d
    <3>3. GoodMessage(d)
      BY <3>1, <3>2 DEF GoodMessage, Sure
    <3>. QED
      BY <3>3 DEF d
  <2>3. \A m \in messages' : GoodMessage(m)
    BY <1>2, <2>1, <2>2
  <2>. QED
    BY <1>1, <2>1, <2>3
<1>9. ASSUME I!Browse PROVE AliasInv'
  BY <1>9, AliasInvOn DEF I!Browse, I!aliases, aliases
<1>. QED
  BY <1>3, <1>4, <1>5, <1>6, <1>7, <1>8, <1>9, RemintStep DEF I!Next

\* HistoryKept: however walks, sends, reads and remints interleave, between
\* remints that lead either end elsewhere, or that touch what a walk has
\* passed, a message is kept under where its ends' chains end, and a reader is
\* shown all the two wrote each other and nothing else (identity.ts
\* followAliasChain, recordRemint; channels.ts listThread).
THEOREM HistoryIsKept == Spec => []HistoryKept
<1>1. Init => AliasInv
  <2>. SUFFICES ASSUME Init PROVE AliasInv
    OBVIOUS
  <2>1. I!Init
    BY PartsBegin
  <2>. QED
    BY <2>1 DEF I!Init, AliasInv, AliasTables
<1>2. AliasInv /\ [Next]_vars => AliasInv'
  BY PartsMove, AliasStep, AliasInvOn
<1>3. AliasInv => HistoryKept
  <2>. SUFFICES ASSUME AliasInv PROVE I!HistoryKept
    BY DEF HistoryKept
  <2>1. ASSUME NEW m \in messages, m.fresh, I!Settled(m.given)
        PROVE  \A e \in AliasEnds : m.stored[e] = I!Follow(alias, m.given[e])
    BY <2>1 DEF AliasInv, GoodMessage, Sure
  <2>2. ASSUME NEW i \in Walkers, I!At(i, {"list", "read"}), walker[i].fresh,
               I!Settled(walker[i].given), NEW m \in messages, m.fresh, I!Settled(m.given)
        PROVE  m \in I!Thread(i) <=> I!Persons(m.given) = I!Persons(walker[i].given)
    <3>1. \A e \in AliasEnds : walker[i].walk[e].at = I!Follow(alias, walker[i].given[e])
      BY <2>2, Arrived DEF AliasInv, I!At, I!Busy, Sure
    <3>2. \A e \in AliasEnds : m.stored[e] = I!Follow(alias, m.given[e])
      BY <2>1, <2>2
    <3>3. m \in I!Thread(i) <=>
            {m.stored["self"], m.stored["peer"]}
              = {walker[i].walk["self"].at, walker[i].walk["peer"].at}
      BY <2>2 DEF I!Thread, I!Between, I!To
    <3>4. ASSUME NEW given
          PROVE  I!Persons(given) = {I!Follow(alias, given["self"]), I!Follow(alias, given["peer"])}
      BY DEF I!Persons, I!Ends
    <3>. QED
      BY <3>1, <3>2, <3>3, <3>4 DEF AliasEnds
  <2>. QED
    BY <2>1, <2>2, Around DEF I!HistoryKept
<1>. QED
  BY <1>1, <1>2, <1>3, PTL DEF Spec

-----------------------------------------------------------------------------
(* Sums over finite sets *)

\* The sums of f over the subsets of its domain, an element at a time.
Sums(f, g) ==
  g = [s \in SUBSET DOMAIN f |->
         IF s = {} THEN 0
         ELSE f[CHOOSE x \in s : TRUE] + g[s \ {CHOOSE x \in s : TRUE}]]

LEMMA SmallerSet ==
  ASSUME NEW s, IsFiniteSet(s), s # {}
  PROVE  LET x == CHOOSE y \in s : TRUE
         IN /\ x \in s /\ IsFiniteSet(s \ {x})
            /\ Cardinality(s) \in Nat /\ Cardinality(s \ {x}) \in Nat
            /\ Cardinality(s \ {x}) = Cardinality(s) - 1
<1>1. (CHOOSE y \in s : TRUE) \in s
  OBVIOUS
<1>. QED
  BY <1>1, FS_RemoveElement, FS_CardinalityType

\* Induction over the subsets of a finite set, by their size.
LEMMA EverySubset ==
  ASSUME NEW S, IsFiniteSet(S), NEW T \in SUBSET SUBSET S, {} \in T,
         \A s \in SUBSET S : s # {} /\ s \ {CHOOSE x \in s : TRUE} \in T => s \in T
  PROVE  T = SUBSET S
<1>. DEFINE Sizes == {n \in Nat : \A s \in SUBSET S : Cardinality(s) = n => s \in T}
<1>0. \A s \in SUBSET S : IsFiniteSet(s) /\ Cardinality(s) \in Nat
  BY FS_Subset, FS_CardinalityType
<1>1. 0 \in Sizes
  BY <1>0, FS_EmptySet
<1>2. ASSUME NEW n \in Sizes PROVE n + 1 \in Sizes
  <2>1. SUFFICES ASSUME NEW s \in SUBSET S, Cardinality(s) = n + 1 PROVE s \in T
    OBVIOUS
  <2>2. n \in Nat /\ s # {}
    BY <2>1, FS_EmptySet
  <2>3. Cardinality(s \ {CHOOSE x \in s : TRUE}) = n
    BY <1>0, <2>1, <2>2, SmallerSet
  <2>. QED
    BY <2>2, <2>3
<1>3. Sizes = Nat
  <2>. HIDE DEF Sizes
  <2>1. Sizes \in SUBSET Nat
    BY DEF Sizes
  <2>. QED
    BY ONLY <1>1, <1>2, <2>1, EveryNat
<1>. QED
  BY <1>0, <1>3

LEMMA SumsExist ==
  ASSUME NEW S, IsFiniteSet(S), NEW f, DOMAIN f = S
  PROVE  \E g : Sums(f, g)
<1>. DEFINE x(s) == CHOOSE y \in s : TRUE
            up(g, s) == IF s = {} THEN 0 ELSE f[x(s)] + g[s \ {x(s)}]
            Upto(g, n) == \A s \in SUBSET S : Cardinality(s) <= n => g[s] = up(g, s)
            Sizes == {n \in Nat : \E g : Upto(g, n)}
<1>a. ASSUME NEW s \in SUBSET S PROVE IsFiniteSet(s) /\ Cardinality(s) \in Nat
  BY FS_Subset, FS_CardinalityType
<1>b. ASSUME NEW s \in SUBSET S, s # {}
      PROVE  x(s) \in s /\ Cardinality(s \ {x(s)}) = Cardinality(s) - 1
  BY <1>a, <1>b, SmallerSet
<1>1. 0 \in Sizes
  <2>1. \A s \in SUBSET S : Cardinality(s) <= 0 => s = {}
    <3>1. SUFFICES ASSUME NEW s \in SUBSET S, Cardinality(s) <= 0 PROVE s = {}
      OBVIOUS
    <3>2. IsFiniteSet(s) /\ Cardinality(s) = 0
      BY <1>a, <3>1
    <3>. QED
      BY <3>2, FS_EmptySet
  <2>2. Upto([s \in SUBSET S |-> 0], 0)
    BY <2>1
  <2>. QED
    BY <2>2
<1>2. ASSUME NEW n \in Sizes PROVE n + 1 \in Sizes
  <2>1. PICK g : Upto(g, n)
    OBVIOUS
  <2>. DEFINE h == [s \in SUBSET S |-> up(g, s)]
  <2>2. ASSUME NEW s \in SUBSET S, Cardinality(s) <= n + 1 PROVE h[s] = up(h, s)
    <3>1. CASE s = {}
      BY <3>1
    <3>2. CASE s # {}
      <4>1. s \ {x(s)} \in SUBSET S /\ Cardinality(s \ {x(s)}) <= n
        BY <1>a, <1>b, <2>2, <3>2
      <4>2. g[s \ {x(s)}] = up(g, s \ {x(s)})
        BY <2>1, <4>1
      <4>3. h[s \ {x(s)}] = g[s \ {x(s)}]
        BY <4>1, <4>2
      <4>. QED
        BY <4>3
    <3>. QED
      BY <3>1, <3>2
  <2>. HIDE DEF h, up
  <2>3. Upto(h, n + 1)
    BY <2>2
  <2>. HIDE DEF Upto
  <2>. QED
    BY <2>3
<1>3. Sizes = Nat
  <2>. HIDE DEF Sizes
  <2>1. Sizes \in SUBSET Nat
    BY DEF Sizes
  <2>. QED
    BY ONLY <1>1, <1>2, <2>1, EveryNat
<1>4. PICK g : Upto(g, Cardinality(S))
  <2>1. Cardinality(S) \in Sizes
    BY <1>a, <1>3
  <2>. QED
    BY <2>1
<1>. DEFINE h == [s \in SUBSET S |-> up(g, s)]
<1>5. \A s \in SUBSET S : h[s] = up(h, s)
  <2>1. \A s \in SUBSET S : Cardinality(s) <= Cardinality(S)
    BY FS_Subset
  <2>2. \A s \in SUBSET S : h[s] = g[s]
    BY <1>4, <2>1
  <2>. QED
    BY <2>2
<1>6. Sums(f, h)
  BY <1>5 DEF Sums
<1>. QED
  BY <1>6

Total(f) == (CHOOSE g : Sums(f, g))[DOMAIN f]

LEMMA SumOf ==
  ASSUME NEW S, IsFiniteSet(S), NEW f, DOMAIN f = S
  PROVE  \E g : Sums(f, g) /\ Total(f) = g[S]
BY SumsExist DEF Total

\* What a sum is at a set, in terms of a smaller one.
LEMMA SumsUp ==
  ASSUME NEW f, NEW g, Sums(f, g), NEW s \in SUBSET DOMAIN f
  PROVE  /\ s = {} => g[s] = 0
         /\ s # {} => g[s] = f[CHOOSE x \in s : TRUE] + g[s \ {CHOOSE x \in s : TRUE}]
BY DEF Sums

LEMMA SumInt ==
  ASSUME NEW S, IsFiniteSet(S), NEW f \in [S -> Int]
  PROVE  Total(f) \in Int
<1>1. PICK g : Sums(f, g) /\ Total(f) = g[S]
  BY SumOf
<1>. DEFINE T == {s \in SUBSET S : g[s] \in Int}
<1>2. {} \in T
  <2>1. {} \in SUBSET DOMAIN f
    OBVIOUS
  <2>2. g[{}] = 0
    BY <1>1, <2>1, SumsUp
  <2>. QED
    BY <2>2
<1>3. ASSUME NEW s \in SUBSET S, s # {}, s \ {CHOOSE x \in s : TRUE} \in T PROVE s \in T
  <2>1. (CHOOSE x \in s : TRUE) \in s
    BY <1>3
  <2>2. f[CHOOSE x \in s : TRUE] \in Int
    BY <2>1
  <2>3. g[s] = f[CHOOSE x \in s : TRUE] + g[s \ {CHOOSE x \in s : TRUE}]
    BY <1>1, <1>3, SumsUp
  <2>. QED
    BY <1>3, <2>2, <2>3
<1>4. T = SUBSET S
  <2>. HIDE DEF T
  <2>1. T \in SUBSET SUBSET S
    BY DEF T
  <2>. QED
    BY ONLY <1>2, <1>3, <2>1, IsFiniteSet(S), EverySubset
<1>5. S \in T
  BY <1>4
<1>. QED
  BY <1>1, <1>5

\* Changing one term changes the sum by as much.
LEMMA SumEdit ==
  ASSUME NEW S, IsFiniteSet(S), NEW f \in [S -> Int], NEW h \in [S -> Int], NEW e \in S,
         \A x \in S \ {e} : h[x] = f[x]
  PROVE  Total(h) = Total(f) + (h[e] - f[e])
<1>1. PICK g : Sums(f, g) /\ Total(f) = g[S]
  BY SumOf
<1>2. PICK k : Sums(h, k) /\ Total(h) = k[S]
  BY SumOf
<1>. DEFINE T == {s \in SUBSET S : /\ g[s] \in Int
                                   /\ k[s] = g[s] + IF e \in s THEN h[e] - f[e] ELSE 0}
<1>3. {} \in T
  <2>1. {} \in SUBSET DOMAIN f /\ {} \in SUBSET DOMAIN h
    OBVIOUS
  <2>2. g[{}] = 0 /\ k[{}] = 0
    BY <1>1, <1>2, <2>1, SumsUp
  <2>. QED
    BY <2>2
<1>4. ASSUME NEW s \in SUBSET S, s # {}, s \ {CHOOSE x \in s : TRUE} \in T PROVE s \in T
  <2>1. PICK c \in s : c = CHOOSE x \in s : TRUE
    BY <1>4
  <2>0. s \in SUBSET DOMAIN f /\ s \in SUBSET DOMAIN h
    OBVIOUS
  <2>2. g[s] = f[c] + g[s \ {c}]
    BY ONLY <1>1, s # {}, <2>0, <2>1, SumsUp
  <2>3. k[s] = h[c] + k[s \ {c}]
    BY ONLY <1>2, s # {}, <2>0, <2>1, SumsUp
  <2>4. f[c] \in Int /\ h[c] \in Int /\ f[e] \in Int /\ h[e] \in Int
    OBVIOUS
  <2>5. s \ {c} \in T
    BY <1>4, <2>1
  <2>6. CASE c = e
    BY <2>2, <2>3, <2>4, <2>5, <2>6
  <2>7. CASE c # e
    <3>1. h[c] = f[c] /\ (e \in s <=> e \in s \ {c})
      BY <2>7
    <3>. QED
      BY <2>2, <2>3, <2>4, <2>5, <3>1
  <2>. QED
    BY <2>6, <2>7
<1>5. T = SUBSET S
  <2>. HIDE DEF T
  <2>1. T \in SUBSET SUBSET S
    BY DEF T
  <2>. QED
    BY ONLY <1>3, <1>4, <2>1, IsFiniteSet(S), EverySubset
<1>6. S \in T
  BY <1>5
<1>. QED
  BY <1>1, <1>2, <1>6

\* Nothing adds up to nothing.
LEMMA SumZero ==
  ASSUME NEW S, IsFiniteSet(S), NEW f, DOMAIN f = S, \A x \in S : f[x] = 0
  PROVE  Total(f) = 0
<1>1. PICK g : Sums(f, g) /\ Total(f) = g[S]
  BY SumOf
<1>. DEFINE T == {s \in SUBSET S : g[s] = 0}
<1>2. {} \in T
  <2>1. {} \in SUBSET DOMAIN f
    OBVIOUS
  <2>2. g[{}] = 0
    BY <1>1, <2>1, SumsUp
  <2>. QED
    BY <2>2
<1>3. ASSUME NEW s \in SUBSET S, s # {}, s \ {CHOOSE x \in s : TRUE} \in T PROVE s \in T
  <2>1. f[CHOOSE x \in s : TRUE] = 0
    BY <1>3
  <2>2. g[s] = f[CHOOSE x \in s : TRUE] + g[s \ {CHOOSE x \in s : TRUE}]
    BY <1>1, <1>3, SumsUp, SMTT(30)
  <2>. QED
    BY <1>3, <2>1, <2>2
<1>4. T = SUBSET S
  <2>. HIDE DEF T
  <2>1. T \in SUBSET SUBSET S
    BY DEF T
  <2>. QED
    BY ONLY <1>2, <1>3, <2>1, IsFiniteSet(S), EverySubset
<1>5. S \in T
  BY <1>4
<1>. QED
  BY <1>1, <1>5

-----------------------------------------------------------------------------
(* The metered routes *)

\* What a payer used each month, and what of it is beyond the free calls.
Used(p) == [m \in 1..Months |-> usage[<<p, m>>]]
Excess(p) ==
  [m \in 1..Months |-> IF usage[<<p, m>>] > live.free THEN usage[<<p, m>>] - live.free ELSE 0]

LEMMA BillableIsTotal == ASSUME NEW p PROVE C!Billable(p) = Total(Excess(p))
<1>. DEFINE S == 1..Months
            op(m) == IF usage[<<p, m>>] > live.free THEN usage[<<p, m>>] - live.free ELSE 0
            Iter(g) == g = [s \in SUBSET S |->
                              IF s = {} THEN 0
                              ELSE op(CHOOSE x \in s : TRUE) + g[s \ {CHOOSE x \in s : TRUE}]]
<1>1. C!Billable(p) = (CHOOSE g : Iter(g))[S]
  BY DEF C!Billable, C!MapThenSumSet, C!MapThenFoldSet
<1>2. DOMAIN Excess(p) = S /\ \A m \in S : Excess(p)[m] = op(m)
  BY DEF Excess
<1>3. ASSUME NEW g PROVE Iter(g) <=> Sums(Excess(p), g)
  <2>1. ASSUME NEW s \in SUBSET S, s # {}
        PROVE  op(CHOOSE x \in s : TRUE) = Excess(p)[CHOOSE x \in s : TRUE]
    <3>1. (CHOOSE x \in s : TRUE) \in S
      BY <2>1
    <3>. HIDE DEF op, S
    <3>. QED
      BY <1>2, <3>1
  <2>2. [s \in SUBSET S |-> IF s = {} THEN 0
              ELSE op(CHOOSE x \in s : TRUE) + g[s \ {CHOOSE x \in s : TRUE}]]
        = [s \in SUBSET S |-> IF s = {} THEN 0
              ELSE Excess(p)[CHOOSE x \in s : TRUE] + g[s \ {CHOOSE x \in s : TRUE}]]
    <3>. HIDE DEF op, S
    <3>. QED
      BY <2>1
  <2>. HIDE DEF op, S
  <2>. QED
    BY <1>2, <2>2 DEF Sums
<1>4. (CHOOSE g : Iter(g)) = CHOOSE g : Sums(Excess(p), g)
  <2>. HIDE DEF Iter
  <2>. QED
    BY <1>3
<1>. HIDE DEF Iter
<1>. QED
  BY <1>1, <1>2, <1>4 DEF Total

LEMMA UsedIsTotal ==
  ASSUME NEW p
  PROVE  C!MapThenSumSet(LAMBDA m : usage[<<p, m>>], 1..Months) = Total(Used(p))
<1>. DEFINE S == 1..Months
            op(m) == usage[<<p, m>>]
            Iter(g) == g = [s \in SUBSET S |->
                              IF s = {} THEN 0
                              ELSE op(CHOOSE x \in s : TRUE) + g[s \ {CHOOSE x \in s : TRUE}]]
<1>1. C!MapThenSumSet(LAMBDA m : usage[<<p, m>>], S) = (CHOOSE g : Iter(g))[S]
  BY DEF C!MapThenSumSet, C!MapThenFoldSet
<1>2. DOMAIN Used(p) = S /\ \A m \in S : Used(p)[m] = op(m)
  BY DEF Used
<1>3. ASSUME NEW g PROVE Iter(g) <=> Sums(Used(p), g)
  <2>1. ASSUME NEW s \in SUBSET S, s # {}
        PROVE  op(CHOOSE x \in s : TRUE) = Used(p)[CHOOSE x \in s : TRUE]
    <3>1. (CHOOSE x \in s : TRUE) \in S
      BY <2>1
    <3>. HIDE DEF op, S
    <3>. QED
      BY <1>2, <3>1
  <2>2. [s \in SUBSET S |-> IF s = {} THEN 0
              ELSE op(CHOOSE x \in s : TRUE) + g[s \ {CHOOSE x \in s : TRUE}]]
        = [s \in SUBSET S |-> IF s = {} THEN 0
              ELSE Used(p)[CHOOSE x \in s : TRUE] + g[s \ {CHOOSE x \in s : TRUE}]]
    <3>. HIDE DEF op, S
    <3>. QED
      BY <2>1
  <2>. HIDE DEF op, S
  <2>. QED
    BY <1>2, <2>2 DEF Sums
<1>4. (CHOOSE g : Iter(g)) = CHOOSE g : Sums(Used(p), g)
  <2>. HIDE DEF Iter
  <2>. QED
    BY <1>3
<1>. HIDE DEF Iter
<1>. QED
  BY <1>1, <1>2, <1>4 DEF Total

TollSteps == {"count", "charge", "read", "run", "sign", "store", "meter", "answer"}

\* What the orders of a route's steps have in common: at most one charge, right
\* after the only count, of a payer; a verdict other than "pass" comes of one
\* run, before the receipt; an answer is the last; what is metered has left
\* something before.
Ordered(r) ==
  LET s == r.work
      S == 1..Len(r.work)
  IN /\ s \in Seq(TollSteps) /\ s # <<>>
     /\ r.verdicts \subseteq {"pass", "refuse", "fail"}
     /\ \A i, j \in S : s[i] = "count" /\ s[j] = "count" => i = j
     /\ \A i \in S : s[i] = "charge" => i - 1 \in S /\ s[i - 1] = "count"
     /\ \A i, j \in S : s[i] = "count" /\ s[j] = "charge" => j = i + 1
     /\ \A i \in S : s[i] = "answer" => i = Len(s)
     /\ \A i, j \in S : s[i] = "run" /\ s[j] = "run" /\ i # j => "refuse" \notin r.verdicts
     /\ \A i, j \in S : s[i] = "run" /\ s[j] = "sign" /\ j < i => "refuse" \notin r.verdicts
     /\ \A i \in S : s[i] = "meter" => \E j \in S : j < i /\ s[j] \in {"store", "sign", "run"}
     /\ \A i, j \in S : s[i] = "meter" /\ s[j] = "store" => j < i
     /\ (\E i \in S : s[i] = "count") => C!Pays(r)
     /\ r.free \in Nat

LEMMA RoutesAreOrdered ==
  ASSUME NEW r \in C!Routes
  PROVE  /\ Ordered(r)
         /\ r \in C!Tools => r.work = <<"run", "count", "sign", "meter", "answer">>
<1>. USE CallConstants
<1>1. ASSUME NEW verdicts, verdicts \subseteq {"pass", "refuse", "fail"}
      PROVE  Ordered(C!Tool(verdicts))
  BY <1>1 DEF Ordered, TollSteps, C!Tool, C!Route, C!Sandboxed, C!Pays, C!ToSet
<1>2. CASE r \in C!Tools
  BY <1>1, <1>2 DEF C!Tools, C!PccCompress, C!PccVerify, C!AttestNotarize, C!AttestExactness,
     C!ExactoddsDraw, C!ExactoddsResolve, C!CuniProof, C!TrustreamPack, C!ChamberSeal,
     C!AwlpayQuote, C!PccCompressRun, C!PccVerifyRun, C!NotarizeRun, C!ExactnessRun,
     C!DrawRun, C!ResolveRun, C!ProofRun, C!PackRun, C!SealRun, C!QuoteRun, C!Tool, C!Route,
     C!Fallible, C!Sure, C!Verdicts
<1>3. Ordered(C!ApiVerify)
  BY DEF Ordered, TollSteps, C!ApiVerify, C!Route, C!Open, C!Pays, C!ToSet, C!Sure
<1>4. Ordered(C!V1Verify)
  BY DEF Ordered, TollSteps, C!V1Verify, C!Route, C!Sandboxed, C!Pays, C!ToSet, C!Sure
<1>5. Ordered(C!V2Lookup)
  BY DEF Ordered, TollSteps, C!V2Lookup, C!Route, C!Open, C!Pays, C!ToSet, C!Sure
<1>6. Ordered(C!V3Lock)
  BY DEF Ordered, TollSteps, C!V3Lock, C!Route, C!Open, C!Pays, C!ToSet, C!Sure, C!Fallible
<1>7. Ordered(C!V3Release)
  BY DEF Ordered, TollSteps, C!V3Release, C!Route, C!Open, C!Pays, C!ToSet, C!Sure, C!Fallible
<1>8. Ordered(C!V4Issue)
  BY DEF Ordered, TollSteps, C!V4Issue, C!Route, C!Open, C!Pays, C!ToSet, C!Sure
<1>9. Ordered(C!V4Check)
  BY DEF Ordered, TollSteps, C!V4Check, C!Route, C!Sandboxed, C!Pays, C!ToSet, C!Verdicts
<1>10. Ordered(C!V5Check)
  BY DEF Ordered, TollSteps, C!V5Check, C!Route, C!Sandboxed, C!Pays, C!ToSet, C!Verdicts
<1>11. Ordered(C!V6Stake)
  BY DEF Ordered, TollSteps, C!V6Stake, C!Route, C!Open, C!Pays, C!ToSet, C!Sure, C!Fallible
<1>12. Ordered(C!V6Slash)
  BY DEF Ordered, TollSteps, C!V6Slash, C!Route, C!Open, C!Pays, C!ToSet, C!Sure, C!Fallible
<1>13. Ordered(C!V7Export)
  BY DEF Ordered, TollSteps, C!V7Export, C!Route, C!Open, C!Pays, C!ToSet, C!Sure, C!Fallible
<1>14. Ordered(C!PublicAttest)
  BY DEF Ordered, TollSteps, C!PublicAttest, C!Route, C!Pays, C!ToSet, C!Verdicts, C!Fallible
<1>15. CASE r \notin C!Tools
  BY <1>3, <1>4, <1>5, <1>6, <1>7, <1>8, <1>9, <1>10, <1>11, <1>12, <1>13, <1>14, <1>15
     DEF C!Routes
<1>. QED
  BY <1>2, <1>15

CallRecords ==
  [id : Nat, payer : Payers \cup {None}, over : BOOLEAN, verdict : {"pass", "refuse"},
   todo : Seq(TollSteps)]

\* Where a call is in the steps of its route, and what it has done of them.
Place(c) == Len(live.work) + 1 - Len(c.todo)
Did(c, step) == \E n \in 1..Place(c) - 1 : live.work[n] = step

Midway(c) ==
  /\ c \in CallRecords /\ c.id \in 1..started /\ c.payer \in C!Payer(live)
  /\ Place(c) \in 1..Len(live.work)
  /\ \A i \in 1..Len(c.todo) : c.todo[i] = live.work[Place(c) - 1 + i]

\* What a call has done is there, with the verdict it will answer; one over the
\* free calls was counted, and is charged next if it is not yet.
GoodToll(c) ==
  /\ Midway(c)
  /\ c.verdict = "refuse" => "refuse" \in live.verdicts
  /\ IF Did(c, "run") THEN <<c.id, c.verdict>> \in ran
     ELSE c.verdict = "pass" /\ \A e \in ran : e[1] # c.id
  /\ Did(c, "sign") => <<c.id, c.verdict>> \in signed
  /\ Did(c, "store") => c.id \in kept
  /\ C!Has(live, "charge") /\ c.over => live.work[Place(c)] = "charge" \/ Did(c, "charge")

Underway(w) == call[w].todo # <<>>

CallsTyped ==
  /\ live \in C!Routes /\ trouble \in BOOLEAN
  /\ started \in Nat /\ month \in 1..Months
  /\ usage \in [Payers \X (1..Months) -> Nat] /\ reported \in [Payers -> Nat]
  /\ call \in [Workers -> CallRecords]
  /\ \A w \in Workers : IF Underway(w) THEN GoodToll(call[w]) ELSE call[w] = C!Rest
  /\ \A v, w \in Workers : v # w /\ Underway(v) /\ Underway(w) => call[v].id # call[w].id
  /\ ran \in SUBSET ((1..started) \X {"pass", "refuse"}) /\ IsFiniteSet(ran)
  /\ signed \in SUBSET ((1..started) \X {"pass", "refuse"})
  /\ C!AnswerIsBacked

LEMMA FirstAndRest ==
  ASSUME NEW S, NEW t \in Seq(S)
  PROVE  /\ Len(t) \in Nat /\ (t # <<>> <=> Len(t) # 0)
         /\ t # <<>> =>
              /\ Head(t) = t[1] /\ Tail(t) \in Seq(S) /\ Len(Tail(t)) = Len(t) - 1
              /\ \A i \in 1..Len(t) - 1 : Tail(t)[i] = t[i + 1]
<1>1. Len(t) \in Nat /\ (t # <<>> <=> Len(t) # 0)
  OBVIOUS
<1>2. ASSUME t # <<>>
      PROVE  /\ Head(t) = t[1] /\ Tail(t) \in Seq(S) /\ Len(Tail(t)) = Len(t) - 1
             /\ \A i \in 1..Len(t) - 1 : Tail(t)[i] = t[i + 1]
  BY <1>2, HeadTailProperties
<1>. QED
  BY <1>1, <1>2

LEMMA RestingRecord == C!Rest \in CallRecords /\ C!Rest.todo = <<>>
<1>. DEFINE t == C!Rest
<1>1. t = [id |-> 0, payer |-> None, over |-> FALSE, verdict |-> "pass", todo |-> <<>>]
  BY DEF C!Rest
<1>2. <<>> \in Seq(TollSteps)
  OBVIOUS
<1>. QED
  BY <1>1, <1>2 DEF CallRecords

\* A call of another stays as good while only more is done.
LEMMA GoodTollStays ==
  ASSUME NEW c, GoodToll(c), UNCHANGED live, started \in Nat, started' \in Nat, started <= started',
         ran \subseteq ran', signed \subseteq signed', kept \subseteq kept',
         \A e \in ran' \ ran : e[1] # c.id
  PROVE  GoodToll(c)'
<1>0. /\ c \in CallRecords /\ c.id \in 1..started /\ c.payer \in C!Payer(live)
      /\ Place(c) \in 1..Len(live.work)
      /\ \A i \in 1..Len(c.todo) : c.todo[i] = live.work[Place(c) - 1 + i]
  BY DEF GoodToll, Midway
<1>a. c.id \in 1..started'
  BY <1>0
<1>b. C!Payer(live)' = C!Payer(live) /\ Place(c)' = Place(c)
  BY DEF C!Payer, C!ApiVerify, C!Pays, C!Route, Place
<1>1. Midway(c)'
  BY <1>0, <1>a, <1>b DEF Midway
<1>2. \A step : Did(c, step)' <=> Did(c, step)
  BY DEF Did, Place
<1>3. Place(c)' = Place(c)
  BY DEF Place
<1>4. \A e \in ran' : e \in ran \/ e[1] # c.id
  OBVIOUS
<1>. QED
  BY <1>1, <1>2, <1>3, <1>4 DEF GoodToll

LEMMA CallReplaced ==
  ASSUME CallsTyped, NEW w \in Workers, NEW x \in CallRecords,
         call' = [call EXCEPT ![w] = x], UNCHANGED <<live, trouble, month>>,
         started' \in Nat, started <= started',
         usage' \in [Payers \X (1..Months) -> Nat], reported' \in [Payers -> Nat],
         x = C!Rest \/ GoodToll(x)',
         x = C!Rest \/ \A v \in Workers \ {w} : Underway(v) => call[v].id # x.id,
         ran \subseteq ran', signed \subseteq signed', kept \subseteq kept',
         \A e \in ran' \ ran : \A v \in Workers \ {w} : Underway(v) => e[1] # call[v].id,
         IsFiniteSet(ran'), ran' \in SUBSET ((1..started') \X {"pass", "refuse"}),
         signed' \in SUBSET ((1..started') \X {"pass", "refuse"}),
         C!AnswerIsBacked'
  PROVE  CallsTyped'
<1>1. call' \in [Workers -> CallRecords] /\ call'[w] = x
      /\ \A v \in Workers \ {w} : call'[v] = call[v]
  BY DEF CallsTyped
<1>2. ASSUME NEW v \in Workers, NEW y \in CallRecords, y = call'[v]
      PROVE  IF y.todo # <<>> THEN GoodToll(y)' ELSE y = C!Rest
  <2>1. CASE v = w
    <3>1. ASSUME GoodToll(x)' PROVE x.todo # <<>>
      <4>1. x.todo \in Seq(TollSteps) /\ Len(live.work) + 1 - Len(x.todo) \in 1..Len(live.work)
            /\ live.work \in Seq(TollSteps)
        BY <3>1, RoutesAreOrdered DEF GoodToll, Midway, CallRecords, Place, CallsTyped, Ordered
      <4>2. PICK l \in Nat, n \in Nat : l = Len(live.work) /\ n = Len(x.todo)
        BY ONLY <4>1, FirstAndRest
      <4>3. l + 1 - n \in 1..l
        BY ONLY <4>1, <4>2, Zenon
      <4>4. n # 0
        BY ONLY <4>3, l \in Nat, n \in Nat
      <4>. QED
        BY ONLY <4>1, <4>2, <4>4, FirstAndRest
    <3>2. y = x
      BY <1>1, <1>2, <2>1
    <3>. QED
      BY <3>1, <3>2, RestingRecord
  <2>2. CASE v # w
    <3>1. y = call[v]
      BY <1>1, <1>2, <2>2
    <3>2. IF y.todo # <<>> THEN GoodToll(y) ELSE y = C!Rest
      BY <3>1 DEF CallsTyped, Underway
    <3>3. y.todo # <<>> => GoodToll(y)'
      BY <2>2, <3>1, <3>2, GoodTollStays DEF CallsTyped, Underway
    <3>. QED
      BY <3>2, <3>3
  <2>. QED
    BY <2>1, <2>2
<1>3. \A u, v \in Workers : u # v /\ Underway(u)' /\ Underway(v)' => call'[u].id # call'[v].id
  BY <1>1, RestingRecord DEF CallsTyped, Underway
<1>4. ASSUME NEW v \in Workers
      PROVE  IF Underway(v)' THEN GoodToll(call[v])' ELSE call'[v] = C!Rest
  <2>1. PICK y \in CallRecords : y = call'[v]
    BY <1>1
  <2>2. IF y.todo # <<>> THEN GoodToll(y)' ELSE y = C!Rest
    BY <1>2, <2>1
  <2>. QED
    BY <2>1, <2>2 DEF Underway
<1>. QED
  BY <1>1, <1>3, <1>4 DEF CallsTyped

Follows(w, step, d, x) ==
  /\ call' = [call EXCEPT ![w] = x]
  /\ \/ x = C!Rest /\ Place(call[w]) = Len(live.work)
     \/ /\ Midway(x) /\ Place(x) = Place(call[w]) + 1
        /\ x.id = d.id /\ x.payer = d.payer /\ x.over = d.over /\ x.verdict = d.verdict
        /\ \A s : Did(x, s) <=> Did(call[w], s) \/ s = step

\* A call does the step it is at, and goes on to the next, or is through.
LEMMA CallGoesOn ==
  ASSUME CallsTyped, NEW w \in Workers, NEW step, C!At(w, step), NEW d \in CallRecords,
         d.id = call[w].id, d.payer = call[w].payer, d.todo = call[w].todo, C!Continue(w, d)
  PROVE  /\ Underway(w) /\ GoodToll(call[w])
         /\ Place(call[w]) \in 1..Len(live.work) /\ live.work[Place(call[w])] = step
         /\ UNCHANGED <<live, trouble, month, started>>
         /\ \E x \in CallRecords : Follows(w, step, d, x)
<1>1. PICK c \in CallRecords : c = call[w]
  BY DEF CallsTyped
<1>2. Underway(w) /\ GoodToll(c) /\ c.todo # <<>> /\ Head(c.todo) = step
  BY <1>1 DEF C!At, CallsTyped, Underway
<1>a. live.work \in Seq(TollSteps) /\ c.todo \in Seq(TollSteps)
  BY RoutesAreOrdered DEF CallRecords, CallsTyped, Ordered
<1>b. Len(live.work) \in Nat /\ Len(c.todo) \in Nat /\ Len(c.todo) # 0
  BY ONLY <1>2, <1>a, FirstAndRest
<1>c. PICK s \in Seq(TollSteps), t \in Seq(TollSteps), l \in Nat, n \in Nat :
        s = live.work /\ t = c.todo /\ l = Len(s) /\ n = Len(t)
  BY ONLY <1>a, <1>b
<1>d. n # 0 /\ t # <<>>
  BY ONLY <1>2, <1>b, <1>c
<1>3. PICK p \in 1..l : /\ Place(c) = p /\ p = l + 1 - n
                        /\ \A i \in 1..n : t[i] = s[p - 1 + i]
  <2>1. Place(c) = l + 1 - n
    BY <1>c DEF Place
  <2>. QED
    BY <1>2, <1>c, <2>1 DEF GoodToll, Midway
<1>4. s[p] = step
  <2>1. t[1] = step
    BY <1>2, <1>c, <1>d, FirstAndRest
  <2>2. 1 \in 1..n /\ p - 1 + 1 = p
    BY ONLY <1>c, <1>d, p \in 1..l
  <2>. QED
    BY ONLY <1>3, <2>1, <2>2
<1>5. /\ UNCHANGED <<live, trouble, month, started>>
      /\ call' = [call EXCEPT ![w] = IF n = 1 THEN C!Rest ELSE [d EXCEPT !.todo = Tail(d.todo)]]
  BY <1>1, <1>c DEF C!Continue
<1>6. CASE n = 1
  <2>1. p = l
    BY ONLY <1>3, <1>6, l \in Nat
  <2>. QED
    BY <1>1, <1>2, <1>c, <1>3, <1>4, <1>5, <1>6, <2>1, RestingRecord DEF Follows
<1>7. CASE n # 1
  <2>. DEFINE x == [d EXCEPT !.todo = Tail(d.todo)]
  <2>1. PICK r \in Seq(TollSteps) : r = Tail(t) /\ Len(r) = n - 1
                                    /\ \A i \in 1..n - 1 : r[i] = t[i + 1]
    <3>1. /\ Tail(t) \in Seq(TollSteps) /\ Len(Tail(t)) = n - 1
          /\ \A i \in 1..n - 1 : Tail(t)[i] = t[i + 1]
      BY ONLY <1>c, <1>d, t \in Seq(TollSteps), FirstAndRest
    <3>. QED
      BY ONLY <3>1
  <2>2. d.todo = t /\ d.id = c.id /\ d.payer = c.payer
    BY <1>1, <1>c
  <2>3. /\ x \in CallRecords /\ x.todo = r /\ x.id = d.id /\ x.payer = d.payer
        /\ x.over = d.over /\ x.verdict = d.verdict
    BY <2>1, <2>2 DEF CallRecords
  <2>4. call' = [call EXCEPT ![w] = x]
    BY <1>5, <1>7
  <2>. HIDE DEF x
  <2>5. Place(x) = l + 1 - (n - 1)
    BY <1>c, <2>1, <2>3 DEF Place
  <2>6. Place(x) = p + 1 /\ p + 1 \in 1..l /\ \A j : j \in 1..p <=> j \in 1..p - 1 \/ j = p
    BY ONLY <1>3, <1>7, <1>d, <2>5, l \in Nat, n \in Nat
  <2>7. ASSUME NEW i \in 1..n - 1 PROVE r[i] = s[p + i]
    <3>1. i + 1 \in 1..n /\ p - 1 + (i + 1) = p + i
      BY ONLY i \in 1..n - 1, n \in Nat, p \in 1..l, l \in Nat
    <3>. QED
      BY ONLY <1>3, <2>1, <3>1, i \in 1..n - 1
  <2>8. Midway(x)
    <3>1. \A i \in 1..Len(x.todo) : x.todo[i] = live.work[Place(x) - 1 + i]
      <4>1. Place(x) - 1 = p
        BY ONLY <2>6, p \in 1..l, l \in Nat
      <4>. QED
        BY <1>c, <2>1, <2>3, <2>7, <4>1
    <3>2. Place(x) \in 1..Len(live.work) /\ c.id \in 1..started /\ c.payer \in C!Payer(live)
      BY <1>c, <1>2, <2>6 DEF GoodToll, Midway
    <3>. QED
      BY <2>2, <2>3, <3>1, <3>2 DEF Midway
  <2>9. ASSUME NEW k PROVE Did(x, k) <=> Did(c, k) \/ k = step
    <3>1. Place(x) - 1 = p
      BY ONLY <2>6, p \in 1..l, l \in Nat
    <3>. QED
      BY <1>c, <1>3, <1>4, <2>6, <3>1 DEF Did
  <2>. QED
    BY <1>1, <1>2, <1>c, <1>3, <1>4, <1>5, <2>3, <2>4, <2>6, <2>8, <2>9 DEF Follows
<1>. QED
  BY <1>6, <1>7

\* What was answered and metered stays backed.
LEMMA BackedStays ==
  ASSUME C!AnswerIsBacked, UNCHANGED <<live, answered, metered>>,
         ran \subseteq ran', signed \subseteq signed', kept \subseteq kept'
  PROVE  C!AnswerIsBacked'
BY DEF C!AnswerIsBacked, C!Has

LEMMA RouteHas ==
  ASSUME CallsTyped, NEW step
  PROVE  C!Has(live, step) <=> \E n \in 1..Len(live.work) : live.work[n] = step
<1>1. live.work \in Seq(TollSteps)
  BY RoutesAreOrdered DEF CallsTyped, Ordered
<1>. QED
  BY <1>1 DEF C!Has, C!ToSet

\* A call that did its step is as good as before.
LEMMA StepIsGood ==
  ASSUME CallsTyped, NEW w \in Workers, NEW step, C!At(w, step), NEW d \in CallRecords,
         d.id = call[w].id, d.payer = call[w].payer, d.todo = call[w].todo, C!Continue(w, d),
         d.verdict = "refuse" => "refuse" \in live.verdicts,
         IF step = "run" THEN ran' = ran \cup {<<d.id, d.verdict>>}
         ELSE ran' = ran /\ d.verdict = call[w].verdict,
         IF step = "sign" THEN signed' = signed \cup {<<d.id, d.verdict>>}
         ELSE signed' = signed,
         IF step = "store" THEN kept' = kept \cup {d.id} ELSE kept' = kept,
         step # "count" => d.over = call[w].over,
         usage' \in [Payers \X (1..Months) -> Nat], reported' \in [Payers -> Nat],
         C!AnswerIsBacked'
  PROVE  CallsTyped'
<1>1. PICK c \in CallRecords : c = call[w]
  BY DEF CallsTyped
<1>2. /\ Underway(w) /\ GoodToll(c)
      /\ Place(c) \in 1..Len(live.work) /\ live.work[Place(c)] = step
      /\ UNCHANGED <<live, trouble, month, started>>
  BY <1>1, CallGoesOn
<1>3. PICK x \in CallRecords :
        /\ call' = [call EXCEPT ![w] = x]
        /\ \/ x = C!Rest
           \/ /\ Midway(x) /\ Place(x) = Place(c) + 1
              /\ x.id = d.id /\ x.payer = d.payer /\ x.over = d.over /\ x.verdict = d.verdict
              /\ \A s : Did(x, s) <=> Did(c, s) \/ s = step
  <2>1. \E x \in CallRecords : Follows(w, step, d, x)
    BY CallGoesOn
  <2>. QED
    BY <1>1, <2>1 DEF Follows
<1>4. PICK k \in Nat : k = Place(c)
  <2>1. Len(live.work) \in Nat
    BY RoutesAreOrdered, FirstAndRest DEF CallsTyped, Ordered
  <2>. QED
    BY <1>2, <2>1
<1>5. /\ c.id = d.id /\ d.id \in 1..started
      /\ c.verdict = "refuse" => "refuse" \in live.verdicts
      /\ IF Did(c, "run") THEN <<d.id, c.verdict>> \in ran
         ELSE c.verdict = "pass" /\ \A e \in ran : e[1] # d.id
      /\ Did(c, "sign") => <<d.id, c.verdict>> \in signed
      /\ Did(c, "store") => d.id \in kept
      /\ C!Has(live, "charge") /\ c.over => step = "charge" \/ Did(c, "charge")
  BY <1>1, <1>2 DEF GoodToll, Midway
<1>6. c.verdict \in {"pass", "refuse"} /\ d.verdict \in {"pass", "refuse"}
  BY DEF CallRecords
<1>7. /\ ran \subseteq ran' /\ signed \subseteq signed' /\ kept \subseteq kept'
      /\ IsFiniteSet(ran') /\ ran' \in SUBSET ((1..started) \X {"pass", "refuse"})
      /\ signed' \in SUBSET ((1..started) \X {"pass", "refuse"})
  <2>1. /\ ran \in SUBSET ((1..started) \X {"pass", "refuse"}) /\ IsFiniteSet(ran)
        /\ signed \in SUBSET ((1..started) \X {"pass", "refuse"})
    BY DEF CallsTyped
  <2>2. IsFiniteSet(ran \cup {<<d.id, d.verdict>>})
    BY <2>1, FS_AddElement
  <2>3. <<d.id, d.verdict>> \in (1..started) \X {"pass", "refuse"}
    BY <1>5, <1>6
  <2>4. ran \subseteq ran' /\ ran' \subseteq ran \cup {<<d.id, d.verdict>>} /\ IsFiniteSet(ran')
    BY <2>1, <2>2
  <2>5. signed \subseteq signed' /\ signed' \subseteq signed \cup {<<d.id, d.verdict>>}
    OBVIOUS
  <2>6. kept \subseteq kept'
    OBVIOUS
  <2>. QED
    BY <2>1, <2>3, <2>4, <2>5, <2>6
<1>8. ASSUME Midway(x), Place(x) = Place(c) + 1, x.id = d.id, x.over = d.over,
             x.verdict = d.verdict, \A s : Did(x, s) <=> Did(c, s) \/ s = step
      PROVE  GoodToll(x)'
  <2>1. Midway(x)' /\ Place(x)' = k + 1 /\ \A s : Did(x, s)' <=> Did(x, s)
    <3>1. C!Payer(live)' = C!Payer(live) /\ Place(x)' = Place(x)
      BY <1>2 DEF C!Payer, C!ApiVerify, C!Pays, C!Route, Place
    <3>. QED
      BY <1>2, <1>4, <1>8, <3>1 DEF Midway, Did
  <2>2. d.verdict = "refuse" => "refuse" \in live'.verdicts
    BY <1>2
  <2>3. IF Did(x, "run") THEN <<d.id, d.verdict>> \in ran'
        ELSE d.verdict = "pass" /\ \A e \in ran' : e[1] # d.id
    <3>1. CASE step = "run"
      BY <1>8, <3>1
    <3>2. CASE step # "run"
      BY <1>1, <1>5, <1>8, <3>2
    <3>. QED
      BY <3>1, <3>2
  <2>4. Did(c, "sign") /\ step = "run" => c.verdict = d.verdict
    <3>1. SUFFICES ASSUME Did(c, "sign"), step = "run" PROVE c.verdict = d.verdict
      OBVIOUS
    <3>2. PICK j \in 1..Place(c) - 1 : live.work[j] = "sign"
      BY <3>1 DEF Did
    <3>3. j \in 1..Len(live.work) /\ j < Place(c)
      <4>1. PICK l \in Nat : l = Len(live.work)
        BY RoutesAreOrdered, FirstAndRest DEF CallsTyped, Ordered
      <4>2. k \in 1..l /\ j \in 1..k - 1
        BY <1>2, <1>4, <3>2, <4>1
      <4>3. j \in 1..l /\ j < k
        BY ONLY <4>2, l \in Nat, k \in Nat
      <4>. QED
        BY <1>4, <4>1, <4>3
    <3>4. "refuse" \notin live.verdicts
      BY <1>2, <3>1, <3>2, <3>3, RoutesAreOrdered DEF Ordered, CallsTyped
    <3>. QED
      BY <1>5, <1>6, <3>4
  <2>5. Did(x, "sign") => <<d.id, d.verdict>> \in signed'
    <3>1. CASE step = "sign"
      BY <3>1
    <3>2. CASE step # "sign"
      BY <1>1, <1>5, <1>8, <2>4, <3>2
    <3>. QED
      BY <3>1, <3>2
  <2>6. Did(x, "store") => d.id \in kept'
    BY <1>5, <1>8
  <2>7. ASSUME C!Has(live, "charge"), d.over, ~Did(x, "charge")
        PROVE  live.work[k + 1] = "charge"
    <3>1. step # "charge" /\ ~Did(c, "charge")
      BY <1>8, <2>7
    <3>2. step = "count"
      BY <1>1, <1>5, <2>7, <3>1
    <3>3. PICK j \in 1..Len(live.work) : live.work[j] = "charge"
      BY <2>7, RouteHas
    <3>4. j = Place(c) + 1
      BY <1>2, <3>2, <3>3, RoutesAreOrdered DEF Ordered, CallsTyped
    <3>. QED
      BY <1>4, <3>3, <3>4
  <2>8. C!Has(live', "charge") /\ d.over => live'.work[k + 1] = "charge" \/ Did(x, "charge")
    BY <1>2, <2>7
  <2>. QED
    BY <1>8, <2>1, <2>2, <2>3, <2>5, <2>6, <2>8 DEF GoodToll
<1>9. x = C!Rest \/ \A v \in Workers \ {w} : Underway(v) => call[v].id # x.id
  BY <1>1, <1>2, <1>3 DEF CallsTyped
<1>10. \A e \in ran' \ ran : \A v \in Workers \ {w} : Underway(v) => e[1] # call[v].id
  BY <1>1, <1>2 DEF CallsTyped
<1>11. x = C!Rest \/ GoodToll(x)'
  BY <1>3, <1>8
<1>12. /\ started' \in Nat /\ started <= started'
       /\ ran' \in SUBSET ((1..started') \X {"pass", "refuse"})
       /\ signed' \in SUBSET ((1..started') \X {"pass", "refuse"})
  BY <1>2, <1>7 DEF CallsTyped
<1>13. call' = [call EXCEPT ![w] = x] /\ UNCHANGED <<live, trouble, month>>
  BY <1>2, <1>3
<1>. QED
  BY <1>7, <1>9, <1>10, <1>11, <1>12, <1>13, CallReplaced

\* Whoever is at a step of its route.
LEMMA AtStep ==
  ASSUME CallsTyped, NEW w \in Workers, NEW step, C!At(w, step)
  PROVE  /\ call[w] \in CallRecords /\ Underway(w) /\ GoodToll(call[w])
         /\ Place(call[w]) \in 1..Len(live.work) /\ live.work[Place(call[w])] = step
         /\ call[w].verdict = "refuse" => "refuse" \in live.verdicts
         /\ C!Has(live, step)
<1>1. PICK c \in CallRecords : c = call[w]
  BY DEF CallsTyped
<1>2. Underway(w) /\ GoodToll(c) /\ c.todo # <<>> /\ Head(c.todo) = step
  BY <1>1 DEF C!At, CallsTyped, Underway
<1>3. Place(c) \in 1..Len(live.work) /\ c.todo[1] = live.work[Place(c) - 1 + 1]
  <2>1. c.todo \in Seq(TollSteps)
    BY DEF CallRecords
  <2>2. PICK n \in Nat : n = Len(c.todo) /\ n # 0
    BY ONLY <1>2, <2>1, FirstAndRest
  <2>3. 1 \in 1..n
    BY ONLY <2>2
  <2>. QED
    BY <1>2, <2>2, <2>3 DEF GoodToll, Midway
<1>4. c.todo[1] = step
  <2>1. c.todo \in Seq(TollSteps)
    BY DEF CallRecords
  <2>. QED
    BY ONLY <1>2, <2>1, FirstAndRest
<1>5. PICK k \in Nat : k = Place(c) /\ k - 1 + 1 = k
  <2>1. Len(live.work) \in Nat
    BY RoutesAreOrdered, FirstAndRest DEF CallsTyped, Ordered
  <2>. QED
    BY <1>3, <2>1
<1>6. live.work[Place(c)] = step
  BY <1>3, <1>4, <1>5
<1>. QED
  BY <1>1, <1>2, <1>3, <1>6, RouteHas DEF GoodToll

\* What a call that answers has done of its route.
LEMMA AnswerHasDone ==
  ASSUME CallsTyped, NEW w \in Workers, C!At(w, "answer"), NEW step \in {"run", "sign", "store"},
         C!Has(live, step)
  PROVE  Did(call[w], step)
<1>1. PICK k, n \in 1..Len(live.work) :
        k = Place(call[w]) /\ live.work[k] = "answer" /\ live.work[n] = step
  BY AtStep, RouteHas
<1>2. PICK l \in Nat : l = Len(live.work)
  BY RoutesAreOrdered, FirstAndRest DEF CallsTyped, Ordered
<1>3. k = l /\ n # k
  BY <1>1, <1>2, RoutesAreOrdered DEF CallsTyped, Ordered
<1>4. n \in 1..k - 1
  BY ONLY <1>2, <1>3, n \in 1..Len(live.work), k \in 1..Len(live.work)
<1>. QED
  BY <1>1, <1>4 DEF Did

LEMMA MeterHasDone ==
  ASSUME CallsTyped, NEW w \in Workers, C!At(w, "meter")
  PROVE  /\ \E step \in {"store", "sign", "run"} : Did(call[w], step)
         /\ C!Has(live, "store") => Did(call[w], "store")
<1>1. PICK k \in 1..Len(live.work) : k = Place(call[w]) /\ live.work[k] = "meter"
  BY AtStep
<1>2. PICK l \in Nat : l = Len(live.work)
  BY RoutesAreOrdered, FirstAndRest DEF CallsTyped, Ordered
<1>3. \A j \in 1..l : j < k => j \in 1..k - 1
  BY ONLY <1>2, k \in 1..Len(live.work)
<1>4. PICK j \in 1..l : j < k /\ live.work[j] \in {"store", "sign", "run"}
  BY <1>1, <1>2, RoutesAreOrdered DEF CallsTyped, Ordered
<1>5. ASSUME C!Has(live, "store") PROVE Did(call[w], "store")
  <2>1. PICK i \in 1..l : live.work[i] = "store"
    BY <1>2, <1>5, RouteHas
  <2>2. i < k
    BY <1>1, <1>2, <2>1, RoutesAreOrdered DEF CallsTyped, Ordered
  <2>. QED
    BY <1>1, <1>3, <2>1, <2>2 DEF Did
<1>. QED
  BY <1>1, <1>3, <1>4, <1>5 DEF Did

LEMMA TollBegins ==
  ASSUME CallsTyped, NEW w \in Workers, NEW p \in Payers \cup {None}, C!Begin(w, p)
  PROVE  CallsTyped'
<1>0. PICK x : x = [C!Rest EXCEPT !.id = started + 1, !.payer = p, !.todo = live.work]
  OBVIOUS
<1>1. /\ p \in C!Payer(live) /\ started' = started + 1 /\ call' = [call EXCEPT ![w] = x]
      /\ UNCHANGED <<live, trouble, month, usage, reported, ran, signed, kept, metered, answered>>
  BY <1>0 DEF C!Begin
<1>2. /\ started \in Nat /\ live \in C!Routes
      /\ ran \in SUBSET ((1..started) \X {"pass", "refuse"}) /\ IsFiniteSet(ran)
      /\ signed \in SUBSET ((1..started) \X {"pass", "refuse"})
      /\ usage \in [Payers \X (1..Months) -> Nat] /\ reported \in [Payers -> Nat]
      /\ C!AnswerIsBacked
  BY DEF CallsTyped
<1>3. live.work \in Seq(TollSteps) /\ live.work # <<>>
  BY <1>2, RoutesAreOrdered DEF Ordered
<1>4. /\ x \in CallRecords /\ x.id = started + 1 /\ x.payer = p /\ x.todo = live.work
      /\ x.verdict = "pass" /\ x.over = FALSE
  <2>1. PICK n \in Nat : n = started + 1
    BY <1>2
  <2>2. C!Rest \in CallRecords /\ C!Rest.verdict = "pass" /\ C!Rest.over = FALSE
    BY RestingRecord DEF C!Rest
  <2>. QED
    BY <1>0, <1>3, <2>1, <2>2 DEF CallRecords
<1>5. PICK l \in Nat : l = Len(live.work) /\ l # 0
  BY ONLY <1>3, FirstAndRest
<1>6. Place(x) = 1 /\ 1 \in 1..l
  <2>1. Place(x) = l + 1 - l
    BY <1>4, <1>5 DEF Place
  <2>. QED
    BY ONLY <2>1, <1>5
<1>7. \A step : ~Did(x, step)
  BY <1>6 DEF Did
<1>8. started' \in Nat /\ started <= started' /\ x.id \in 1..started' /\ x.id \notin 1..started
  BY ONLY <1>1, <1>2, <1>4
<1>9. Midway(x)'
  <2>1. C!Payer(live)' = C!Payer(live) /\ Place(x)' = 1
    BY <1>1, <1>6 DEF C!Payer, C!ApiVerify, C!Pays, C!Route, Place
  <2>2. \A i \in 1..l : 1 - 1 + i = i
    OBVIOUS
  <2>3. \A i \in 1..Len(x.todo) : x.todo[i] = live.work[1 - 1 + i]
    BY <1>4, <1>5, <2>2
  <2>. QED
    BY <1>1, <1>4, <1>5, <1>6, <1>8, <2>1, <2>3 DEF Midway
<1>10. \A e \in ran : e[1] # x.id
  BY <1>2, <1>8
<1>11. GoodToll(x)'
  <2>1. \A step : Did(x, step)' <=> Did(x, step)
    BY <1>1 DEF Did, Place
  <2>. QED
    BY <1>1, <1>4, <1>7, <1>9, <1>10, <2>1 DEF GoodToll
<1>12. \A v \in Workers : Underway(v) => call[v].id # x.id
  BY <1>8 DEF CallsTyped, GoodToll, Midway
<1>13. /\ ran' \in SUBSET ((1..started') \X {"pass", "refuse"}) /\ IsFiniteSet(ran')
       /\ signed' \in SUBSET ((1..started') \X {"pass", "refuse"})
  <2>1. 1..started \subseteq 1..started'
    BY ONLY <1>2, <1>8
  <2>. QED
    BY <1>1, <1>2, <2>1
<1>14. C!AnswerIsBacked'
  BY <1>1, <1>2, BackedStays
<1>15. /\ UNCHANGED <<live, trouble, month>> /\ ran \subseteq ran' /\ signed \subseteq signed'
       /\ kept \subseteq kept' /\ usage' \in [Payers \X (1..Months) -> Nat]
       /\ reported' \in [Payers -> Nat] /\ call' = [call EXCEPT ![w] = x] /\ x \in CallRecords
       /\ ran' \ ran = {}
  BY <1>1, <1>2, <1>4
<1>. QED
  BY <1>8, <1>11, <1>12, <1>13, <1>14, <1>15, CallReplaced

LEMMA CallsStay ==
  ASSUME CallsTyped,
         UNCHANGED <<live, trouble, call, started, ran, signed, kept, metered, answered>>,
         month' \in 1..Months, usage' \in [Payers \X (1..Months) -> Nat],
         reported' \in [Payers -> Nat]
  PROVE  CallsTyped'
<1>1. ASSUME NEW w \in Workers PROVE GoodToll(call[w]) => GoodToll(call[w])'
  <2>1. PICK c : c = call[w] /\ c = call'[w]
    OBVIOUS
  <2>2. started \in Nat /\ started <= started
    BY DEF CallsTyped
  <2>3. GoodToll(c) => GoodToll(c)'
    BY <2>2, GoodTollStays
  <2>. QED
    BY <2>1, <2>3
<1>2. C!AnswerIsBacked'
  BY BackedStays DEF CallsTyped
<1>. QED
  BY <1>1, <1>2 DEF CallsTyped, Underway

\* What a step of a call leaves alone keeps its shape.
LEMMA TollShapes ==
  ASSUME CallsTyped
  PROVE  /\ usage \in [Payers \X (1..Months) -> Nat] /\ reported \in [Payers -> Nat]
         /\ C!AnswerIsBacked /\ month \in 1..Months /\ started \in Nat
BY DEF CallsTyped

LEMMA TollCounts ==
  ASSUME CallsTyped, NEW w \in Workers, C!Count(w) PROVE CallsTyped'
<1>1. /\ C!At(w, "count") /\ UNCHANGED <<reported, ran, signed, kept, metered, answered>>
      /\ usage' = usage \/ usage' = [usage EXCEPT ![<<call[w].payer, month>>] =
                                       usage[<<call[w].payer, month>>] + 1]
      /\ \E over \in BOOLEAN : C!Continue(w, [call[w] EXCEPT !.over = over])
  <2>1. C!Continue(w, call[w]) => C!Continue(w, [call[w] EXCEPT !.over = call[w].over])
        /\ call[w].over \in BOOLEAN
    <3>1. PICK c \in CallRecords : c = call[w]
      BY DEF CallsTyped
    <3>2. c = [c EXCEPT !.over = c.over] /\ c.over \in BOOLEAN
      BY DEF CallRecords
    <3>. QED
      BY <3>1, <3>2
  <2>2. PICK late \in BOOLEAN : late <=> usage[<<call[w].payer, month>>] + 1 > live.free
    OBVIOUS
  <2>3. [call[w] EXCEPT !.over = late]
          = [call[w] EXCEPT !.over = usage[<<call[w].payer, month>>] + 1 > live.free]
    BY <2>2
  <2>. QED
    BY <2>1, <2>2, <2>3 DEF C!Count
<1>2. PICK over \in BOOLEAN : C!Continue(w, [call[w] EXCEPT !.over = over])
  BY <1>1
<1>3. PICK c \in CallRecords : c = call[w]
  BY DEF CallsTyped
<1>4. PICK d \in CallRecords :
        /\ C!Continue(w, d)
        /\ d.id = c.id /\ d.payer = c.payer /\ d.todo = c.todo /\ d.verdict = c.verdict
  <2>. DEFINE d == [c EXCEPT !.over = over]
  <2>1. d \in CallRecords /\ d.id = c.id /\ d.payer = c.payer /\ d.todo = c.todo
        /\ d.verdict = c.verdict
    BY DEF CallRecords
  <2>. QED
    BY <1>2, <1>3, <2>1
<1>5. d.verdict = "refuse" => "refuse" \in live.verdicts
  BY <1>1, <1>3, <1>4, AtStep
<1>6. usage' \in [Payers \X (1..Months) -> Nat] /\ reported' \in [Payers -> Nat]
  BY <1>1, TollShapes
<1>7. C!AnswerIsBacked'
  BY <1>1, <1>4, TollShapes, BackedStays DEF C!Continue
<1>. QED
  BY <1>1, <1>3, <1>4, <1>5, <1>6, <1>7, StepIsGood

LEMMA TollRuns ==
  ASSUME CallsTyped, NEW w \in Workers, C!Run(w) PROVE CallsTyped'
<1>1. PICK v \in live.verdicts \ {"fail"} :
        /\ C!At(w, "run") /\ C!Continue(w, [call[w] EXCEPT !.verdict = v])
        /\ ran' = ran \cup {<<call[w].id, v>>}
        /\ UNCHANGED <<usage, reported, signed, kept, metered, answered>>
  BY DEF C!Run
<1>2. v \in {"pass", "refuse"}
  BY RoutesAreOrdered DEF CallsTyped, Ordered
<1>3. PICK c \in CallRecords : c = call[w]
  BY DEF CallsTyped
<1>4. PICK d \in CallRecords :
        /\ C!Continue(w, d)
        /\ d.id = c.id /\ d.payer = c.payer /\ d.todo = c.todo /\ d.over = c.over
        /\ d.verdict = v
  <2>. DEFINE d == [c EXCEPT !.verdict = v]
  <2>1. d \in CallRecords /\ d.id = c.id /\ d.payer = c.payer /\ d.todo = c.todo
        /\ d.over = c.over /\ d.verdict = v
    BY <1>2 DEF CallRecords
  <2>. QED
    BY <1>1, <1>3, <2>1
<1>5. C!AnswerIsBacked'
  BY <1>1, <1>4, TollShapes, BackedStays DEF C!Continue
<1>6. usage' \in [Payers \X (1..Months) -> Nat] /\ reported' \in [Payers -> Nat]
  BY <1>1, TollShapes
<1>. QED
  BY <1>1, <1>3, <1>4, <1>5, <1>6, StepIsGood

\* A step that only writes.
LEMMA TollWrites ==
  ASSUME CallsTyped, NEW w \in Workers,
         C!Charge(w) \/ C!Read(w) \/ C!Sign(w) \/ C!Store(w) \/ C!Meter(w) \/ C!Answer(w)
  PROVE  CallsTyped'
<1>1. PICK step \in {"charge", "read", "sign", "store", "meter", "answer"} :
        /\ C!At(w, step) /\ C!Continue(w, call[w]) /\ UNCHANGED <<usage, ran>>
        /\ IF step = "sign" THEN signed' = signed \cup {<<call[w].id, call[w].verdict>>}
           ELSE UNCHANGED signed
        /\ IF step = "store" THEN kept' = kept \cup {call[w].id} ELSE UNCHANGED kept
        /\ step # "charge" => UNCHANGED reported
        /\ reported' \in [Payers -> Nat]
        /\ IF step = "meter" THEN metered' \subseteq metered \cup {call[w].id}
           ELSE UNCHANGED metered
        /\ IF step = "answer" THEN answered' = answered \cup {<<call[w].id, call[w].verdict>>}
           ELSE UNCHANGED answered
  <2>1. CASE C!Charge(w)
    <3>1. reported' \in [Payers -> Nat]
      <4>1. UNCHANGED reported
              \/ reported' = [reported EXCEPT ![call[w].payer] = reported[call[w].payer] + 1]
        BY <2>1 DEF C!Charge
      <4>. QED
        BY <4>1, TollShapes
    <3>. QED
      BY <2>1, <3>1 DEF C!Charge
  <2>2. CASE C!Read(w)
    BY <2>2, TollShapes DEF C!Read
  <2>3. CASE C!Sign(w)
    BY <2>3, TollShapes DEF C!Sign
  <2>4. CASE C!Store(w)
    BY <2>4, TollShapes DEF C!Store
  <2>5. CASE C!Meter(w)
    BY <2>5, TollShapes DEF C!Meter
  <2>6. CASE C!Answer(w)
    BY <2>6, TollShapes DEF C!Answer
  <2>. QED
    BY <2>1, <2>2, <2>3, <2>4, <2>5, <2>6
<1>2. /\ call[w] \in CallRecords /\ GoodToll(call[w])
      /\ call[w].verdict = "refuse" => "refuse" \in live.verdicts
  BY <1>1, AtStep
<1>3. UNCHANGED live
  BY <1>1 DEF C!Continue
<1>4. \A s : C!Has(live', s) <=> C!Has(live, s)
  BY <1>3
<1>5. C!AnswerIsBacked'
  <2>1. ASSUME NEW a \in answered'
        PROVE  /\ C!Has(live, "run") => a \in ran
               /\ C!Has(live, "sign") => a \in signed'
               /\ C!Has(live, "store") => a[1] \in kept'
    <3>1. CASE a \in answered
      BY <1>1, <3>1 DEF CallsTyped, C!AnswerIsBacked
    <3>2. CASE a \notin answered
      <4>1. step = "answer" /\ a = <<call[w].id, call[w].verdict>>
        BY <1>1, <3>2
      <4>2. \A s \in {"run", "sign", "store"} : C!Has(live, s) => Did(call[w], s)
        BY <1>1, <4>1, AnswerHasDone
      <4>. QED
        BY <1>1, <1>2, <4>1, <4>2 DEF GoodToll
    <3>. QED
      BY <3>1, <3>2
  <2>2. ASSUME NEW i \in metered'
        PROVE  /\ i \in kept' \/ \E e \in signed' \cup ran : e[1] = i
               /\ C!Has(live, "store") => i \in kept'
    <3>1. CASE i \in metered
      BY <1>1, <3>1 DEF CallsTyped, C!AnswerIsBacked
    <3>2. CASE i \notin metered
      <4>1. step = "meter" /\ i = call[w].id
        BY <1>1, <3>2
      <4>2. /\ \E s \in {"store", "sign", "run"} : Did(call[w], s)
            /\ C!Has(live, "store") => Did(call[w], "store")
        BY <1>1, <4>1, MeterHasDone
      <4>. QED
        BY <1>1, <1>2, <4>1, <4>2 DEF GoodToll
    <3>. QED
      BY <3>1, <3>2
  <2>. QED
    BY <1>1, <1>4, <2>1, <2>2 DEF C!AnswerIsBacked
<1>6. usage' \in [Payers \X (1..Months) -> Nat]
  BY <1>1, TollShapes
<1>. QED
  BY <1>1, <1>2, <1>5, <1>6, StepIsGood

LEMMA TollStops ==
  ASSUME CallsTyped, NEW w \in Workers, C!Stop(w) PROVE CallsTyped'
<1>1. /\ call' = [call EXCEPT ![w] = C!Rest]
      /\ UNCHANGED <<live, trouble, month, usage, reported, started, ran, signed, kept, metered,
                     answered>>
  BY DEF C!Stop
<1>2. started' \in Nat /\ started <= started'
  BY <1>1, TollShapes
<1>3. C!AnswerIsBacked'
  BY <1>1, TollShapes, BackedStays
<1>4. /\ IsFiniteSet(ran') /\ ran' \in SUBSET ((1..started') \X {"pass", "refuse"})
      /\ signed' \in SUBSET ((1..started') \X {"pass", "refuse"})
      /\ usage' \in [Payers \X (1..Months) -> Nat] /\ reported' \in [Payers -> Nat]
      /\ ran' \ ran = {}
  BY <1>1 DEF CallsTyped
<1>5. C!Rest \in CallRecords /\ UNCHANGED <<live, trouble, month>>
      /\ ran \subseteq ran' /\ signed \subseteq signed' /\ kept \subseteq kept'
  BY <1>1, RestingRecord
<1>6. \A e \in ran' \ ran : \A v \in Workers \ {w} : Underway(v) => e[1] # call[v].id
  BY <1>4
<1>. QED
  BY <1>1, <1>2, <1>3, <1>4, <1>5, <1>6, CallReplaced

LEMMA CallsTypedOn == ASSUME CallsTyped, C!Next \/ UNCHANGED calls PROVE CallsTyped'
<1>1. ASSUME UNCHANGED calls PROVE CallsTyped'
  BY <1>1, CallsStay, TollShapes DEF calls
<1>2. ASSUME NEW look, C!Refused(look) PROVE CallsTyped'
  BY <1>1, <1>2 DEF C!Refused, C!vars, calls
<1>3. ASSUME C!NewMonth PROVE CallsTyped'
  <2>1. month' \in 1..Months
    BY <1>3, CallConstants, TollShapes DEF C!NewMonth
  <2>. QED
    BY <1>3, <2>1, CallsStay, TollShapes DEF C!NewMonth
<1>. QED
  BY <1>1, <1>2, <1>3, TollBegins, TollCounts, TollRuns, TollWrites, TollStops DEF C!Next

LEMMA CallsBegin == ASSUME C!Init PROVE CallsTyped
<1>1. /\ live \in C!Routes /\ trouble \in BOOLEAN /\ month = 1 /\ started = 0
      /\ usage = [pm \in Payers \X (1..Months) |-> 0] /\ reported = [p \in Payers |-> 0]
      /\ call = [w \in Workers |-> C!Rest]
      /\ ran = {} /\ signed = {} /\ metered = {} /\ answered = {}
  BY DEF C!Init
<1>2. month \in 1..Months
  BY <1>1, CallConstants
<1>3. C!AnswerIsBacked
  BY <1>1 DEF C!AnswerIsBacked
<1>4. call \in [Workers -> CallRecords] /\ \A w \in Workers : call[w] = C!Rest /\ ~Underway(w)
  BY <1>1, RestingRecord DEF Underway
<1>. QED
  BY <1>1, <1>2, <1>3, <1>4, FS_EmptySet DEF CallsTyped

-----------------------------------------------------------------------------
(* What is counted and charged *)

\* A call that is to be charged, or counted, next.
Owes(c, p) == c.payer = p /\ c.over /\ c.todo # <<>> /\ Head(c.todo) = "charge"
Waits(c, p) == c.payer = p /\ c.todo # <<>> /\ Head(c.todo) = "count"
Owing(p) == {w \in Workers : Owes(call[w], p)}
Uncounted(p) == {w \in Workers : Waits(call[w], p)}

\* What is beyond the free calls was reported, is about to be, or was lost.
ChargesMatch ==
  \A p \in Payers :
    IF p \in Customers /\ C!Has(live, "charge")
    THEN /\ reported[p] + Cardinality(Owing(p)) <= Total(Excess(p))
         /\ ~trouble => reported[p] + Cardinality(Owing(p)) = Total(Excess(p))
    ELSE reported[p] = 0

\* A tool that counts has run.
Counts ==
  live \in C!Tools =>
    \A p \in Payers : Total(Used(p)) + Cardinality(Uncounted(p)) <= Cardinality(ran)

CallsInv == CallsTyped /\ ChargesMatch /\ Counts

LEMMA MonthsTotal ==
  ASSUME CallsTyped, NEW p \in Payers
  PROVE  /\ IsFiniteSet(1..Months) /\ live.free \in Nat
         /\ Used(p) \in [1..Months -> Int] /\ Excess(p) \in [1..Months -> Int]
         /\ Total(Used(p)) \in Int /\ Total(Excess(p)) \in Int
<1>1. IsFiniteSet(1..Months)
  BY CallConstants, FS_Interval
<1>2. live.free \in Nat
  BY RoutesAreOrdered DEF CallsTyped, Ordered
<1>3. ASSUME NEW m \in 1..Months PROVE usage[<<p, m>>] \in Nat
  BY DEF CallsTyped
<1>4. Used(p) \in [1..Months -> Int] /\ Excess(p) \in [1..Months -> Int]
  BY <1>2, <1>3 DEF Used, Excess
<1>. QED
  BY <1>1, <1>2, <1>4, SumInt

LEMMA SizesOf ==
  ASSUME NEW p
  PROVE  /\ IsFiniteSet(Owing(p)) /\ Cardinality(Owing(p)) \in Nat
         /\ IsFiniteSet(Uncounted(p)) /\ Cardinality(Uncounted(p)) \in Nat
<1>1. Owing(p) \subseteq Workers /\ Uncounted(p) \subseteq Workers
  BY DEF Owing, Uncounted
<1>. QED
  BY <1>1, CallConstants, FS_Subset, FS_CardinalityType

\* One worker more or less.
LEMMA SizeMoves ==
  ASSUME NEW S, IsFiniteSet(S), NEW w, NEW T,
         (T = S \cup {w} /\ w \notin S) \/ T = S \/ (T = S \ {w} /\ w \in S)
  PROVE  /\ Cardinality(S) \in Nat /\ Cardinality(T) \in Nat
         /\ T = S \cup {w} /\ w \notin S => Cardinality(T) = Cardinality(S) + 1
         /\ T = S \ {w} /\ w \in S => Cardinality(T) = Cardinality(S) - 1
<1>1. Cardinality(S) \in Nat
  BY FS_CardinalityType
<1>2. CASE T = S
  BY <1>1, <1>2
<1>3. CASE T = S \cup {w} /\ w \notin S
  BY <1>1, <1>3, FS_AddElement
<1>4. CASE T = S \ {w} /\ w \in S
  BY <1>1, <1>4, FS_RemoveElement, FS_CardinalityType
<1>. QED
  BY <1>2, <1>3, <1>4

LEMMA QueuesMove ==
  ASSUME CallsTyped, NEW w \in Workers, NEW x, call' = [call EXCEPT ![w] = x], NEW p
  PROVE  /\ Owing(p)' = IF Owes(x, p) THEN Owing(p) \cup {w} ELSE Owing(p) \ {w}
         /\ Uncounted(p)' = IF Waits(x, p) THEN Uncounted(p) \cup {w} ELSE Uncounted(p) \ {w}
         /\ w \in Owing(p) <=> Owes(call[w], p)
         /\ w \in Uncounted(p) <=> Waits(call[w], p)
<1>1. call'[w] = x /\ \A v \in Workers \ {w} : call'[v] = call[v]
  BY DEF CallsTyped
<1>2. \A v \in Workers : v \in Owing(p)' <=> Owes(call'[v], p)
  BY DEF Owing, Owes
<1>3. \A v \in Workers : v \in Uncounted(p)' <=> Waits(call'[v], p)
  BY DEF Uncounted, Waits
<1>4. /\ \A v \in Workers : v \in Owing(p) <=> Owes(call[v], p)
      /\ \A v \in Workers : v \in Uncounted(p) <=> Waits(call[v], p)
      /\ Owing(p) \subseteq Workers /\ Uncounted(p) \subseteq Workers
      /\ Owing(p)' \subseteq Workers /\ Uncounted(p)' \subseteq Workers
  BY DEF Owing, Uncounted
<1>5. \A v : v \in Owing(p)' <=> v \in IF Owes(x, p) THEN Owing(p) \cup {w} ELSE Owing(p) \ {w}
  BY <1>1, <1>2, <1>4
<1>6. \A v : v \in Uncounted(p)'
        <=> v \in IF Waits(x, p) THEN Uncounted(p) \cup {w} ELSE Uncounted(p) \ {w}
  BY <1>1, <1>3, <1>4
<1>. QED
  BY <1>4, <1>5, <1>6

\* The next step of a call on its way is what its route has there.
LEMMA NextStep ==
  ASSUME CallsTyped, NEW x, Midway(x)
  PROVE  x.todo # <<>> /\ Head(x.todo) = live.work[Place(x)]
<1>1. /\ x.todo \in Seq(TollSteps) /\ Place(x) \in 1..Len(live.work)
      /\ \A i \in 1..Len(x.todo) : x.todo[i] = live.work[Place(x) - 1 + i]
  BY DEF Midway, CallRecords
<1>2. PICK l \in Nat, n \in Nat : l = Len(live.work) /\ n = Len(x.todo)
  BY <1>1, RoutesAreOrdered, FirstAndRest DEF CallsTyped, Ordered
<1>3. l + 1 - n \in 1..l /\ Place(x) = l + 1 - n
  BY <1>1, <1>2 DEF Place
<1>4. n # 0 /\ 1 \in 1..n /\ l + 1 - n - 1 + 1 = l + 1 - n
  BY ONLY <1>3, l \in Nat, n \in Nat
<1>5. x.todo # <<>> /\ Head(x.todo) = x.todo[1]
  BY ONLY <1>1, <1>2, <1>4, FirstAndRest
<1>6. x.todo[1] = live.work[l + 1 - n - 1 + 1]
  <2>1. PICK p : p = Place(x)
    OBVIOUS
  <2>2. x.todo[1] = live.work[p - 1 + 1]
    BY <1>1, <1>2, <1>4, <2>1
  <2>. QED
    BY <1>3, <2>1, <2>2
<1>. QED
  BY ONLY <1>3, <1>4, <1>5, <1>6

\* After its step a call is to be charged if it was counted just now and is
\* over, to be counted if the count is next.
LEMMA QueuedNext ==
  ASSUME CallsTyped, NEW w \in Workers, NEW step, C!At(w, step), NEW d \in CallRecords,
         NEW x \in CallRecords, d.payer = call[w].payer, Follows(w, step, d, x), NEW p \in Payers
  PROVE  /\ Owes(x, p) => step = "count" /\ d.payer = p /\ d.over
         /\ step = "count" /\ C!Has(live, "charge") => (Owes(x, p) <=> d.payer = p /\ d.over)
         /\ Waits(x, p) => d.payer = p
         /\ live \in C!Tools /\ Waits(x, p) => step = "run"
<1>1. PICK k, l \in Nat : /\ k = Place(call[w]) /\ l = Len(live.work) /\ k \in 1..l
                          /\ live.work[k] = step
  <2>1. PICK l \in Nat : l = Len(live.work)
    BY RoutesAreOrdered, FirstAndRest DEF CallsTyped, Ordered
  <2>2. Place(call[w]) \in 1..l /\ live.work[Place(call[w])] = step
    BY <2>1, AtStep
  <2>. QED
    BY <2>1, <2>2
<1>2. ASSUME x = C!Rest, NEW q \in Payers PROVE ~Owes(x, q) /\ ~Waits(x, q)
  BY <1>2, CallConstants DEF C!Rest, Owes, Waits
<1>3. ASSUME x # C!Rest
      PROVE  /\ x.payer = d.payer /\ x.over = d.over /\ k + 1 \in 1..l
             /\ x.todo # <<>> /\ Head(x.todo) = live.work[k + 1]
  <2>1. Midway(x) /\ Place(x) = k + 1 /\ x.payer = d.payer /\ x.over = d.over
    BY <1>1, <1>3 DEF Follows
  <2>2. Place(x) \in 1..l
    BY <1>1, <2>1 DEF Midway
  <2>. QED
    BY <2>1, <2>2, NextStep
<1>4. ASSUME k + 1 \in 1..l, live.work[k + 1] = "charge" PROVE step = "count"
  <2>1. live.work[k + 1 - 1] = "count"
    BY <1>1, <1>4, RoutesAreOrdered DEF CallsTyped, Ordered
  <2>2. k + 1 - 1 = k
    OBVIOUS
  <2>. QED
    BY <1>1, <2>1, <2>2
<1>5. ASSUME step = "count", C!Has(live, "charge")
      PROVE  x # C!Rest /\ live.work[k + 1] = "charge"
  <2>1. PICK j \in 1..l : live.work[j] = "charge"
    BY <1>1, <1>5, RouteHas
  <2>2. j = k + 1
    BY <1>1, <1>5, <2>1, RoutesAreOrdered DEF CallsTyped, Ordered
  <2>3. x # C!Rest
    <3>1. k # l
      BY ONLY <2>2, j \in 1..l, k \in Nat, l \in Nat
    <3>2. SUFFICES ASSUME x = C!Rest PROVE FALSE
      OBVIOUS
    <3>3. ~Midway(x)
      BY <3>2, RestingRecord, NextStep
    <3>. QED
      BY <1>1, <3>1, <3>3 DEF Follows
  <2>. QED
    BY <2>1, <2>2, <2>3
<1>6. ASSUME live \in C!Tools, k + 1 \in 1..l, live.work[k + 1] = "count" PROVE step = "run"
  <2>1. live.work = <<"run", "count", "sign", "meter", "answer">>
    BY <1>6, RoutesAreOrdered DEF CallsTyped
  <2>2. l = 5
    BY <1>1, <2>1
  <2>3. k + 1 = 2
    <3>1. k + 1 \in {1, 2, 3, 4, 5}
      BY <1>6, <2>2
    <3>. QED
      BY <1>6, <2>1, <3>1
  <2>4. k = 1
    BY <2>3
  <2>. QED
    BY <1>1, <2>1, <2>4
<1>. QED
  BY <1>2, <1>3, <1>4, <1>5, <1>6 DEF Owes, Waits

\* One call more this month.
LEMMA UsageCounts ==
  ASSUME CallsTyped, NEW q \in Payers, UNCHANGED live, NEW p \in Payers,
         usage' = [usage EXCEPT ![<<q, month>>] = usage[<<q, month>>] + 1]
  PROVE  /\ Total(Used(p)') = Total(Used(p)) + IF p = q THEN 1 ELSE 0
         /\ Total(Excess(p)')
              = Total(Excess(p)) + IF p = q /\ usage[<<q, month>>] + 1 > live.free THEN 1 ELSE 0
<1>1. /\ month \in 1..Months /\ live.free \in Nat /\ IsFiniteSet(1..Months)
      /\ usage \in [Payers \X (1..Months) -> Nat]
      /\ Used(p) \in [1..Months -> Int] /\ Excess(p) \in [1..Months -> Int]
      /\ Total(Used(p)) \in Int /\ Total(Excess(p)) \in Int
  BY MonthsTotal DEF CallsTyped
<1>2. \A m \in 1..Months : /\ <<p, m>> \in Payers \X (1..Months)
                           /\ (<<p, m>> = <<q, month>> <=> p = q /\ m = month)
  OBVIOUS
<1>3. \A m \in 1..Months :
        usage'[<<p, m>>] = IF p = q /\ m = month THEN usage[<<q, month>>] + 1 ELSE usage[<<p, m>>]
  BY <1>1, <1>2
<1>4. \A m \in 1..Months : usage[<<p, m>>] \in Nat /\ usage'[<<p, m>>] \in Nat
  BY <1>1, <1>2, <1>3
<1>5. PICK u, v : u = Used(p)' /\ v = Excess(p)'
  OBVIOUS
<1>6. /\ u = [m \in 1..Months |-> usage'[<<p, m>>]]
      /\ v = [m \in 1..Months |-> IF usage'[<<p, m>>] > live.free
                                   THEN usage'[<<p, m>>] - live.free ELSE 0]
  BY <1>5 DEF Used, Excess
<1>7. u \in [1..Months -> Int] /\ v \in [1..Months -> Int]
  <2>1. ASSUME NEW m \in 1..Months
        PROVE  /\ usage'[<<p, m>>] \in Int
               /\ (IF usage'[<<p, m>>] > live.free THEN usage'[<<p, m>>] - live.free ELSE 0) \in Int
    <3>1. PICK n \in Nat, f \in Nat : n = usage'[<<p, m>>] /\ f = live.free
      BY <1>1, <1>4
    <3>2. n \in Int /\ (IF n > f THEN n - f ELSE 0) \in Int
      BY ONLY n \in Nat, f \in Nat
    <3>. QED
      BY <3>1, <3>2
  <2>. QED
    BY <1>6, <2>1
<1>8. \A m \in 1..Months \ {month} : u[m] = Used(p)[m] /\ v[m] = Excess(p)[m]
  BY <1>3, <1>6 DEF Used, Excess
<1>9. /\ Total(u) = Total(Used(p)) + (u[month] - Used(p)[month])
      /\ Total(v) = Total(Excess(p)) + (v[month] - Excess(p)[month])
  BY <1>1, <1>7, <1>8, SumEdit
<1>10. PICK n \in Nat, f \in Nat : n = usage[<<p, month>>] /\ f = live.free
  BY <1>1, <1>4
<1>11. /\ u[month] = (IF p = q THEN n + 1 ELSE n) /\ Used(p)[month] = n
       /\ v[month] = (IF u[month] > f THEN u[month] - f ELSE 0)
       /\ Excess(p)[month] = (IF n > f THEN n - f ELSE 0)
  BY <1>1, <1>3, <1>6, <1>10 DEF Used, Excess
<1>12. u[month] - Used(p)[month] = IF p = q THEN 1 ELSE 0
  BY ONLY <1>11, n \in Nat
<1>13. v[month] - Excess(p)[month] = IF p = q /\ n + 1 > f THEN 1 ELSE 0
  BY ONLY <1>11, n \in Nat, f \in Nat
<1>14. p = q => usage[<<q, month>>] = n
  BY <1>10
<1>. QED
  BY <1>5, <1>9, <1>12, <1>13, <1>10, <1>14

\* How many are to be charged and to be counted after a call's step.
LEMMA QueueSizes ==
  ASSUME CallsTyped, NEW w \in Workers, NEW step, C!At(w, step), NEW d \in CallRecords,
         d.id = call[w].id, d.payer = call[w].payer, d.todo = call[w].todo, C!Continue(w, d),
         NEW p \in Payers
  PROVE  /\ Cardinality(Owing(p)) \in Nat /\ Cardinality(Owing(p)') \in Nat
         /\ Cardinality(Uncounted(p)) \in Nat /\ Cardinality(Uncounted(p)') \in Nat
         /\ step \notin {"count", "charge"} =>
              Cardinality(Owing(p)') = Cardinality(Owing(p))
         /\ step = "charge" =>
              Cardinality(Owing(p)')
                = Cardinality(Owing(p)) - IF d.payer = p /\ call[w].over THEN 1 ELSE 0
         /\ step = "count" /\ C!Has(live, "charge") =>
              Cardinality(Owing(p)')
                = Cardinality(Owing(p)) + IF d.payer = p /\ d.over THEN 1 ELSE 0
         /\ live \in C!Tools /\ step = "count" =>
              Cardinality(Uncounted(p)')
                = Cardinality(Uncounted(p)) - IF d.payer = p THEN 1 ELSE 0
         /\ live \in C!Tools /\ step = "run" =>
              Cardinality(Uncounted(p)') <= Cardinality(Uncounted(p)) + 1
         /\ live \in C!Tools /\ step \notin {"run", "count"} =>
              Cardinality(Uncounted(p)') = Cardinality(Uncounted(p))
<1>1. PICK x \in CallRecords : Follows(w, step, d, x)
  BY CallGoesOn
<1>2. call' = [call EXCEPT ![w] = x]
  BY <1>1 DEF Follows
<1>3. PICK owing, owed, uncounted, left :
        owing = Owing(p) /\ owed = Owing(p)' /\ uncounted = Uncounted(p) /\ left = Uncounted(p)'
  OBVIOUS
<1>4. /\ owed = (IF Owes(x, p) THEN owing \cup {w} ELSE owing \ {w})
      /\ left = (IF Waits(x, p) THEN uncounted \cup {w} ELSE uncounted \ {w})
      /\ w \in owing <=> Owes(call[w], p)
      /\ w \in uncounted <=> Waits(call[w], p)
  BY <1>2, <1>3, QueuesMove
<1>5. /\ w \in owing <=> step = "charge" /\ d.payer = p /\ call[w].over
      /\ w \in uncounted <=> step = "count" /\ d.payer = p
  BY <1>4 DEF C!At, Owes, Waits
<1>6. /\ Owes(x, p) => step = "count" /\ d.payer = p /\ d.over
      /\ step = "count" /\ C!Has(live, "charge") => (Owes(x, p) <=> d.payer = p /\ d.over)
      /\ live \in C!Tools /\ Waits(x, p) => step = "run"
  BY <1>1, QueuedNext
<1>7. IsFiniteSet(owing) /\ IsFiniteSet(uncounted)
  BY <1>3, SizesOf
<1>8. PICK a, b : a = Cardinality(owing) /\ b = Cardinality(owed)
  OBVIOUS
<1>9. /\ a \in Nat /\ b \in Nat
      /\ owed = owing => b = a
      /\ owed = owing \cup {w} /\ w \notin owing => b = a + 1
      /\ owed = owing \ {w} /\ w \in owing => b = a - 1
  <2>1. \/ owed = owing \cup {w} /\ w \notin owing
        \/ owed = owing
        \/ owed = owing \ {w} /\ w \in owing
    BY <1>4
  <2>. QED
    BY ONLY <1>7, <1>8, <2>1, SizeMoves
<1>10. PICK m, n : m = Cardinality(uncounted) /\ n = Cardinality(left)
  OBVIOUS
<1>11. /\ m \in Nat /\ n \in Nat
       /\ left = uncounted => n = m
       /\ left = uncounted \cup {w} /\ w \notin uncounted => n = m + 1
       /\ left = uncounted \ {w} /\ w \in uncounted => n = m - 1
  <2>1. \/ left = uncounted \cup {w} /\ w \notin uncounted
        \/ left = uncounted
        \/ left = uncounted \ {w} /\ w \in uncounted
    BY <1>4
  <2>. QED
    BY ONLY <1>7, <1>10, <2>1, SizeMoves
<1>12. step \notin {"count", "charge"} => b = a
  <2>1. step \notin {"count", "charge"} => owed = owing
    BY <1>4, <1>5, <1>6
  <2>. QED
    BY <1>9, <2>1
<1>13. ASSUME step = "charge" PROVE b = a - IF d.payer = p /\ call[w].over THEN 1 ELSE 0
  <2>1. owed = owing \ {w}
    BY <1>4, <1>6, <1>13
  <2>2. CASE w \in owing
    BY <1>5, <1>9, <2>1, <2>2
  <2>3. CASE w \notin owing
    BY <1>5, <1>9, <1>13, <2>1, <2>3
  <2>. QED
    BY <2>2, <2>3
<1>14. ASSUME step = "count", C!Has(live, "charge")
       PROVE  b = a + IF d.payer = p /\ d.over THEN 1 ELSE 0
  <2>1. w \notin owing /\ (Owes(x, p) <=> d.payer = p /\ d.over)
    BY <1>5, <1>6, <1>14
  <2>. QED
    BY <1>4, <1>9, <2>1
<1>15. ASSUME live \in C!Tools PROVE
         /\ step = "count" => n = m - IF d.payer = p THEN 1 ELSE 0
         /\ step = "run" => n <= m + 1
         /\ step \notin {"run", "count"} => n = m
  <2>1. step # "run" => left = uncounted \ {w}
    BY <1>4, <1>6, <1>15
  <2>2. ASSUME step = "count" PROVE n = m - IF d.payer = p THEN 1 ELSE 0
    <3>1. CASE w \in uncounted
      BY <1>5, <1>11, <2>1, <2>2, <3>1
    <3>2. CASE w \notin uncounted
      BY <1>5, <1>11, <2>1, <2>2, <3>2
    <3>. QED
      BY <3>1, <3>2
  <2>3. ASSUME step = "run" PROVE n <= m + 1
    <3>1. w \notin uncounted
      BY <1>5, <2>3
    <3>2. CASE left = uncounted
      BY <1>11, <3>2
    <3>3. CASE left # uncounted
      BY <1>4, <1>11, <3>1, <3>3
    <3>. QED
      BY <3>2, <3>3
  <2>4. ASSUME step \notin {"run", "count"} PROVE n = m
    BY <1>5, <1>11, <2>1, <2>4
  <2>. QED
    BY <2>2, <2>3, <2>4
<1>16. /\ a = Cardinality(Owing(p)) /\ b = Cardinality(Owing(p)')
       /\ m = Cardinality(Uncounted(p)) /\ n = Cardinality(Uncounted(p)')
  BY <1>3, <1>8, <1>10
<1>. QED
  BY <1>9, <1>11, <1>12, <1>13, <1>14, <1>15, <1>16

\* A call that stops or begins is not about to be charged, or to be counted;
\* one that stops may have been.
LEMMA OwingSettles ==
  ASSUME CallsTyped, NEW w \in Workers, NEW x, call' = [call EXCEPT ![w] = x], NEW p, ~Owes(x, p)
  PROVE  /\ Cardinality(Owing(p)) \in Nat /\ Cardinality(Owing(p)') \in Nat
         /\ Cardinality(Owing(p)') <= Cardinality(Owing(p))
         /\ ~Owes(call[w], p) => Cardinality(Owing(p)') = Cardinality(Owing(p))
<1>1. PICK owing, owed : owing = Owing(p) /\ owed = Owing(p)'
  OBVIOUS
<1>2. owed = owing \ {w} /\ (w \in owing <=> Owes(call[w], p))
  BY <1>1, QueuesMove
<1>3. IsFiniteSet(owing)
  BY <1>1, SizesOf
<1>4. owed \subseteq owing /\ (w \notin owing => owed = owing)
  BY <1>2
<1>. QED
  BY <1>1, <1>2, <1>3, <1>4, FS_Subset, FS_CardinalityType

LEMMA UncountedSettles ==
  ASSUME CallsTyped, NEW w \in Workers, NEW x, call' = [call EXCEPT ![w] = x], NEW p, ~Waits(x, p)
  PROVE  /\ Cardinality(Uncounted(p)) \in Nat /\ Cardinality(Uncounted(p)') \in Nat
         /\ Cardinality(Uncounted(p)') <= Cardinality(Uncounted(p))
<1>1. PICK uncounted, left : uncounted = Uncounted(p) /\ left = Uncounted(p)'
  OBVIOUS
<1>2. left = uncounted \ {w}
  BY <1>1, QueuesMove
<1>3. IsFiniteSet(uncounted)
  BY <1>1, SizesOf
<1>4. left \subseteq uncounted
  BY <1>2
<1>. QED
  BY <1>1, <1>2, <1>3, <1>4, FS_Subset, FS_CardinalityType

\* A call that is counted is a payer's, and was not over before.
LEMMA CountedCall ==
  ASSUME CallsTyped, NEW w \in Workers, NEW step \in {"count", "charge"}, C!At(w, step)
  PROVE  /\ call[w].payer \in Payers
         /\ step = "count" /\ C!Has(live, "charge") => ~call[w].over
         /\ step = "charge" => C!Has(live, "charge")
<1>1. PICK c \in CallRecords : c = call[w]
  BY DEF CallsTyped
<1>2. PICK k, l \in Nat : /\ l = Len(live.work) /\ k = Place(c) /\ k \in 1..l
                          /\ live.work[k] = step
  <2>1. PICK l \in Nat : l = Len(live.work)
    BY RoutesAreOrdered, FirstAndRest DEF CallsTyped, Ordered
  <2>2. Place(c) \in 1..l /\ live.work[Place(c)] = step
    BY <1>1, <2>1, AtStep
  <2>. QED
    BY <2>1, <2>2
<1>3. \E i \in 1..l : live.work[i] = "count"
  BY <1>2, RoutesAreOrdered DEF CallsTyped, Ordered
<1>4. C!Pays(live)
  BY <1>2, <1>3, RoutesAreOrdered DEF CallsTyped, Ordered
<1>5. c.payer \in C!Payer(live)
  BY <1>1, AtStep DEF GoodToll, Midway
<1>6. c.payer \in Payers
  BY <1>4, <1>5, CallConstants DEF C!Payer
<1>7. ASSUME step = "count", C!Has(live, "charge"), c.over PROVE FALSE
  <2>1. live.work[Place(c)] = "charge" \/ Did(c, "charge")
    BY <1>1, <1>7, AtStep DEF GoodToll
  <2>2. PICK j \in 1..k - 1 : live.work[j] = "charge"
    BY <1>2, <1>7, <2>1 DEF Did
  <2>3. j \in 1..l
    BY ONLY <1>2, j \in 1..k - 1, k \in Nat, l \in Nat
  <2>4. j = k + 1
    BY <1>2, <1>7, <2>2, <2>3, RoutesAreOrdered DEF CallsTyped, Ordered
  <2>. QED
    BY ONLY <2>4, j \in 1..k - 1, k \in Nat
<1>. QED
  BY <1>1, <1>6, <1>7, AtStep

\* What stays as it was.
LEMMA TotalsStay ==
  ASSUME UNCHANGED <<live, usage>>, NEW p
  PROVE  Total(Used(p)') = Total(Used(p)) /\ Total(Excess(p)') = Total(Excess(p))
<1>1. Used(p)' = Used(p) /\ Excess(p)' = Excess(p)
  BY DEF Used, Excess
<1>. QED
  BY <1>1

LEMMA HasStays ==
  ASSUME UNCHANGED live, NEW s PROVE C!Has(live, s)' <=> C!Has(live, s)
BY DEF C!Has

LEMMA CountKeeps ==
  ASSUME CallsInv, NEW w \in Workers, C!Count(w) PROVE ChargesMatch' /\ Counts'
<1>1. PICK c \in CallRecords : c = call[w]
  BY DEF CallsInv, CallsTyped
<1>2. CallsTyped /\ C!At(w, "count") /\ c.payer \in Payers /\ UNCHANGED <<reported, ran>>
  BY <1>1, CountedCall DEF CallsInv, C!Count
<1>3. PICK q \in Payers, n, f \in Nat : q = c.payer /\ n = usage[<<q, month>>] + 1 /\ f = live.free
  <2>1. usage[<<c.payer, month>>] + 1 \in Nat /\ live.free \in Nat
    BY <1>2, TollShapes, MonthsTotal
  <2>. QED
    BY <1>2, <2>1
<1>a. \/ usage' = [usage EXCEPT ![<<q, month>>] = n] /\ C!Continue(w, [c EXCEPT !.over = n > f])
      \/ UNCHANGED usage /\ trouble /\ C!Continue(w, c)
  BY <1>1, <1>3 DEF C!Count
<1>4. PICK d \in CallRecords :
        /\ C!Continue(w, d) /\ d.id = c.id /\ d.payer = q /\ d.todo = c.todo
        /\ \/ usage' = [usage EXCEPT ![<<q, month>>] = n] /\ (d.over <=> n > f)
           \/ UNCHANGED usage /\ trouble /\ d.over = c.over
  <2>1. PICK late \in BOOLEAN : late <=> n > f
    OBVIOUS
  <2>2. [c EXCEPT !.over = late] = [c EXCEPT !.over = n > f]
    BY <2>1
  <2>. DEFINE d == [c EXCEPT !.over = late]
  <2>3. d \in CallRecords /\ d.id = c.id /\ d.payer = c.payer /\ d.todo = c.todo /\ d.over = late
    BY DEF CallRecords
  <2>. HIDE DEF d
  <2>4. CASE usage' = [usage EXCEPT ![<<q, month>>] = n] /\ C!Continue(w, [c EXCEPT !.over = n > f])
    <3>1. C!Continue(w, d)
      BY <2>2, <2>4 DEF d
    <3>. QED
      BY <1>3, <2>1, <2>3, <2>4, <3>1
  <2>5. CASE UNCHANGED usage /\ trouble /\ C!Continue(w, c)
    BY <1>3, <2>5
  <2>. QED
    BY <1>a, <2>4, <2>5
<1>5. UNCHANGED <<live, trouble>>
  BY <1>4 DEF C!Continue
<1>6. ASSUME NEW p \in Payers
      PROVE  /\ Cardinality(Owing(p)) \in Nat /\ Cardinality(Owing(p)') \in Nat
             /\ Cardinality(Uncounted(p)) \in Nat /\ Cardinality(Uncounted(p)') \in Nat
             /\ C!Has(live, "charge") =>
                  Cardinality(Owing(p)')
                    = Cardinality(Owing(p)) + IF q = p /\ d.over THEN 1 ELSE 0
             /\ live \in C!Tools =>
                  Cardinality(Uncounted(p)')
                    = Cardinality(Uncounted(p)) - IF q = p THEN 1 ELSE 0
  BY <1>1, <1>2, <1>3, <1>4, QueueSizes
<1>7. C!Has(live, "charge") => ~c.over
  BY <1>1, <1>2, CountedCall
<1>8. ASSUME NEW p \in Payers
      PROVE  /\ Total(Used(p)) \in Int /\ Total(Excess(p)) \in Int
             /\ \/ /\ Total(Used(p)') = Total(Used(p)) + IF p = q THEN 1 ELSE 0
                   /\ Total(Excess(p)') = Total(Excess(p)) + IF p = q /\ d.over THEN 1 ELSE 0
                \/ /\ trouble /\ d.over = c.over
                   /\ Total(Used(p)') = Total(Used(p)) /\ Total(Excess(p)') = Total(Excess(p))
  <2>1. CASE usage' = [usage EXCEPT ![<<q, month>>] = n] /\ (d.over <=> n > f)
    BY <1>2, <1>3, <1>5, <2>1, MonthsTotal, UsageCounts
  <2>2. CASE UNCHANGED usage /\ trouble /\ d.over = c.over
    BY <1>2, <1>5, <2>2, MonthsTotal, TotalsStay
  <2>. QED
    BY <1>4, <2>1, <2>2
<1>9. ChargesMatch'
  <2>1. ASSUME NEW p \in Payers
        PROVE  IF p \in Customers /\ C!Has(live, "charge")
               THEN /\ reported[p] + Cardinality(Owing(p)') <= Total(Excess(p)')
                    /\ ~trouble => reported[p] + Cardinality(Owing(p)') = Total(Excess(p)')
               ELSE reported[p] = 0
    <3>1. CASE p \in Customers /\ C!Has(live, "charge")
      <4>0. PICK t : t = Total(Excess(p)')
        OBVIOUS
      <4>1. PICK a, b \in Nat, s \in Int, r \in Nat :
              /\ a = Cardinality(Owing(p)) /\ b = Cardinality(Owing(p)')
              /\ s = Total(Excess(p)) /\ r = reported[p]
        <5>1. reported[p] \in Nat
          BY <1>2 DEF CallsTyped
        <5>2. Total(Excess(p)) \in Int /\ Cardinality(Owing(p)) \in Nat
              /\ Cardinality(Owing(p)') \in Nat
          BY <1>6, <1>8
        <5>. QED
          BY <5>1, <5>2
      <4>2. r + a <= s /\ (~trouble => r + a = s)
        BY <3>1, <4>1 DEF CallsInv, ChargesMatch
      <4>3. b = a + IF q = p /\ d.over THEN 1 ELSE 0
        BY <1>6, <3>1, <4>1
      <4>4. t = s + (IF p = q /\ d.over THEN 1 ELSE 0) \/ (trouble /\ ~d.over /\ t = s)
        BY <1>7, <1>8, <3>1, <4>0, <4>1
      <4>5. r + b <= t /\ (~trouble => r + b = t)
        BY ONLY <4>2, <4>3, <4>4, a \in Nat, b \in Nat, r \in Nat, s \in Int
      <4>. QED
        BY <3>1, <4>0, <4>1, <4>5
    <3>2. CASE ~(p \in Customers /\ C!Has(live, "charge"))
      BY <3>2 DEF CallsInv, ChargesMatch
    <3>. QED
      BY <3>1, <3>2
  <2>. QED
    BY <1>2, <1>5, <2>1, HasStays DEF ChargesMatch
<1>10. ASSUME live \in C!Tools, NEW p \in Payers
       PROVE  Total(Used(p)') + Cardinality(Uncounted(p)') <= Cardinality(ran)
  <2>0. PICK t : t = Total(Used(p)')
    OBVIOUS
  <2>1. PICK a, b \in Nat, s \in Int, r \in Nat :
          /\ a = Cardinality(Uncounted(p)) /\ b = Cardinality(Uncounted(p)')
          /\ s = Total(Used(p)) /\ r = Cardinality(ran)
    <3>1. Cardinality(ran) \in Nat
      BY <1>2, FS_CardinalityType DEF CallsTyped
    <3>2. Total(Used(p)) \in Int /\ Cardinality(Uncounted(p)) \in Nat
          /\ Cardinality(Uncounted(p)') \in Nat
      BY <1>6, <1>8
    <3>. QED
      BY <3>1, <3>2
  <2>2. s + a <= r
    BY <1>10, <2>1 DEF CallsInv, Counts
  <2>3. b = a - IF q = p THEN 1 ELSE 0
    BY <1>6, <1>10, <2>1
  <2>4. t = s + (IF p = q THEN 1 ELSE 0) \/ t = s
    BY <1>8, <2>0, <2>1
  <2>5. t + b <= r
    BY ONLY <2>2, <2>3, <2>4, a \in Nat, b \in Nat, r \in Nat, s \in Int
  <2>. QED
    BY <2>0, <2>1, <2>5
<1>. QED
  BY <1>2, <1>5, <1>9, <1>10 DEF Counts

LEMMA ChargeKeeps ==
  ASSUME CallsInv, NEW w \in Workers, C!Charge(w) PROVE ChargesMatch' /\ Counts'
<1>1. PICK c \in CallRecords : c = call[w]
  BY DEF CallsInv, CallsTyped
<1>2. /\ CallsTyped /\ C!At(w, "charge") /\ c.payer \in Payers /\ C!Has(live, "charge")
      /\ C!Continue(w, c) /\ UNCHANGED <<live, trouble, usage, ran>>
  BY <1>1, CountedCall DEF CallsInv, C!Charge, C!Continue
<1>3. PICK q \in Payers : q = c.payer
  BY <1>2
<1>4. \/ /\ c.over /\ q \in Customers
         /\ reported' = [reported EXCEPT ![q] = reported[q] + 1]
      \/ (c.over /\ q \in Customers => trouble) /\ UNCHANGED reported
  BY <1>1, <1>3 DEF C!Charge
<1>5. ASSUME NEW p \in Payers
      PROVE  /\ Cardinality(Owing(p)) \in Nat /\ Cardinality(Owing(p)') \in Nat
             /\ Cardinality(Owing(p)') = Cardinality(Owing(p)) - IF q = p /\ c.over THEN 1 ELSE 0
             /\ live \in C!Tools => Cardinality(Uncounted(p)') = Cardinality(Uncounted(p))
  <2>1. "charge" # "run" /\ "charge" # "count"
    OBVIOUS
  <2>. QED
    BY <1>1, <1>2, <1>3, <2>1, QueueSizes
<1>6. ASSUME NEW p \in Payers
      PROVE  IF p \in Customers
             THEN /\ reported'[p] + Cardinality(Owing(p)') <= Total(Excess(p)')
                  /\ ~trouble => reported'[p] + Cardinality(Owing(p)') = Total(Excess(p)')
             ELSE reported'[p] = 0
  <2>1. CASE p \in Customers
    <3>1. PICK a, b, r \in Nat, s \in Int :
            /\ a = Cardinality(Owing(p)) /\ b = Cardinality(Owing(p)')
            /\ s = Total(Excess(p)) /\ r = reported[p]
      <4>1. reported[p] \in Nat /\ Total(Excess(p)) \in Int
        BY <1>2, TollShapes, MonthsTotal
      <4>. QED
        BY <1>5, <4>1
    <3>2. r + a <= s /\ (~trouble => r + a = s)
      BY <1>2, <2>1, <3>1 DEF CallsInv, ChargesMatch
    <3>3. b = a - IF q = p /\ c.over THEN 1 ELSE 0
      BY <1>5, <3>1
    <3>4. Total(Excess(p)') = s
      BY <1>2, <3>1, TotalsStay
    <3>5. CASE c.over /\ q \in Customers /\ reported' = [reported EXCEPT ![q] = reported[q] + 1]
      <4>1. reported'[p] = IF q = p THEN r + 1 ELSE r
        BY <1>2, <3>1, <3>5 DEF CallsTyped
      <4>2. reported'[p] + b <= s /\ (~trouble => reported'[p] + b = s)
        BY ONLY <3>2, <3>3, <3>5, <4>1, a \in Nat, b \in Nat, r \in Nat, s \in Int
      <4>. QED
        BY <2>1, <3>1, <3>4, <4>2
    <3>6. CASE (c.over /\ q \in Customers => trouble) /\ UNCHANGED reported
      <4>1. q = p /\ c.over => trouble
        BY <2>1, <3>6
      <4>2. r + b <= s /\ (~trouble => r + b = s)
        BY ONLY <3>2, <3>3, <4>1, a \in Nat, b \in Nat, r \in Nat, s \in Int
      <4>. QED
        BY <2>1, <3>1, <3>4, <3>6, <4>2
    <3>. QED
      BY <1>4, <3>5, <3>6
  <2>2. CASE p \notin Customers
    <3>1. reported[p] = 0
      BY <2>2 DEF CallsInv, ChargesMatch
    <3>2. reported'[p] = reported[p]
      BY <1>2, <1>4, <2>2 DEF CallsTyped
    <3>. QED
      BY <2>2, <3>1, <3>2
  <2>. QED
    BY <2>1, <2>2
<1>7. ASSUME live \in C!Tools, NEW p \in Payers
      PROVE  Total(Used(p)') + Cardinality(Uncounted(p)') <= Cardinality(ran')
  <2>1. Total(Used(p)) + Cardinality(Uncounted(p)) <= Cardinality(ran)
    BY <1>7 DEF CallsInv, Counts
  <2>2. Total(Used(p)') = Total(Used(p)) /\ Cardinality(Uncounted(p)') = Cardinality(Uncounted(p))
    BY <1>2, <1>5, <1>7, TotalsStay
  <2>. QED
    BY <1>2, <2>1, <2>2
<1>. QED
  BY <1>2, <1>6, <1>7, HasStays DEF ChargesMatch, Counts

LEMMA WriteKeeps ==
  ASSUME CallsInv, NEW w \in Workers,
         C!Read(w) \/ C!Run(w) \/ C!Sign(w) \/ C!Store(w) \/ C!Meter(w) \/ C!Answer(w)
  PROVE  ChargesMatch' /\ Counts'
<1>1. PICK c \in CallRecords : c = call[w]
  BY DEF CallsInv, CallsTyped
<1>2. PICK step \in {"read", "run", "sign", "store", "meter", "answer"}, d \in CallRecords :
        /\ C!At(w, step) /\ C!Continue(w, d) /\ d.id = c.id /\ d.payer = c.payer /\ d.todo = c.todo
        /\ UNCHANGED <<usage, reported>>
        /\ IF step = "run" THEN ran' = ran \cup {<<c.id, d.verdict>>} ELSE UNCHANGED ran
  <2>1. CASE C!Run(w)
    <3>1. PICK v \in live.verdicts \ {"fail"} :
            /\ C!At(w, "run") /\ C!Continue(w, [c EXCEPT !.verdict = v])
            /\ ran' = ran \cup {<<c.id, v>>} /\ UNCHANGED <<usage, reported>>
      BY <1>1, <2>1 DEF C!Run
    <3>2. v \in {"pass", "refuse"}
      BY RoutesAreOrdered DEF CallsInv, CallsTyped, Ordered
    <3>. DEFINE d == [c EXCEPT !.verdict = v]
    <3>3. d \in CallRecords /\ d.id = c.id /\ d.payer = c.payer /\ d.todo = c.todo /\ d.verdict = v
      BY <3>2 DEF CallRecords
    <3>. QED
      BY <3>1, <3>3
  <2>2. CASE ~C!Run(w)
    BY <1>1, <2>2 DEF C!Read, C!Sign, C!Store, C!Meter, C!Answer
  <2>. QED
    BY <2>1, <2>2
<1>3. CallsTyped /\ UNCHANGED <<live, trouble, usage, reported>>
  BY <1>2 DEF CallsInv, C!Continue
<1>4. ASSUME NEW p \in Payers
      PROVE  /\ Cardinality(Owing(p)') = Cardinality(Owing(p))
             /\ Cardinality(Uncounted(p)) \in Nat /\ Cardinality(Uncounted(p)') \in Nat
             /\ live \in C!Tools /\ step = "run" =>
                  Cardinality(Uncounted(p)') <= Cardinality(Uncounted(p)) + 1
             /\ live \in C!Tools /\ step # "run" =>
                  Cardinality(Uncounted(p)') = Cardinality(Uncounted(p))
  <2>1. step \notin {"count", "charge"}
    BY <1>2
  <2>. QED
    BY <1>1, <1>2, <1>3, <2>1, QueueSizes
<1>5. ASSUME NEW p \in Payers
      PROVE  Total(Used(p)') = Total(Used(p)) /\ Total(Excess(p)') = Total(Excess(p))
  BY <1>3, TotalsStay
<1>6. ChargesMatch'
  BY <1>3, <1>4, <1>5, HasStays DEF CallsInv, ChargesMatch
<1>7. ASSUME live \in C!Tools, step = "run" PROVE Cardinality(ran') = Cardinality(ran) + 1
  <2>1. live.work = <<"run", "count", "sign", "meter", "answer">>
    BY <1>3, <1>7, RoutesAreOrdered DEF CallsTyped
  <2>2. Place(c) \in 1..Len(live.work) /\ live.work[Place(c)] = "run" /\ GoodToll(c)
    BY <1>1, <1>2, <1>3, <1>7, AtStep
  <2>3. PICK k \in 1..5 : k = Place(c) /\ live.work[k] = "run"
    <3>1. Len(live.work) = 5
      BY <2>1
    <3>. QED
      BY <2>2, <3>1
  <2>4. k = 1
    <3>1. k \in {1, 2, 3, 4, 5}
      OBVIOUS
    <3>. QED
      BY <2>1, <2>3, <3>1
  <2>5. ~Did(c, "run")
    BY <2>3, <2>4 DEF Did
  <2>6. <<c.id, d.verdict>> \notin ran
    BY <2>2, <2>5 DEF GoodToll
  <2>. QED
    BY <1>2, <1>3, <1>7, <2>6, FS_AddElement DEF CallsTyped
<1>8. ASSUME live \in C!Tools, NEW p \in Payers
      PROVE  Total(Used(p)') + Cardinality(Uncounted(p)') <= Cardinality(ran')
  <2>1. PICK a, b, r \in Nat, s \in Int :
          /\ a = Cardinality(Uncounted(p)) /\ b = Cardinality(Uncounted(p)')
          /\ s = Total(Used(p)) /\ r = Cardinality(ran)
    <3>1. Cardinality(ran) \in Nat /\ Total(Used(p)) \in Int
      BY <1>3, MonthsTotal, FS_CardinalityType DEF CallsTyped
    <3>. QED
      BY <1>4, <3>1
  <2>2. s + a <= r
    BY <1>8, <2>1 DEF CallsInv, Counts
  <2>3. CASE step = "run"
    <3>1. b <= a + 1 /\ Cardinality(ran') = r + 1
      BY <1>4, <1>7, <1>8, <2>1, <2>3
    <3>2. s + b <= r + 1
      BY ONLY <2>2, <3>1, a \in Nat, b \in Nat, r \in Nat, s \in Int
    <3>. QED
      BY <1>5, <2>1, <3>1, <3>2
  <2>4. CASE step # "run"
    <3>1. b = a /\ Cardinality(ran') = r
      BY <1>2, <1>4, <1>8, <2>1, <2>4
    <3>. QED
      BY <1>5, <2>1, <2>2, <3>1
  <2>. QED
    BY <2>3, <2>4
<1>. QED
  BY <1>3, <1>6, <1>8 DEF Counts

LEMMA BeginQueue ==
  ASSUME CallsTyped, NEW w \in Workers, NEW p, C!Begin(w, p)
  PROVE  \E x : /\ call' = [call EXCEPT ![w] = x]
                /\ \A q \in Payers : ~Owes(x, q) /\ (live \in C!Tools => ~Waits(x, q))
                /\ \A q \in Payers : ~Owes(call[w], q)
<1>1. PICK x : x = [C!Rest EXCEPT !.id = started + 1, !.payer = p, !.todo = live.work]
  OBVIOUS
<1>2. call' = [call EXCEPT ![w] = x] /\ call[w] = C!Rest
  BY <1>1 DEF C!Begin
<1>3. x.over = FALSE /\ x.todo = live.work
  <2>1. C!Rest = [id |-> 0, payer |-> None, over |-> FALSE, verdict |-> "pass", todo |-> <<>>]
    BY DEF C!Rest
  <2>. QED
    BY <1>1, <2>1
<1>4. live \in C!Tools => Head(live.work) = "run"
  BY RoutesAreOrdered DEF CallsTyped
<1>5. \A q \in Payers : ~Owes(x, q) /\ (live \in C!Tools => ~Waits(x, q))
  BY <1>3, <1>4 DEF Owes, Waits
<1>6. \A q \in Payers : ~Owes(call[w], q)
  BY <1>2, RestingRecord DEF Owes
<1>. QED
  BY <1>2, <1>5, <1>6

\* A call begins at its first step, which charges nobody; one that stops on its
\* own does at its work.
LEMMA SettleKeeps ==
  ASSUME CallsInv, NEW w \in Workers, C!Stop(w) \/ \E p \in Payers \cup {None} : C!Begin(w, p)
  PROVE  ChargesMatch' /\ Counts'
<1>0. ASSUME NEW p, C!Begin(w, p) PROVE UNCHANGED <<live, trouble, usage, reported, ran>>
  BY <1>0, Zenon DEF C!Begin
<1>1. CallsTyped /\ UNCHANGED <<live, trouble, usage, reported, ran>>
  BY <1>0 DEF CallsInv, C!Stop
<1>2. PICK x : /\ call' = [call EXCEPT ![w] = x]
               /\ \A p \in Payers : ~Owes(x, p) /\ (live \in C!Tools => ~Waits(x, p))
               /\ \A p \in Payers : ~trouble => ~Owes(call[w], p)
  <2>1. CASE C!Stop(w)
    <3>1. call' = [call EXCEPT ![w] = C!Rest] /\ (trouble \/ C!At(w, "run"))
      BY <2>1 DEF C!Stop
    <3>2. \A p \in Payers : ~Owes(C!Rest, p) /\ ~Waits(C!Rest, p)
      BY RestingRecord DEF Owes, Waits
    <3>3. \A p \in Payers : ~trouble => ~Owes(call[w], p)
      BY <3>1 DEF Owes, C!At
    <3>. QED
      BY <3>1, <3>2, <3>3
  <2>2. CASE \E p \in Payers \cup {None} : C!Begin(w, p)
    BY <1>1, <2>2, BeginQueue
  <2>. QED
    BY <2>1, <2>2
<1>3. ASSUME NEW p \in Payers
      PROVE  Total(Used(p)') = Total(Used(p)) /\ Total(Excess(p)') = Total(Excess(p))
  BY <1>1, TotalsStay
<1>4. ASSUME NEW p \in Payers, p \in Customers, C!Has(live, "charge")
      PROVE  /\ reported[p] + Cardinality(Owing(p)') <= Total(Excess(p)')
             /\ ~trouble => reported[p] + Cardinality(Owing(p)') = Total(Excess(p)')
  <2>1. /\ Cardinality(Owing(p)) \in Nat /\ Cardinality(Owing(p)') \in Nat
        /\ Cardinality(Owing(p)') <= Cardinality(Owing(p))
        /\ ~Owes(call[w], p) => Cardinality(Owing(p)') = Cardinality(Owing(p))
    BY <1>1, <1>2, OwingSettles
  <2>2. PICK a, b, r \in Nat, s \in Int :
          /\ a = Cardinality(Owing(p)) /\ b = Cardinality(Owing(p)')
          /\ s = Total(Excess(p)) /\ r = reported[p]
    <3>1. reported[p] \in Nat /\ Total(Excess(p)) \in Int
      BY <1>1, TollShapes, MonthsTotal
    <3>. QED
      BY <2>1, <3>1
  <2>3. r + a <= s /\ (~trouble => r + a = s)
    BY <1>4, <2>2 DEF CallsInv, ChargesMatch
  <2>4. b <= a /\ (~trouble => b = a)
    BY <1>2, <2>1, <2>2
  <2>5. r + b <= s /\ (~trouble => r + b = s)
    BY ONLY <2>3, <2>4, a \in Nat, b \in Nat, r \in Nat, s \in Int
  <2>. QED
    BY <1>3, <2>2, <2>5
<1>5. ASSUME live \in C!Tools, NEW p \in Payers
      PROVE  Total(Used(p)') + Cardinality(Uncounted(p)') <= Cardinality(ran)
  <2>1. /\ Cardinality(Uncounted(p)) \in Nat /\ Cardinality(Uncounted(p)') \in Nat
        /\ Cardinality(Uncounted(p)') <= Cardinality(Uncounted(p))
    BY <1>1, <1>2, <1>5, UncountedSettles
  <2>2. PICK a, b, r \in Nat, s \in Int :
          /\ a = Cardinality(Uncounted(p)) /\ b = Cardinality(Uncounted(p)')
          /\ s = Total(Used(p)) /\ r = Cardinality(ran)
    <3>1. Cardinality(ran) \in Nat /\ Total(Used(p)) \in Int
      BY <1>1, MonthsTotal, FS_CardinalityType DEF CallsTyped
    <3>. QED
      BY <2>1, <3>1
  <2>3. s + a <= r
    BY <1>5, <2>2 DEF CallsInv, Counts
  <2>4. s + b <= r
    BY ONLY <2>1, <2>2, <2>3, a \in Nat, b \in Nat, r \in Nat, s \in Int
  <2>. QED
    BY <1>3, <2>2, <2>4
<1>6. ASSUME NEW p \in Payers, ~(p \in Customers /\ C!Has(live, "charge")) PROVE reported[p] = 0
  BY <1>6 DEF CallsInv, ChargesMatch
<1>7. ChargesMatch'
  BY <1>1, <1>4, <1>6, HasStays DEF ChargesMatch
<1>. QED
  BY <1>1, <1>5, <1>7 DEF Counts

LEMMA CallsInvOn == ASSUME CallsInv, C!Next \/ UNCHANGED calls PROVE CallsInv'
<1>1. CallsTyped'
  BY CallsTypedOn DEF CallsInv
<1>2. ASSUME UNCHANGED <<live, trouble, usage, reported, call, ran>> PROVE ChargesMatch' /\ Counts'
  <2>1. ASSUME NEW p \in Payers
        PROVE  /\ Total(Used(p)') = Total(Used(p)) /\ Total(Excess(p)') = Total(Excess(p))
               /\ Owing(p)' = Owing(p) /\ Uncounted(p)' = Uncounted(p)
    BY <1>2, TotalsStay DEF Owing, Uncounted, Owes, Waits
  <2>. QED
    BY <1>2, <2>1, HasStays DEF CallsInv, ChargesMatch, Counts
<1>3. ASSUME UNCHANGED calls \/ C!NewMonth \/ \E look : C!Refused(look)
      PROVE  UNCHANGED <<live, trouble, usage, reported, call, ran>>
  BY <1>3 DEF calls, C!NewMonth, C!Refused, C!vars
<1>4. ChargesMatch' /\ Counts'
  BY <1>2, <1>3, CountKeeps, ChargeKeeps, WriteKeeps, SettleKeeps DEF C!Next
<1>. QED
  BY <1>1, <1>4 DEF CallsInv

LEMMA CallsInvBegins == ASSUME C!Init PROVE CallsInv
<1>1. /\ CallsTyped /\ live.free \in Nat /\ IsFiniteSet(1..Months)
      /\ reported = [p \in Payers |-> 0] /\ call = [w \in Workers |-> C!Rest] /\ ran = {}
      /\ usage = [pm \in Payers \X (1..Months) |-> 0]
  <2>1. CallsTyped
    BY CallsBegin
  <2>2. live.free \in Nat
    BY <2>1, RoutesAreOrdered DEF CallsTyped, Ordered
  <2>3. IsFiniteSet(1..Months)
    BY CallConstants, FS_Interval
  <2>. QED
    BY <2>1, <2>2, <2>3 DEF C!Init
<1>2. ASSUME NEW p \in Payers
      PROVE  /\ Total(Used(p)) = 0 /\ Total(Excess(p)) = 0
             /\ Cardinality(Owing(p)) = 0 /\ Cardinality(Uncounted(p)) = 0
  <2>1. \A m \in 1..Months : usage[<<p, m>>] = 0
    BY <1>1
  <2>2. ~(0 > live.free)
    <3>1. PICK f \in Nat : f = live.free
      BY <1>1
    <3>. QED
      BY <3>1
  <2>3. /\ DOMAIN Used(p) = 1..Months /\ DOMAIN Excess(p) = 1..Months
        /\ \A m \in 1..Months : Used(p)[m] = 0 /\ Excess(p)[m] = 0
    BY <2>1, <2>2 DEF Used, Excess
  <2>4. Total(Used(p)) = 0 /\ Total(Excess(p)) = 0
    BY <1>1, <2>3, SumZero
  <2>5. Owing(p) = {} /\ Uncounted(p) = {}
    BY <1>1, RestingRecord DEF Owing, Uncounted, Owes, Waits
  <2>. QED
    BY <2>4, <2>5, FS_EmptySet
<1>3. Cardinality(ran) = 0
  BY <1>1, FS_EmptySet
<1>4. ChargesMatch /\ Counts
  BY <1>1, <1>2, <1>3 DEF ChargesMatch, Counts
<1>. QED
  BY <1>1, <1>4 DEF CallsInv

\* With the queues empty the charges are the excess.
LEMMA CallsInvSuffices == ASSUME CallsInv PROVE C!ChargeIsUse /\ C!AnswerIsBacked
<1>1. CallsTyped
  BY DEF CallsInv
<1>2. ASSUME NEW p \in Payers
      PROVE  /\ reported[p] <= IF p \in Customers /\ C!Has(live, "charge") THEN C!Billable(p) ELSE 0
             /\ (/\ ~trouble /\ p \in Customers /\ C!Has(live, "charge")
                 /\ \A w \in Workers : call[w].payer # p) => reported[p] = C!Billable(p)
  <2>1. CASE p \in Customers /\ C!Has(live, "charge")
    <3>1. PICK a, r \in Nat, s \in Int :
            a = Cardinality(Owing(p)) /\ s = Total(Excess(p)) /\ r = reported[p]
      BY <1>1, SizesOf, MonthsTotal, TollShapes
    <3>2. r + a <= s /\ (~trouble => r + a = s)
      BY <2>1, <3>1 DEF CallsInv, ChargesMatch
    <3>3. (\A w \in Workers : call[w].payer # p) => a = 0
      BY <3>1, FS_EmptySet DEF Owing, Owes
    <3>4. r <= s /\ (~trouble /\ a = 0 => r = s)
      BY ONLY <3>2, a \in Nat, r \in Nat, s \in Int
    <3>5. C!Billable(p) = s
      BY <3>1, BillableIsTotal
    <3>. QED
      BY <2>1, <3>1, <3>3, <3>4, <3>5
  <2>2. CASE ~(p \in Customers /\ C!Has(live, "charge"))
    <3>1. reported[p] = 0
      BY <2>2 DEF CallsInv, ChargesMatch
    <3>. QED
      BY <2>2, <3>1
  <2>. QED
    BY <2>1, <2>2
<1>3. ASSUME NEW p \in Payers, live \in C!Tools
      PROVE  C!MapThenSumSet(LAMBDA m : usage[<<p, m>>], 1..Months) <= Cardinality(ran)
  <2>1. PICK a, r \in Nat, s \in Int :
          a = Cardinality(Uncounted(p)) /\ s = Total(Used(p)) /\ r = Cardinality(ran)
    <3>1. Cardinality(ran) \in Nat
      BY <1>1, FS_CardinalityType DEF CallsTyped
    <3>. QED
      BY <1>1, <3>1, SizesOf, MonthsTotal
  <2>2. s + a <= r
    BY <1>3, <2>1 DEF CallsInv, Counts
  <2>3. s <= r
    BY ONLY <2>2, a \in Nat, r \in Nat, s \in Int
  <2>4. C!MapThenSumSet(LAMBDA m : usage[<<p, m>>], 1..Months) = s
    BY <2>1, UsedIsTotal
  <2>. QED
    BY <2>1, <2>3, <2>4
<1>4. C!ChargeIsUse
  <2>1. C!Cardinality(ran) = Cardinality(ran)
    BY DEF C!Cardinality, Cardinality
  <2>2. ASSUME NEW p \in Payers
        PROVE  live \in C!Tools =>
                 C!MapThenSumSet(LAMBDA m : usage[<<p, m>>], 1..Months) <= C!Cardinality(ran)
    BY <1>3, <2>1
  <2>. QED
    BY <1>2, <2>2, Zenon DEF C!ChargeIsUse
<1>. QED
  BY <1>1, <1>4 DEF CallsTyped

\* Nobody is charged for a free call or twice for one, and with nothing failing
\* every call beyond the free ones is charged once it is through; a tool counts
\* no call that did not run; and what a route answers, or prices, is signed and
\* stored first where the route says so.
THEOREM CallsAreKept == Spec => []CallsKeep
<1>1. Init => CallsInv
  BY CallsInvBegins DEF Init
<1>2. CallsInv /\ [Next]_vars => CallsInv'
  <2>1. SUFFICES ASSUME CallsInv, [Next]_vars PROVE CallsInv'
    OBVIOUS
  <2>2. C!Next \/ UNCHANGED calls
    BY <2>1 DEF Next, vars
  <2>. QED
    BY <2>1, <2>2, CallsInvOn
<1>3. CallsInv => CallsKeep
  BY CallsInvSuffices DEF CallsKeep
<1>. QED
  BY <1>1, <1>2, <1>3, PTL DEF Spec

-----------------------------------------------------------------------------
(* Shapes: of plans *)

PlanRows == EscrowInv /\ BudgetInv

LEMMA PlanTyped == ASSUME PlanRows PROVE P!TypeOK
<1>1. DOMAIN held = P!Accounts
  BY DEF PlanRows, EscrowInv, EscrowShapes
<1>2. Len(budget) <= Len(Budgets)
  BY DEF PlanRows, BudgetInv, BudgetShapes
<1>3. escrow # None => escrow.status \in {"locked", "released", "refunded", "timed_out"}
  BY DEF PlanRows, EscrowInv, EscrowShapes, EscrowRows
<1>4. ASSUME NEW d \in Disputes, dispute[d] # None
      PROVE  dispute[d].opener \in P!Parties /\ escrow # None
  <2>1. PICK row \in DisputeRows : row = dispute[d]
    BY <1>4 DEF PlanRows, EscrowInv, EscrowShapes
  <2>2. row.opener \in {"payer", "agent"}
    BY <2>1 DEF DisputeRows
  <2>. QED
    BY <1>4, <2>1, <2>2 DEF PlanRows, EscrowInv, OneDecides, P!Parties
<1>. QED
  BY <1>1, <1>2, <1>3, <1>4 DEF P!TypeOK

-----------------------------------------------------------------------------
(* Shapes: of walks along aliases *)

\* A walk has been where it is and is short of MAX_HOPS; a message is between
\* two, to one with a row.
OnItsWay(c) ==
  \A e \in AliasEnds : c.walk[e].at \in c.walk[e].seen /\ c.walk[e].hops < MaxAliases
BetweenTwo(m) ==
  m.stored["self"] # m.stored["peer"] /\ m.stored["peer"] \in RegisteredIds
WalksGo ==
  /\ \A i \in Walkers : walker[i] # None => OnItsWay(walker[i])
  /\ \A m \in messages : BetweenTwo(m)

LEMMA WalkStarts ==
  ASSUME NEW id PROVE id \in I!Walk(id).seen /\ I!Walk(id).at = id /\ I!Walk(id).hops < MaxAliases
BY AliasConstants DEF I!Walk

LEMMA RestartGoes == ASSUME NEW c \in AliasCalls, NEW rounds PROVE OnItsWay(I!Restart(c, rounds))
<1>1. PICK walks : walks = [e \in I!Ends |-> I!Walk(c.named[e])]
  OBVIOUS
<1>2. PICK d : d = I!Restart(c, rounds)
  OBVIOUS
<1>3. d.walk = walks
  BY <1>1, <1>2 DEF I!Restart, AliasCalls
<1>4. \A e \in AliasEnds : walks[e] = I!Walk(c.named[e])
  BY <1>1, Around
<1>5. \A e \in AliasEnds : walks[e].at \in walks[e].seen /\ walks[e].hops < MaxAliases
  BY <1>4, WalkStarts
<1>. QED
  BY <1>2, <1>3, <1>5 DEF OnItsWay

LEMMA RestGoes ==
  ASSUME NEW c \in AliasCalls, OnItsWay(c), NEW e \in AliasEnds, NEW id \in AgentIds
  PROVE  OnItsWay(I!Rest(c, e, id))
<1>1. CASE c.route
  <2>1. PICK d : d = [c EXCEPT !.route = FALSE, !.named = [c.named EXCEPT !.self = id]]
    OBVIOUS
  <2>2. /\ c.named \in [AliasEnds -> AgentIds]
        /\ [c.named EXCEPT !.self = id] \in [AliasEnds -> AgentIds]
    BY DEF AliasCalls, AliasEnds
  <2>3. d \in AliasCalls
    BY <2>1, <2>2 DEF AliasCalls
  <2>4. I!Rest(c, e, id) = I!Restart(d, I!Rounds(c.do))
    BY <1>1, <2>1 DEF I!Rest
  <2>. QED
    BY <2>3, <2>4, RestartGoes
<1>2. CASE ~c.route
  <2>1. PICK walks : walks = [c.walk EXCEPT ![e] = I!Walk(id)]
    OBVIOUS
  <2>2. PICK d : d = I!Rest(c, e, id)
    OBVIOUS
  <2>3. d.walk = walks
    BY <1>2, <2>1, <2>2 DEF I!Rest, AliasCalls
  <2>4. \A x \in AliasEnds : walks[x] = IF x = e THEN I!Walk(id) ELSE c.walk[x]
    BY <2>1 DEF AliasCalls
  <2>5. \A x \in AliasEnds : walks[x].at \in walks[x].seen /\ walks[x].hops < MaxAliases
    BY <2>4, WalkStarts DEF OnItsWay
  <2>. QED
    BY <2>2, <2>3, <2>5 DEF OnItsWay
<1>. QED
  BY <1>1, <1>2

LEMMA LookupGoes ==
  ASSUME AliasInv, WalksGo, NEW i \in Walkers, NEW e \in AliasEnds, I!DbLookup(i, e)
  PROVE  \E c : OnItsWay(c) /\ walker' = [walker EXCEPT ![i] = c]
<1>1. PICK c : c = walker[i]
  OBVIOUS
<1>2. PICK w : w = c.walk[e]
  OBVIOUS
<1>3. PICK next : next = alias[w.at]
  OBVIOUS
<1>4. walker' = [walker EXCEPT ![i] =
          IF next \in {None} \cup w.seen THEN I!Rest(c, e, w.at)
          ELSE IF w.hops + 1 = MaxAliases THEN I!Rest(c, e, next)
          ELSE [c EXCEPT !.walk[e] = I!Advance(w, next)]]
  BY <1>1, <1>2, <1>3 DEF I!DbLookup
<1>5. c \in AliasCalls /\ OnItsWay(c)
  BY <1>1 DEF I!DbLookup, I!Resolving, I!Busy, AliasInv, GoodCall, WalksGo
<1>6. w \in AliasWalks /\ w.at \in AgentIds /\ w.hops \in Nat /\ w.hops < MaxAliases
  BY <1>2, <1>5 DEF AliasCalls, AliasWalks, OnItsWay
<1>7. next \in AgentIds \cup {None}
  BY <1>3, <1>6 DEF AliasInv, AliasTables
<1>8. CASE next \in {None} \cup w.seen
  BY <1>4, <1>5, <1>6, <1>8, RestGoes
<1>9. CASE next \notin {None} \cup w.seen /\ w.hops + 1 = MaxAliases
  BY <1>4, <1>5, <1>7, <1>9, RestGoes
<1>10. CASE next \notin {None} \cup w.seen /\ w.hops + 1 # MaxAliases
  <2>1. PICK v : v = I!Advance(w, next)
    OBVIOUS
  <2>2. v.at = next /\ v.seen = w.seen \cup {next} /\ v.hops = w.hops + 1
    BY <1>6, <2>1 DEF I!Advance, AliasWalks
  <2>3. v.at \in v.seen /\ v.hops < MaxAliases
    BY <1>6, <1>10, <2>2, AliasConstants
  <2>4. PICK walks : walks = [c.walk EXCEPT ![e] = v]
    OBVIOUS
  <2>5. PICK d : d = [c EXCEPT !.walk = walks]
    OBVIOUS
  <2>6. walker' = [walker EXCEPT ![i] = d]
    BY <1>4, <1>10, <2>1, <2>4, <2>5
  <2>7. d.walk = walks
    BY <1>5, <2>5 DEF AliasCalls
  <2>8. \A x \in AliasEnds : walks[x] = IF x = e THEN v ELSE c.walk[x]
    BY <1>5, <2>4 DEF AliasCalls
  <2>9. OnItsWay(d)
    BY <1>5, <2>3, <2>7, <2>8 DEF OnItsWay
  <2>. QED
    BY <2>6, <2>9
<1>. QED
  BY <1>8, <1>9, <1>10

LEMMA RemintGoes ==
  ASSUME AliasInv, WalksGo, NEW old \in AgentIds, NEW new \in AgentIds, I!RecordRemint(old, new)
  PROVE  WalksGo'
<1>1. ASSUME NEW m \in messages' PROVE BetweenTwo(m)
  <2>1. PICK n \in messages : \E fresh : m = [n EXCEPT !.fresh = fresh]
    BY <1>1 DEF I!RecordRemint
  <2>2. n \in AliasMessages /\ BetweenTwo(n)
    BY DEF AliasInv, GoodMessage, WalksGo
  <2>3. PICK fresh : m = [n EXCEPT !.fresh = fresh]
    BY <2>1
  <2>4. m.stored = n.stored
    BY <2>2, <2>3 DEF AliasMessages
  <2>. QED
    BY <2>2, <2>4 DEF BetweenTwo
<1>2. ASSUME NEW i \in Walkers, walker'[i] # None PROVE OnItsWay(walker'[i])
  <2>1. walker[i] # None /\ \E fresh : walker'[i] = [walker[i] EXCEPT !.fresh = fresh]
    BY <1>2 DEF I!RecordRemint, I!Busy
  <2>2. PICK c \in AliasCalls : c = walker[i] /\ OnItsWay(c)
    BY <2>1 DEF AliasInv, GoodCall, WalksGo
  <2>3. PICK fresh : walker'[i] = [c EXCEPT !.fresh = fresh]
    BY <2>1, <2>2
  <2>4. walker'[i].walk = c.walk
    BY <2>2, <2>3 DEF AliasCalls
  <2>. QED
    BY <2>2, <2>4 DEF OnItsWay
<1>. QED
  BY <1>1, <1>2 DEF WalksGo, OnItsWay, BetweenTwo

LEMMA WalksGoOn == ASSUME AliasInv, WalksGo, I!Next \/ UNCHANGED aliases PROVE WalksGo'
<1>1. ASSUME NEW i \in Walkers, NEW c, c = None \/ OnItsWay(c),
             walker' = [walker EXCEPT ![i] = c], \A m \in messages' : BetweenTwo(m)
      PROVE  WalksGo'
  <2>1. ASSUME NEW j \in Walkers, walker'[j] # None PROVE OnItsWay(walker'[j])
    <3>1. PICK d : d = walker'[j]
      OBVIOUS
    <3>2. OnItsWay(d)
      BY <1>1, <2>1, <3>1 DEF AliasInv, WalksGo
    <3>. QED
      BY <3>1, <3>2
  <2>. QED
    BY <1>1, <2>1 DEF WalksGo, OnItsWay, BetweenTwo
<1>2. \A m \in messages : BetweenTwo(m)
  BY DEF WalksGo
<1>3. ASSUME NEW i \in Walkers, NEW do \in {"send", "list", "read"}, NEW route \in BOOLEAN,
             NEW self \in AgentIds, NEW peer \in AgentIds, I!Begin(i, do, route, self, peer)
      PROVE  WalksGo'
  <2>1. PICK named : named = [self |-> self, peer |-> peer]
    OBVIOUS
  <2>2. PICK walks : walks = [e \in I!Ends |-> I!Walk(named[e])]
    OBVIOUS
  <2>3. PICK c : c = [do |-> do, route |-> route, given |-> named, named |-> named, fresh |-> TRUE,
                      walk |-> walks,
                      rounds |-> IF route THEN <<{"self"}>> ELSE I!Rounds(do)]
    OBVIOUS
  <2>4. walker' = [walker EXCEPT ![i] = c] /\ UNCHANGED messages
    BY <1>3, <2>1, <2>2, <2>3 DEF I!Begin
  <2>5. c.walk = walks /\ \A e \in AliasEnds : walks[e] = I!Walk(named[e])
    BY <2>2, <2>3, Around
  <2>6. \A e \in AliasEnds : walks[e].at \in walks[e].seen /\ walks[e].hops < MaxAliases
    BY <2>5, WalkStarts
  <2>7. OnItsWay(c)
    BY <2>5, <2>6 DEF OnItsWay
  <2>. QED
    BY <1>1, <1>2, <2>4, <2>7
<1>4. ASSUME NEW i \in Walkers, NEW e \in I!Ends, I!DbLookup(i, e) PROVE WalksGo'
  <2>1. UNCHANGED messages
    BY <1>4 DEF I!DbLookup
  <2>2. PICK c : OnItsWay(c) /\ walker' = [walker EXCEPT ![i] = c]
    BY <1>4, LookupGoes, Around
  <2>. QED
    BY <1>1, <1>2, <2>1, <2>2
<1>5. ASSUME NEW i \in Walkers, NEW e \in I!Ends, I!LookupFails(i, e) PROVE WalksGo'
  <2>1. PICK c \in AliasCalls : c = walker[i] /\ OnItsWay(c)
    BY <1>5 DEF I!LookupFails, I!Resolving, I!Busy, AliasInv, GoodCall, WalksGo
  <2>2. PICK id, d :
          /\ id \in {c.walk[e].at, c.walk[e].start} /\ d = [c EXCEPT !.fresh = FALSE]
          /\ walker' = [walker EXCEPT ![i] = I!Rest(d, e, id)]
    BY <1>5, <2>1 DEF I!LookupFails
  <2>3. id \in AgentIds /\ e \in AliasEnds
    BY <2>1, <2>2, Around DEF AliasCalls, AliasWalks
  <2>4. d \in AliasCalls /\ d.walk = c.walk
    BY <2>1, <2>2 DEF AliasCalls
  <2>5. OnItsWay(d)
    BY <2>1, <2>4 DEF OnItsWay
  <2>6. OnItsWay(I!Rest(d, e, id)) /\ UNCHANGED messages
    BY <1>5, <2>3, <2>4, <2>5, RestGoes DEF I!LookupFails
  <2>. QED
    BY <1>1, <1>2, <2>2, <2>6
<1>6. ASSUME NEW i \in Walkers, I!SendDirectMessage(i) PROVE WalksGo'
  <2>1. walker' = [walker EXCEPT ![i] = None]
    BY <1>6 DEF I!SendDirectMessage, I!Leave
  <2>2. ASSUME NEW m \in messages' PROVE BetweenTwo(m)
    <3>1. CASE m \in messages
      BY <1>2, <3>1
    <3>2. CASE m \notin messages
      <4>1. PICK a, b, given, fresh :
              /\ a # b /\ b \in RegisteredIds
              /\ m = [given |-> given, stored |-> [self |-> a, peer |-> b], read |-> FALSE,
                      fresh |-> fresh]
        BY <1>6, <2>2, <3>2 DEF I!SendDirectMessage
      <4>. QED
        BY <4>1 DEF BetweenTwo
    <3>. QED
      BY <3>1, <3>2
  <2>. QED
    BY <1>1, <2>1, <2>2
<1>7. ASSUME NEW i \in Walkers, I!ListThread(i) PROVE WalksGo'
  <2>1. PICK c \in AliasCalls : c = walker[i]
    BY <1>7 DEF I!ListThread, I!At, I!Busy, AliasInv, GoodCall
  <2>2. /\ UNCHANGED messages
        /\ \/ walker' = [walker EXCEPT ![i] = None]
           \/ walker' = [walker EXCEPT ![i] = I!Restart(c, Tail(c.rounds))]
    BY <1>7, <2>1 DEF I!ListThread, I!Leave
  <2>. QED
    BY <1>1, <1>2, <2>1, <2>2, RestartGoes
<1>8. ASSUME NEW i \in Walkers, I!MarkThreadRead(i) PROVE WalksGo'
  <2>1. walker' = [walker EXCEPT ![i] = None]
    BY <1>8 DEF I!MarkThreadRead, I!Leave
  <2>2. ASSUME NEW m \in messages' PROVE BetweenTwo(m)
    <3>1. PICK n \in messages : m = n \/ m = [n EXCEPT !.read = TRUE]
      BY <1>8, <2>2 DEF I!MarkThreadRead
    <3>2. n \in AliasMessages /\ BetweenTwo(n)
      BY <1>2 DEF AliasInv, GoodMessage
    <3>3. m.stored = n.stored
      BY <3>1, <3>2 DEF AliasMessages
    <3>. QED
      BY <3>2, <3>3 DEF BetweenTwo
  <2>. QED
    BY <1>1, <2>1, <2>2
<1>9. ASSUME UNCHANGED aliases PROVE WalksGo'
  BY <1>9 DEF aliases, WalksGo, OnItsWay, BetweenTwo
<1>10. CASE I!Browse
  BY <1>9, <1>10 DEF I!Browse, I!aliases, aliases
<1>. QED
  BY <1>3, <1>4, <1>5, <1>6, <1>7, <1>8, <1>9, <1>10, RemintGoes DEF I!Next

LEMMA AliasTyped == ASSUME AliasInv, WalksGo PROVE I!TypeOK
<1>1. alias \in [AgentIds -> AgentIds \cup {None}]
  BY DEF AliasInv, AliasTables
<1>. QED
  BY <1>1, Around DEF I!TypeOK, I!Busy, WalksGo, OnItsWay, BetweenTwo

-----------------------------------------------------------------------------
(* Shapes: of riders' calls; a counter never passes the calls that began. *)

\* What a door is for (Passport's lists of routes and tools).
LEMMA RestWorks == ASSUME NEW l, NEW s, NEW b, NEW work PROVE R!Rest(l, s, b, work).work = work
BY DEF R!Rest
LEMMA ToolWorks == ASSUME NEW s, NEW b, NEW work PROVE R!RequireRider(s, b, work).work = work
BY DEF R!RequireRider
LEMMA AnyoneWorks == ASSUME NEW work PROVE R!Anyone(work).work = work
BY DEF R!Anyone

LEMMA DoorsWork == \A row \in R!Doors : row.work \in R!Works
<1>. DEFINE works == {"read", "mark", "write", "spend"}
<1>1. \A row \in {R!RestTaskPost, R!RestTaskCancel, R!RestTaskClaim, R!RestTaskSubmit,
                  R!RestTaskApprove, R!RestTaskReject, R!RestSpend, R!RestTransfer,
                  R!RestPurchase} : row.work \in works
  BY RestWorks DEF R!RestTaskPost, R!RestTaskCancel, R!RestTaskClaim, R!RestTaskSubmit,
     R!RestTaskApprove, R!RestTaskReject, R!RestSpend, R!RestTransfer, R!RestPurchase
<1>2. \A row \in {R!RestClaim, R!RestStake, R!RestResolveClaim, R!RestThought, R!RestQuery,
                  R!RestAnswer, R!RestPrediction, R!RestResolvePrediction} : row.work \in works
  BY RestWorks DEF R!RestClaim, R!RestStake, R!RestResolveClaim, R!RestThought,
     R!RestQuery, R!RestAnswer, R!RestPrediction, R!RestResolvePrediction
<1>3. \A row \in {R!RestPost, R!RestLike, R!RestComment, R!RestFollow, R!RestChannelPost,
                  R!RestDm, R!RestPublish, R!RestInstall} : row.work \in works
  BY RestWorks DEF R!RestPost, R!RestLike, R!RestComment, R!RestFollow,
     R!RestChannelPost, R!RestDm, R!RestPublish, R!RestInstall
<1>4. \A row \in {R!RestHistory, R!RestBalance, R!RestNotifications, R!RestNotificationRead,
                  R!RestThread, R!DemoCatalog, R!DemoCheckout, R!DemoAccount} : row.work \in works
  BY RestWorks DEF R!RestHistory, R!RestBalance, R!RestNotifications,
     R!RestNotificationRead, R!RestThread, R!DemoCatalog, R!DemoCheckout, R!DemoAccount
<1>5. \A row \in R!RestDoors : row.work \in works
  BY <1>1, <1>2, <1>3, <1>4 DEF R!RestDoors
<1>6. \A row \in R!McpRegister \cup R!McpReputation \cup R!McpBrowse \cup R!McpLab :
        row.work \in works
  BY AnyoneWorks DEF R!McpRegister, R!McpReputation, R!McpBrowse, R!McpLab
<1>7. \A row \in R!McpBalance \cup R!McpTasks \cup R!McpCredits : row.work \in works
  BY ToolWorks DEF R!McpBalance, R!McpTasks, R!McpCredits
<1>8. \A row \in R!McpClaims : row.work \in works
  <2>1. PICK row : row = R!RequireRider(<<"claims", "resolve">>, None, "write")
    OBVIOUS
  <2>2. PICK resolve : resolve = [row EXCEPT !.door = "gate", !.level = 3]
    OBVIOUS
  <2>3. resolve.work = "write"
    BY <2>1, <2>2 DEF R!RequireRider
  <2>4. R!McpClaims = {R!RequireRider(<<"claims", "post">>, None, "write"),
                       R!RequireRider(<<"claims", "stake">>, None, "write"), resolve}
    BY <2>1, <2>2 DEF R!McpClaims
  <2>. QED
    BY <2>3, <2>4, ToolWorks
<1>9. \A row \in R!McpComms \cup R!McpSocial : row.work \in works
  BY ToolWorks DEF R!McpComms, R!McpSocial
<1>10. \A row \in R!McpMessages \cup R!McpMarket \cup R!McpPlanes : row.work \in works
  BY ToolWorks, AnyoneWorks DEF R!McpMessages, R!McpMarket, R!McpPlanes
<1>. QED
  BY <1>5, <1>6, <1>7, <1>8, <1>9, <1>10 DEF R!Doors, R!Works

\* As one invocation goes on, those whose calls are of some kind are one more or
\* one less.
Those(f, S) == {v \in Workers : f[v] \in S}

LEMMA ThoseMove ==
  ASSUME NEW f, DOMAIN f = Workers, NEW w \in Workers, NEW c, NEW g, g = [f EXCEPT ![w] = c], NEW S
  PROVE  /\ Cardinality(Those(f, S)) \in Nat /\ Cardinality(Those(g, S)) \in Nat
         /\ Cardinality(Those(g, S)) <= Cardinality(Those(f, S)) + 1
         /\ c \notin S => Cardinality(Those(g, S)) <= Cardinality(Those(f, S))
         /\ f[w] \in S => Cardinality(Those(g, S)) <= Cardinality(Those(f, S))
         /\ f[w] \in S /\ c \notin S => Cardinality(Those(g, S)) + 1 <= Cardinality(Those(f, S))
<1>. DEFINE old == Those(f, S)
            new == Those(g, S)
<1>1. g[w] = c /\ \A v \in Workers \ {w} : g[v] = f[v]
  OBVIOUS
<1>2. /\ c \in S => new = old \cup {w}
      /\ c \notin S => new = old \ {w}
      /\ w \in old <=> f[w] \in S
  BY <1>1 DEF Those
<1>3. IsFiniteSet(old) /\ IsFiniteSet(new)
  <2>1. old \in SUBSET Workers /\ new \in SUBSET Workers
    BY DEF Those
  <2>. QED
    BY <2>1, CallConstants, FS_Subset
<1>. HIDE DEF old, new
<1>4. PICK n \in Nat, m \in Nat : n = Cardinality(old) /\ m = Cardinality(new)
  BY <1>3, FS_CardinalityType
<1>5. CASE c \in S
  <2>1. m = IF w \in old THEN n ELSE n + 1
    BY <1>2, <1>3, <1>4, <1>5, FS_AddElement
  <2>. QED
    BY <1>2, <1>4, <1>5, <2>1 DEF old, new
<1>6. CASE c \notin S
  <2>1. m = IF w \in old THEN n - 1 ELSE n
    BY <1>2, <1>3, <1>4, <1>6, FS_RemoveElement
  <2>. QED
    BY <1>2, <1>4, <1>6, <2>1 DEF old, new
<1>. QED
  BY <1>5, <1>6

LEMMA ThoseCounted == ASSUME NEW f, NEW S PROVE Cardinality(Those(f, S)) \in Nat
<1>1. Those(f, S) \in SUBSET Workers
  BY DEF Those
<1>. QED
  BY <1>1, CallConstants, FS_Subset, FS_CardinalityType

\* Calls that will still count, or be refused.
Counting(who, bucket) ==
  {c \in GateCalls \ {None} : /\ c.at \in {"revoked", "count"}
                             /\ Claims[c.rider].agent = who /\ c.open.bucket = bucket}
Idle(c) == \A who, bucket : c \notin Counting(who, bucket)

\* Time, scenes and tables; a call is numbered as it begins.
Begun ==
  /\ scene \in R!Buckets \cup {None, "list"} /\ outage \subseteq {"revoked_tokens", "rate_limits"}
  /\ window \in 0..MaxTime
  /\ \A w \in Workers : gate[w] # None => gate[w].call < begun
  /\ \A did \in admitted : did.call \in Nat /\ did.call < begun /\ did.open.work \in R!Works
\* A rider is listed once, and only if its holder was told so.
ListedOnce ==
  /\ \A i, j \in 1..Len(listed) : listed[i] = listed[j] => i = j
  /\ \A i \in 1..Len(listed) : cancelled[listed[i]] # None
  /\ edge # None => edge.at \in Nat /\ edge.at <= window /\ edge.jtis \subseteq Riders
\* What was counted has begun.
CountedBegan ==
  \A who \in R!Agents, bucket \in R!Buckets :
    counts[who][bucket] + Cardinality(Those(gate, Counting(who, bucket))) <= begun
RidersTyped == Begun /\ ListedOnce /\ CountedBegan

\* Where no counter moves and no new call waits.
LEMMA CountedStays ==
  ASSUME GateInv, WindowsKept, CountedBegan, NEW w \in Workers, NEW c,
         gate' = [gate EXCEPT ![w] = c], UNCHANGED <<counts, begun>>,
         \A who, bucket : c \in Counting(who, bucket) => gate[w] \in Counting(who, bucket)
  PROVE  CountedBegan'
<1>1. DOMAIN gate = Workers /\ begun \in Nat
  BY DEF GateInv, GateShapes
<1>2. ASSUME NEW who \in R!Agents, NEW bucket \in R!Buckets
      PROVE  counts[who][bucket] + Cardinality(Those(gate', Counting(who, bucket))) <= begun
  <2>1. /\ Cardinality(Those(gate, Counting(who, bucket))) \in Nat
        /\ Cardinality(Those(gate', Counting(who, bucket))) \in Nat
        /\ Cardinality(Those(gate', Counting(who, bucket)))
             <= Cardinality(Those(gate, Counting(who, bucket)))
    BY <1>1, ThoseMove
  <2>2. counts[who][bucket] \in Nat
    BY DEF WindowsKept
  <2>3. counts[who][bucket] + Cardinality(Those(gate, Counting(who, bucket))) <= begun
    BY DEF CountedBegan
  <2>. QED
    BY <1>1, <2>1, <2>2, <2>3
<1>. QED
  BY <1>2 DEF CountedBegan

\* A call that begins may count for one.
LEMMA CountedBegins ==
  ASSUME GateInv, WindowsKept, CountedBegan, NEW w \in Workers, NEW c,
         gate' = [gate EXCEPT ![w] = c], UNCHANGED counts, begun' = begun + 1
  PROVE  CountedBegan'
<1>1. DOMAIN gate = Workers /\ begun \in Nat
  BY DEF GateInv, GateShapes
<1>2. ASSUME NEW who \in R!Agents, NEW bucket \in R!Buckets
      PROVE  counts[who][bucket] + Cardinality(Those(gate', Counting(who, bucket))) <= begun + 1
  <2>1. /\ Cardinality(Those(gate, Counting(who, bucket))) \in Nat
        /\ Cardinality(Those(gate', Counting(who, bucket))) \in Nat
        /\ Cardinality(Those(gate', Counting(who, bucket)))
             <= Cardinality(Those(gate, Counting(who, bucket))) + 1
    BY <1>1, ThoseMove
  <2>2. counts[who][bucket] \in Nat
    BY DEF WindowsKept
  <2>3. counts[who][bucket] + Cardinality(Those(gate, Counting(who, bucket))) <= begun
    BY DEF CountedBegan
  <2>. QED
    BY <1>1, <2>1, <2>2, <2>3
<1>. QED
  BY <1>2 DEF CountedBegan

\* At most one counter goes up, by one.
OneMore(his, its) ==
  \A who \in R!Agents, bucket \in R!Buckets :
    counts'[who][bucket] = counts[who][bucket]
      \/ (who = his /\ bucket = its /\ counts'[who][bucket] = counts[who][bucket] + 1)

\* Counting takes a call out of those that wait, for its own counter.
LEMMA CountedOne ==
  ASSUME GateInv, WindowsKept, CountedBegan, NEW w \in Workers, NEW c,
         gate' = [gate EXCEPT ![w] = c], UNCHANGED begun, NEW his, NEW its,
         Idle(c), gate[w] \in Counting(his, its), OneMore(his, its)
  PROVE  CountedBegan'
<1>1. DOMAIN gate = Workers /\ begun \in Nat
  BY DEF GateInv, GateShapes
<1>2. ASSUME NEW who \in R!Agents, NEW bucket \in R!Buckets
      PROVE  counts'[who][bucket] + Cardinality(Those(gate', Counting(who, bucket))) <= begun
  <2>1. PICK n \in Nat, m \in Nat, k \in Nat :
          /\ n = Cardinality(Those(gate, Counting(who, bucket)))
          /\ m = Cardinality(Those(gate', Counting(who, bucket)))
          /\ k = counts[who][bucket]
    BY ThoseCounted DEF WindowsKept
  <2>2. k + n <= begun
    BY <2>1 DEF CountedBegan
  <2>3. c \notin Counting(who, bucket)
    BY DEF Idle
  <2>4. counts'[who][bucket] = k
          \/ (who = his /\ bucket = its /\ counts'[who][bucket] = k + 1)
    BY <2>1 DEF OneMore
  <2>5. m <= n
    BY <1>1, <2>1, <2>3, ThoseMove
  <2>6. CASE who = his /\ bucket = its
    <3>1. gate[w] \in Counting(who, bucket)
      BY <2>6
    <3>2. m + 1 <= n
      BY <1>1, <2>1, <2>3, <3>1, ThoseMove
    <3>. QED
      BY <1>1, <2>1, <2>2, <2>4, <2>5, <3>2
  <2>. QED
    BY <1>1, <2>1, <2>2, <2>4, <2>5, <2>6
<1>. QED
  BY <1>2 DEF CountedBegan

LEMMA CountedOnce ==
  ASSUME GateInv, WindowsKept, CountedBegan, NEW w \in Workers, R!CheckRateLimit(w)
  PROVE  CountedBegan'
<1>1. gate[w] # None /\ gate[w].at = "count" /\ gate[w] \in GateCalls /\ UNCHANGED begun
  BY DEF R!CheckRateLimit, GateInv, GateShapes
<1>2. PICK d : d = [gate[w] EXCEPT !.at = "do", !.window = window]
  OBVIOUS
<1>3. d.at = "do"
  BY <1>1, <1>2 DEF GateCalls
<1>4. gate' = [gate EXCEPT ![w] = d] \/ gate' = [gate EXCEPT ![w] = None]
  BY <1>2 DEF R!CheckRateLimit, R!Counted, R!Ended
<1>5. PICK his, its : his = Claims[gate[w].rider].agent /\ its = gate[w].open.bucket
  OBVIOUS
<1>6. gate[w] \in Counting(his, its)
  BY <1>1, <1>5 DEF Counting
<1>7. \A who, bucket : d \notin Counting(who, bucket) /\ None \notin Counting(who, bucket)
  BY <1>3 DEF Counting
<1>8. OneMore(his, its)
  <2>1. counts' = counts \/ counts' = [counts EXCEPT ![his][its] = @ + 1]
    BY <1>5 DEF R!CheckRateLimit
  <2>2. counts \in [R!Agents -> [R!Buckets -> Nat]]
    BY DEF WindowsKept
  <2>. QED
    BY <2>1, <2>2 DEF OneMore
<1>9. CASE gate' = [gate EXCEPT ![w] = d]
  <2>1. Idle(d)
    BY <1>7 DEF Idle
  <2>2. UNCHANGED begun
    BY <1>1
  <2>. QED
    BY <1>6, <1>8, <1>9, <2>1, <2>2, CountedOne
<1>10. CASE gate' = [gate EXCEPT ![w] = None]
  <2>1. Idle(None)
    BY <1>7 DEF Idle
  <2>2. UNCHANGED begun
    BY <1>1
  <2>. QED
    BY <1>6, <1>8, <1>10, <2>1, <2>2, CountedOne
<1>. QED
  BY <1>4, <1>9, <1>10

\* Every counter starts a window at nothing.
LEMMA CountedTicks ==
  ASSUME GateInv, WindowsKept, CountedBegan, R!Tick PROVE CountedBegan'
<1>1. UNCHANGED <<gate, begun>>
      /\ counts' = [who \in R!Agents |-> [bucket \in R!Buckets |-> 0]]
  BY DEF R!Tick
<1>2. ASSUME NEW who \in R!Agents, NEW bucket \in R!Buckets
      PROVE  counts'[who][bucket] + Cardinality(Those(gate, Counting(who, bucket))) <= begun
  <2>1. PICK n \in Nat, k \in Nat :
          n = Cardinality(Those(gate, Counting(who, bucket))) /\ k = counts[who][bucket]
    BY ThoseCounted DEF WindowsKept
  <2>2. k + n <= begun /\ begun \in Nat /\ counts'[who][bucket] = 0
    BY <1>1, <2>1 DEF CountedBegan, GateInv, GateShapes
  <2>. QED
    BY <2>1, <2>2
<1>. QED
  BY <1>1, <1>2 DEF CountedBegan

LEMMA CountedOn ==
  ASSUME GateInv, WindowsKept, CountedBegan, R!Next \/ UNCHANGED riders PROVE CountedBegan'
<1>1. ASSUME UNCHANGED <<gate, counts>>, begun' = begun \/ begun' = begun + 1 PROVE CountedBegan'
  <2>1. ASSUME NEW who \in R!Agents, NEW bucket \in R!Buckets
        PROVE  counts[who][bucket] + Cardinality(Those(gate, Counting(who, bucket))) <= begun'
    <3>1. PICK n \in Nat, k \in Nat :
            n = Cardinality(Those(gate, Counting(who, bucket))) /\ k = counts[who][bucket]
      BY ThoseCounted DEF WindowsKept
    <3>2. k + n <= begun /\ begun \in Nat
      BY <3>1 DEF CountedBegan, GateInv, GateShapes
    <3>. QED
      BY <1>1, <3>1, <3>2
  <2>. QED
    BY <1>1, <2>1 DEF CountedBegan
<1>2. CASE UNCHANGED riders
  BY <1>1, <1>2 DEF riders
<1>3. ASSUME NEW w \in Workers, R!Unguarded(w) PROVE CountedBegan'
  BY <1>1, <1>3 DEF R!Unguarded
<1>4. ASSUME NEW w \in Workers, NEW r \in Riders, R!Begin(w, r) PROVE CountedBegan'
  <2>1. \E c : gate' = [gate EXCEPT ![w] = c]
    BY <1>4 DEF R!Begin
  <2>. QED
    BY <1>4, <2>1, CountedBegins DEF R!Begin
<1>5. ASSUME NEW w \in Workers, R!Refuse(w) \/ R!Do(w) PROVE CountedBegan'
  <2>1. gate' = [gate EXCEPT ![w] = None] /\ UNCHANGED <<counts, begun>>
    BY <1>5 DEF R!Refuse, R!Do, R!Ended
  <2>. QED
    BY <2>1, CountedStays DEF Counting
<1>6. ASSUME NEW w \in Workers, R!CheckRevoked(w) PROVE CountedBegan'
  <2>1. PICK g \in GateCalls : g = gate[w] /\ g # None /\ g.at = "revoked"
    BY <1>6 DEF R!CheckRevoked, GateInv, GateShapes
  <2>2. PICK d : d = [g EXCEPT !.at = IF g.open.bucket = None THEN "do" ELSE "count"]
    OBVIOUS
  <2>3. /\ gate' = [gate EXCEPT ![w] = None] \/ gate' = [gate EXCEPT ![w] = d]
        /\ UNCHANGED <<counts, begun>>
    BY <1>6, <2>1, <2>2 DEF R!CheckRevoked, R!Ended
  <2>4. d.rider = g.rider /\ d.open = g.open
    BY <2>2 DEF GateCalls
  <2>5. \A who, bucket : d \in Counting(who, bucket) => g \in Counting(who, bucket)
    BY <2>1, <2>4 DEF Counting
  <2>6. \A who, bucket : None \notin Counting(who, bucket)
    BY DEF Counting
  <2>7. CASE gate' = [gate EXCEPT ![w] = None]
    BY <2>3, <2>6, <2>7, CountedStays
  <2>8. CASE gate' = [gate EXCEPT ![w] = d]
    BY <2>1, <2>3, <2>5, <2>8, CountedStays
  <2>. QED
    BY <2>3, <2>7, <2>8
<1>7. CASE (\E r \in Riders : R!Revoke(r) \/ R!VerifyRiderCredential(r)) \/ R!PublishList
  BY <1>1, <1>7 DEF R!Revoke, R!VerifyRiderCredential, R!PublishList
<1>. QED
  BY <1>2, <1>3, <1>4, <1>5, <1>6, <1>7, CountedOnce, CountedTicks DEF R!Next

\* Time, scenes and the calls' numbers.
LEMMA BegunOn ==
  ASSUME GateInv, Begun, R!Next \/ UNCHANGED riders PROVE Begun'
<1>0. /\ begun \in Nat /\ MaxTime \in Nat /\ gate \in [Workers -> {None} \cup GateCalls]
      /\ \A w \in Workers : gate[w] # None => gate[w].call < begun
  BY RiderConstants DEF Begun, GateInv, GateShapes
<1>. DEFINE Numbers == /\ \A w \in Workers : gate[w] # None => gate[w].call < begun
                       /\ \A did \in admitted : /\ did.call \in Nat /\ did.call < begun
                                                /\ did.open.work \in R!Works
<1>1. ASSUME UNCHANGED <<scene, outage>>, window' \in 0..MaxTime, Numbers' PROVE Begun'
  BY <1>1 DEF Begun
<1>2. window \in 0..MaxTime /\ Numbers
  BY DEF Begun
<1>3. \A row \in R!Doors : R!Residual(row).work \in R!Works
  BY DoorsWork DEF R!Residual
<1>4. CASE UNCHANGED riders
  BY <1>4 DEF riders, Begun
<1>5. ASSUME NEW w \in Workers, R!Unguarded(w) PROVE Begun'
  <2>1. PICK row \in R!Doors : admitted' = admitted \cup
          {[call |-> begun, rider |-> None, open |-> R!Residual(row), late |-> FALSE,
            window |-> None]}
    BY <1>5 DEF R!Unguarded
  <2>2. begun' = begun + 1 /\ UNCHANGED <<scene, outage, window, gate>>
    BY <1>5 DEF R!Unguarded
  <2>3. \A v \in Workers : gate[v] # None => gate[v].call \in Nat
    BY <1>0 DEF GateCalls
  <2>4. \A v \in Workers : gate'[v] # None => gate'[v].call < begun'
    BY <1>0, <2>2, <2>3
  <2>5. \A did \in admitted' : did.call \in Nat /\ did.call < begun' /\ did.open.work \in R!Works
    BY <1>0, <1>2, <1>3, <2>1, <2>2
  <2>. QED
    BY <1>1, <1>2, <2>2, <2>4, <2>5
<1>6. ASSUME NEW w \in Workers, NEW r \in Riders, R!Begin(w, r) PROVE Begun'
  <2>1. PICK c : gate' = [gate EXCEPT ![w] = c] /\ c.call = begun
    <3>1. PICK open \in may[r] : gate' = [gate EXCEPT ![w] =
            [call |-> begun, rider |-> r, open |-> open, late |-> cancelled[r] # None,
             at |-> "revoked", window |-> None]]
      BY <1>6 DEF R!Begin
    <3>2. PICK c : c = [call |-> begun, rider |-> r, open |-> open, late |-> cancelled[r] # None,
                        at |-> "revoked", window |-> None]
      OBVIOUS
    <3>3. c.call = begun
      BY <3>2
    <3>4. gate' = [gate EXCEPT ![w] = c]
      BY <3>1, <3>2
    <3>. QED
      BY <3>3, <3>4
  <2>2. begun' = begun + 1 /\ UNCHANGED <<scene, outage, window, admitted>>
    BY <1>6 DEF R!Begin
  <2>3. \A v \in Workers : gate[v] # None => gate[v].call \in Nat
    BY <1>0 DEF GateCalls
  <2>4. \A v \in Workers : gate'[v] # None => gate'[v].call < begun'
    BY <1>0, <2>1, <2>2, <2>3
  <2>5. \A did \in admitted' : did.call \in Nat /\ did.call < begun' /\ did.open.work \in R!Works
    BY <1>0, <1>2, <2>2
  <2>. QED
    BY <1>1, <1>2, <2>2, <2>4, <2>5
<1>7. ASSUME NEW w \in Workers, gate[w] # None, NEW c, gate' = [gate EXCEPT ![w] = c],
             c = None \/ c.call = gate[w].call, UNCHANGED <<scene, outage, window, begun, admitted>>
      PROVE  Begun'
  <2>1. \A v \in Workers : gate'[v] # None => gate'[v].call < begun
    BY <1>0, <1>7
  <2>. QED
    BY <1>1, <1>2, <1>7, <2>1
<1>8. ASSUME NEW w \in Workers, R!CheckRevoked(w) PROVE Begun'
  <2>1. PICK g \in GateCalls : g = gate[w] /\ g # None
    BY <1>0, <1>8 DEF R!CheckRevoked
  <2>2. PICK d : d = [g EXCEPT !.at = IF g.open.bucket = None THEN "do" ELSE "count"]
    OBVIOUS
  <2>3. d.call = g.call
    BY <2>2 DEF GateCalls
  <2>4. gate' = [gate EXCEPT ![w] = None] \/ gate' = [gate EXCEPT ![w] = d]
    BY <1>8, <2>1, <2>2 DEF R!CheckRevoked, R!Ended
  <2>5. UNCHANGED <<scene, outage, window, begun, admitted>>
    BY <1>8 DEF R!CheckRevoked
  <2>. QED
    BY <1>7, <2>1, <2>3, <2>4, <2>5
<1>9. ASSUME NEW w \in Workers, R!CheckRateLimit(w) PROVE Begun'
  <2>1. PICK g \in GateCalls : g = gate[w] /\ g # None
    BY <1>0, <1>9 DEF R!CheckRateLimit
  <2>2. PICK d : d = [g EXCEPT !.at = "do", !.window = window]
    OBVIOUS
  <2>3. d.call = g.call
    BY <2>2 DEF GateCalls
  <2>4. gate' = [gate EXCEPT ![w] = None] \/ gate' = [gate EXCEPT ![w] = d]
    BY <1>9, <2>1, <2>2 DEF R!CheckRateLimit, R!Counted, R!Ended
  <2>5. UNCHANGED <<scene, outage, window, begun, admitted>>
    BY <1>9 DEF R!CheckRateLimit
  <2>. QED
    BY <1>7, <2>1, <2>3, <2>4, <2>5
<1>10. ASSUME NEW w \in Workers, R!Refuse(w) PROVE Begun'
  BY <1>7, <1>10 DEF R!Refuse, R!Ended
<1>11. ASSUME NEW w \in Workers, R!Do(w) PROVE Begun'
  <2>1. PICK g \in GateCalls : g = gate[w] /\ g # None
    BY <1>0, <1>11 DEF R!Do
  <2>2. g.rider \in Riders /\ g.open \in may[g.rider] /\ g.call \in Nat /\ g.call < begun
    BY <1>0, <2>1 DEF GateCalls, GateInv, GateShapes
  <2>3. g.open.work \in R!Works
    <3>1. PICK row \in R!Doors : g.open = R!Residual(row)
      BY <2>2 DEF GateInv, GateShapes, OpenTo
    <3>. QED
      BY <1>3, <3>1
  <2>4. /\ admitted' = admitted \cup {[call |-> g.call, rider |-> g.rider, open |-> g.open,
                                       late |-> g.late, window |-> g.window]}
        /\ gate' = [gate EXCEPT ![w] = None] /\ UNCHANGED <<scene, outage, window, begun>>
    BY <1>11, <2>1 DEF R!Do, R!Ended
  <2>5. \A did \in admitted' : did.call \in Nat /\ did.call < begun /\ did.open.work \in R!Works
    BY <1>2, <2>2, <2>3, <2>4
  <2>6. \A v \in Workers : gate'[v] # None => gate'[v].call < begun
    BY <1>0, <2>4
  <2>. QED
    BY <1>1, <1>2, <2>4, <2>5, <2>6
<1>12. CASE (\E r \in Riders : R!Revoke(r) \/ R!VerifyRiderCredential(r)) \/ R!PublishList
  <2>1. UNCHANGED <<scene, outage, window, gate, begun, admitted>>
    BY <1>12 DEF R!Revoke, R!VerifyRiderCredential, R!PublishList
  <2>. QED
    BY <2>1 DEF Begun
<1>13. CASE R!Tick
  <2>1. UNCHANGED <<scene, outage, gate, begun, admitted>> /\ window' \in 0..MaxTime
    BY <1>0, <1>2, <1>13 DEF R!Tick
  <2>. QED
    BY <2>1 DEF Begun
<1>. QED
  BY <1>4, <1>5, <1>6, <1>8, <1>9, <1>10, <1>11, <1>12, <1>13 DEF R!Next

\* A rider comes on the list once, with the answer to its holder.
LEMMA ListedOn ==
  ASSUME GateInv, ListInv, ListedOnce, R!Next \/ UNCHANGED riders PROVE ListedOnce'
<1>1. /\ listed \in Seq(Riders) /\ Len(listed) \in Nat /\ window \in Nat
      /\ cancelled \in [Riders -> Nat \cup {None}] /\ \A i \in 1..Len(listed) : listed[i] \in Riders
  BY DEF ListInv, ListShapes, GateInv, GateShapes
<1>2. ASSUME UNCHANGED <<listed, cancelled, edge>>, window' = window \/ window' = window + 1
      PROVE  ListedOnce'
  BY <1>1, <1>2 DEF ListedOnce
<1>3. ASSUME NEW r \in Riders, R!Revoke(r) PROVE ListedOnce'
  <2>. DEFINE since == IF cancelled[r] = None THEN window ELSE cancelled[r]
  <2>1. /\ UNCHANGED <<window, edge>>
        /\ listed' = listed \/ (r \notin R!ToSet(listed) /\ listed' = Append(listed, r))
        /\ cancelled' = [cancelled EXCEPT ![r] = since]
    BY <1>3 DEF R!Revoke
  <2>2. since # None
    BY <1>1, TimeIsNoNone
  <2>. HIDE DEF since
  <2>3. cancelled'[r] # None /\ \A q \in Riders : cancelled[q] # None => cancelled'[q] # None
    BY <1>1, <2>1, <2>2
  <2>4. CASE listed' = listed
    BY <1>1, <2>1, <2>3, <2>4 DEF ListedOnce
  <2>5. CASE r \notin R!ToSet(listed) /\ listed' = Append(listed, r)
    <3>1. /\ Len(listed') = Len(listed) + 1 /\ listed'[Len(listed) + 1] = r
          /\ \A i \in 1..Len(listed) : listed'[i] = listed[i] /\ listed[i] # r
      BY <1>1, <2>5 DEF R!ToSet
    <3>2. \A i, j \in 1..Len(listed') : listed'[i] = listed'[j] => i = j
      <4>1. \A i \in 1..Len(listed') : i \in 1..Len(listed) \/ i = Len(listed) + 1
        BY <1>1, <3>1
      <4>. QED
        BY <3>1, <4>1 DEF ListedOnce
    <3>3. \A i \in 1..Len(listed') : cancelled'[listed'[i]] # None
      BY <1>1, <2>3, <3>1 DEF ListedOnce
    <3>. QED
      BY <2>1, <3>2, <3>3 DEF ListedOnce
  <2>. QED
    BY <2>1, <2>4, <2>5
<1>4. CASE R!PublishList
  <2>. DEFINE copy == [at |-> window, jtis |-> R!ListRevoked]
  <2>1. edge' = copy /\ UNCHANGED <<window, listed, cancelled>>
    BY <1>4 DEF R!PublishList
  <2>2. copy.at = window /\ copy.jtis = R!ListRevoked
    OBVIOUS
  <2>. HIDE DEF copy
  <2>3. R!ListRevoked \subseteq Riders
    BY <1>1 DEF R!ListRevoked
  <2>. QED
    BY <1>1, <2>1, <2>2, <2>3 DEF ListedOnce
<1>5. CASE UNCHANGED riders
  BY <1>2, <1>5 DEF riders
<1>6. ASSUME R!Next, ~R!PublishList, \A r \in Riders : ~R!Revoke(r) PROVE ListedOnce'
  BY <1>2, <1>6 DEF R!Next, R!Unguarded, R!CheckRevoked, R!CheckRateLimit, R!Refuse, R!Do,
     R!Begin, R!VerifyRiderCredential, R!Tick
<1>. QED
  BY <1>3, <1>4, <1>5, <1>6

LEMMA RidersBegin == ASSUME R!Init PROVE RidersTyped
<1>1. /\ listed = <<>> /\ edge = None /\ admitted = {} /\ begun = 0 /\ window = 0
      /\ gate = [w \in Workers |-> None]
  BY DEF R!Init
<1>2. Begun
  BY <1>1, RiderConstants DEF R!Init, Begun
<1>3. Len(listed) = 0
  BY <1>1
<1>4. ListedOnce
  BY <1>1, <1>3 DEF ListedOnce
<1>5. ASSUME NEW who \in R!Agents, NEW bucket \in R!Buckets
      PROVE  counts[who][bucket] + Cardinality(Those(gate, Counting(who, bucket))) <= begun
  <2>1. \A w \in Workers : gate[w] = None
    BY <1>1
  <2>2. Those(gate, Counting(who, bucket)) = {}
    BY <2>1 DEF Those, Counting
  <2>3. counts[who][bucket] = 0
    BY DEF R!Init
  <2>. QED
    <3>1. Cardinality(Those(gate, Counting(who, bucket))) = 0
      BY <2>2, FS_EmptySet
    <3>. QED
      BY <1>1, <2>3, <3>1
<1>. QED
  BY <1>2, <1>4, <1>5 DEF RidersTyped, CountedBegan

LEMMA RidersStand == ASSUME RiderInv, RidersTyped PROVE R!TypeOK
<1>1. listed \in Seq(Riders) /\ \A i \in 1..Len(listed) : listed[i] \in Riders
  BY DEF RiderInv, ListInv, ListShapes
<1>2. R!ToSet(listed) \subseteq {r \in Riders : cancelled[r] # None}
  BY <1>1 DEF R!ToSet, RidersTyped, ListedOnce
<1>3. R!IsInjective(listed)
  BY <1>1 DEF R!IsInjective, RidersTyped, ListedOnce
<1>4. ASSUME NEW who \in R!Agents, NEW bucket \in R!Buckets
      PROVE  counts[who][bucket] \in 0..begun
  <2>1. PICK k \in Nat : k = counts[who][bucket]
    BY DEF RiderInv, WindowsKept
  <2>2. PICK n \in Nat : n = Cardinality(Those(gate, Counting(who, bucket)))
    BY ThoseCounted
  <2>3. k + n <= begun /\ begun \in Nat
    BY <2>1, <2>2 DEF RidersTyped, CountedBegan, RiderInv, GateInv, GateShapes
  <2>. QED
    BY <2>1, <2>2, <2>3
<1>5. \A w \in Workers :
        gate[w] # None => gate[w].open \in may[gate[w].rider] /\ gate[w].call < begun
  BY DEF RiderInv, GateInv, GateShapes, RidersTyped, Begun
<1>6. edge # None => edge.at <= window /\ edge.jtis \subseteq Riders
  BY DEF RidersTyped, ListedOnce
<1>7. \A did \in admitted : did.call < begun /\ did.open.work \in R!Works
  BY DEF RidersTyped, Begun
<1>8. /\ scene \in R!Buckets \cup {None, "list"}
      /\ outage \subseteq {"revoked_tokens", "rate_limits"}
      /\ window \in 0..MaxTime
  BY DEF RidersTyped, Begun
<1>. QED
  BY <1>2, <1>3, <1>4, <1>5, <1>6, <1>7, <1>8 DEF R!TypeOK

LEMMA RidersTypesHold == Spec => []R!TypeOK
<1>1. Init => RiderInv /\ RidersTyped
  BY PartsBegin, RiderInitInv, RidersBegin DEF RiderInv
<1>2. RiderInv /\ RidersTyped /\ [Next]_vars => (RiderInv /\ RidersTyped)'
  <2>1. RiderInv /\ RidersTyped /\ [Next]_vars => RiderInv'
    BY PartsMove, GateStepInv, ListStepInv, LateStepInv, WindowStepInv DEF RiderInv
  <2>2. RiderInv /\ RidersTyped /\ [Next]_vars => RidersTyped'
    BY PartsMove, BegunOn, ListedOn, CountedOn DEF RiderInv, RidersTyped
  <2>. QED
    BY <2>1, <2>2
<1>. QED
  BY <1>1, <1>2, RidersStand, PTL DEF Spec

-----------------------------------------------------------------------------
(* Shapes: of metered calls; a call counts once, in one month. *)

\* The calls of a payer that have not counted.
Unmetered(p) == {c \in CallRecords : c.payer = p /\ c.todo # <<>> /\ ~Did(c, "count")}
\* A call counts once, in one month.
UseBegan ==
  \A p \in Payers, m \in 1..Months :
    usage[<<p, m>>] + Cardinality(Those(call, Unmetered(p))) <= started
\* Rows and answers name calls.
RowsNamed ==
  /\ answered \subseteq (1..started) \X {"pass", "refuse"}
  /\ kept \subseteq 1..started /\ metered \subseteq 1..started
CallsNumbered == UseBegan /\ RowsNamed

LEMMA UnmeteredStays == ASSUME UNCHANGED live, NEW p PROVE Unmetered(p)' = Unmetered(p)
BY DEF Unmetered, Did, Place

\* A call that counts has not counted.
LEMMA CountIsFirst ==
  ASSUME CallsTyped, NEW w \in Workers, C!At(w, "count") PROVE ~Did(call[w], "count")
<1>1. PICK k \in 1..Len(live.work) : k = Place(call[w]) /\ live.work[k] = "count"
  BY AtStep
<1>2. \A i, j \in 1..Len(live.work) : live.work[i] = "count" /\ live.work[j] = "count" => i = j
  BY RoutesAreOrdered DEF CallsTyped, Ordered
<1>3. \A n \in 1..k - 1 : n \in 1..Len(live.work) /\ n # k
  <2>1. Len(live.work) \in Nat
    BY RoutesAreOrdered, FirstAndRest DEF CallsTyped, Ordered
  <2>. QED
    BY <2>1
<1>. QED
  BY <1>1, <1>2, <1>3 DEF Did

\* A step of a call leaves it counted if it was, and counts it if it counts.
LEMMA UnmeteredNext ==
  ASSUME CallsTyped, NEW w \in Workers, NEW step, C!At(w, step), NEW d \in CallRecords,
         d.id = call[w].id, d.payer = call[w].payer, d.todo = call[w].todo, C!Continue(w, d)
  PROVE  /\ UNCHANGED <<live, month, started>>
         /\ \E x : /\ call' = [call EXCEPT ![w] = x]
                   /\ \A p : x \in Unmetered(p) => call[w] \in Unmetered(p)
                   /\ step = "count" => \A p : x \notin Unmetered(p)
<1>1. PICK x \in CallRecords : Follows(w, step, d, x)
  BY CallGoesOn
<1>2. UNCHANGED <<live, month, started>>
  BY CallGoesOn
<1>3. call[w] \in CallRecords /\ call[w].todo # <<>>
  BY AtStep DEF Underway
<1>4. ASSUME NEW p, x \in Unmetered(p) PROVE call[w] \in Unmetered(p) /\ step # "count"
  <2>1. x # C!Rest
    BY <1>4, RestingRecord DEF Unmetered
  <2>2. x.payer = d.payer /\ \A s : Did(x, s) <=> Did(call[w], s) \/ s = step
    BY <1>1, <2>1 DEF Follows
  <2>3. x.payer = p /\ ~Did(x, "count")
    BY <1>4 DEF Unmetered
  <2>4. ~Did(call[w], "count") /\ step # "count" /\ call[w].payer = p
    BY <2>2, <2>3
  <2>. QED
    BY <1>3, <2>4 DEF Unmetered
<1>5. call' = [call EXCEPT ![w] = x]
  BY <1>1 DEF Follows
<1>. QED
  BY <1>2, <1>4, <1>5

\* Where no call of one kind is added.
LEMMA UseStays ==
  ASSUME CallsTyped, UseBegan, NEW w \in Workers, NEW x, call' = [call EXCEPT ![w] = x],
         UNCHANGED <<live, usage, started>>,
         \A p : x \in Unmetered(p) => call[w] \in Unmetered(p)
  PROVE  UseBegan'
<1>1. DOMAIN call = Workers /\ started \in Nat
  BY DEF CallsTyped
<1>2. ASSUME NEW p \in Payers, NEW m \in 1..Months
      PROVE  usage[<<p, m>>] + Cardinality(Those(call', Unmetered(p))) <= started
  <2>1. PICK n \in Nat, k \in Nat, u \in Nat :
          /\ n = Cardinality(Those(call, Unmetered(p)))
          /\ k = Cardinality(Those(call', Unmetered(p)))
          /\ u = usage[<<p, m>>]
    BY ThoseCounted DEF CallsTyped
  <2>2. u + n <= started
    BY <2>1 DEF UseBegan
  <2>3. x \notin Unmetered(p) \/ call[w] \in Unmetered(p)
    OBVIOUS
  <2>4. k <= n
    BY <1>1, <2>1, <2>3, ThoseMove
  <2>. QED
    BY <1>1, <2>1, <2>2, <2>4
<1>. QED
  BY <1>2, UnmeteredStays DEF UseBegan

LEMMA UseBegins ==
  ASSUME CallsTyped, UseBegan, NEW w \in Workers, NEW x, call' = [call EXCEPT ![w] = x],
         UNCHANGED <<live, usage>>, started' = started + 1
  PROVE  UseBegan'
<1>1. DOMAIN call = Workers /\ started \in Nat
  BY DEF CallsTyped
<1>2. ASSUME NEW p \in Payers, NEW m \in 1..Months
      PROVE  usage[<<p, m>>] + Cardinality(Those(call', Unmetered(p))) <= started + 1
  <2>1. PICK n \in Nat, k \in Nat, u \in Nat :
          /\ n = Cardinality(Those(call, Unmetered(p)))
          /\ k = Cardinality(Those(call', Unmetered(p)))
          /\ u = usage[<<p, m>>]
    BY ThoseCounted DEF CallsTyped
  <2>2. u + n <= started
    BY <2>1 DEF UseBegan
  <2>3. k <= n + 1
    BY <1>1, <2>1, ThoseMove
  <2>. QED
    BY <1>1, <2>1, <2>2, <2>3
<1>. QED
  BY <1>2, UnmeteredStays DEF UseBegan

\* A count takes its call out of those that have not counted.
LEMMA UseCounts ==
  ASSUME CallsTyped, UseBegan, NEW w \in Workers, C!Count(w) PROVE UseBegan'
<1>1. DOMAIN call = Workers /\ started \in Nat /\ month \in 1..Months
  BY DEF CallsTyped
<1>2. PICK his : his = call[w].payer
  OBVIOUS
<1>3. /\ C!At(w, "count")
      /\ usage' = usage \/ usage' = [usage EXCEPT ![<<his, month>>] = usage[<<his, month>>] + 1]
      /\ \E over \in BOOLEAN : C!Continue(w, [call[w] EXCEPT !.over = over])
  <2>1. C!Continue(w, call[w]) => C!Continue(w, [call[w] EXCEPT !.over = call[w].over])
        /\ call[w].over \in BOOLEAN
    <3>1. PICK c \in CallRecords : c = call[w]
      BY DEF CallsTyped
    <3>2. c = [c EXCEPT !.over = c.over] /\ c.over \in BOOLEAN
      BY DEF CallRecords
    <3>. QED
      BY <3>1, <3>2
  <2>2. PICK late \in BOOLEAN : late <=> usage[<<call[w].payer, month>>] + 1 > live.free
    OBVIOUS
  <2>3. [call[w] EXCEPT !.over = late]
          = [call[w] EXCEPT !.over = usage[<<call[w].payer, month>>] + 1 > live.free]
    BY <2>2
  <2>. QED
    BY <1>2, <2>1, <2>2, <2>3 DEF C!Count
<1>4. PICK over \in BOOLEAN : C!Continue(w, [call[w] EXCEPT !.over = over])
  BY <1>3
<1>5. PICK c \in CallRecords : c = call[w] /\ c.todo # <<>> /\ ~Did(c, "count")
  BY <1>3, AtStep, CountIsFirst DEF Underway
<1>6. PICK d \in CallRecords :
        C!Continue(w, d) /\ d.id = c.id /\ d.payer = c.payer /\ d.todo = c.todo
  <2>. DEFINE d == [c EXCEPT !.over = over]
  <2>1. d \in CallRecords /\ d.id = c.id /\ d.payer = c.payer /\ d.todo = c.todo
    BY DEF CallRecords
  <2>. QED
    BY <1>4, <1>5, <2>1
<1>7. /\ UNCHANGED <<live, started>>
      /\ \E x : call' = [call EXCEPT ![w] = x] /\ \A p : x \notin Unmetered(p)
  BY <1>3, <1>5, <1>6, UnmeteredNext
<1>8. PICK x : call' = [call EXCEPT ![w] = x] /\ \A p : x \notin Unmetered(p)
  BY <1>7
<1>9. ASSUME NEW p \in Payers, NEW m \in 1..Months
      PROVE  usage'[<<p, m>>] + Cardinality(Those(call', Unmetered(p))) <= started
  <2>1. PICK n \in Nat, k \in Nat, u \in Nat :
          /\ n = Cardinality(Those(call, Unmetered(p)))
          /\ k = Cardinality(Those(call', Unmetered(p)))
          /\ u = usage[<<p, m>>]
    BY ThoseCounted DEF CallsTyped
  <2>2. u + n <= started
    BY <2>1 DEF UseBegan
  <2>3. k <= n
    BY <1>1, <1>8, <2>1, ThoseMove
  <2>4. usage'[<<p, m>>] = u \/ (p = his /\ usage'[<<p, m>>] = u + 1)
    <3>1. usage \in [Payers \X (1..Months) -> Nat]
      BY DEF CallsTyped
    <3>. QED
      BY <1>1, <1>3, <2>1, <3>1
  <2>5. CASE p = his
    <3>1. call[w] \in Unmetered(p)
      BY <1>2, <1>5, <2>5 DEF Unmetered
    <3>2. k + 1 <= n
      BY <1>1, <1>8, <2>1, <3>1, ThoseMove
    <3>. QED
      BY <1>1, <2>1, <2>2, <2>3, <2>4, <3>2
  <2>. QED
    BY <1>1, <2>1, <2>2, <2>3, <2>4, <2>5
<1>. QED
  BY <1>7, <1>9, UnmeteredStays DEF UseBegan

LEMMA UseOn == ASSUME CallsTyped, UseBegan, C!Next \/ UNCHANGED calls PROVE UseBegan'
<1>1. ASSUME UNCHANGED <<live, usage, call, started>> PROVE UseBegan'
  BY <1>1, UnmeteredStays DEF UseBegan
<1>2. ASSUME UNCHANGED calls \/ C!NewMonth \/ \E look : C!Refused(look) PROVE UseBegan'
  BY <1>1, <1>2 DEF calls, C!NewMonth, C!Refused, C!vars
<1>3. ASSUME NEW w \in Workers, NEW p \in Payers \cup {None}, C!Begin(w, p) PROVE UseBegan'
  <2>1. PICK x : x = [C!Rest EXCEPT !.id = started + 1, !.payer = p, !.todo = live.work]
    OBVIOUS
  <2>2. call' = [call EXCEPT ![w] = x] /\ UNCHANGED <<live, usage>> /\ started' = started + 1
    BY <1>3, <2>1 DEF C!Begin
  <2>. QED
    BY <2>2, UseBegins
<1>4. ASSUME NEW w \in Workers, NEW step, C!At(w, step), C!Continue(w, call[w]), UNCHANGED usage
      PROVE  UseBegan'
  <2>1. call[w] \in CallRecords
    BY <1>4, AtStep
  <2>2. UNCHANGED <<live, started>>
        /\ \E x : /\ call' = [call EXCEPT ![w] = x]
                  /\ \A p : x \in Unmetered(p) => call[w] \in Unmetered(p)
    BY <1>4, <2>1, UnmeteredNext
  <2>. QED
    BY <1>4, <2>2, UseStays
<1>5. ASSUME NEW w \in Workers, C!Charge(w) \/ C!Read(w) \/ C!Sign(w) \/ C!Store(w)
                                  \/ C!Meter(w) \/ C!Answer(w)
      PROVE  UseBegan'
  BY <1>4, <1>5 DEF C!Charge, C!Read, C!Sign, C!Store, C!Meter, C!Answer
<1>6. ASSUME NEW w \in Workers, C!Run(w) PROVE UseBegan'
  <2>1. PICK v \in live.verdicts \ {"fail"} :
          C!At(w, "run") /\ C!Continue(w, [call[w] EXCEPT !.verdict = v]) /\ UNCHANGED usage
    BY <1>6 DEF C!Run
  <2>2. v \in {"pass", "refuse"}
    BY RoutesAreOrdered DEF CallsTyped, Ordered
  <2>3. PICK c \in CallRecords : c = call[w]
    BY DEF CallsTyped
  <2>4. PICK d \in CallRecords :
          C!Continue(w, d) /\ d.id = c.id /\ d.payer = c.payer /\ d.todo = c.todo
    <3>. DEFINE d == [c EXCEPT !.verdict = v]
    <3>1. d \in CallRecords /\ d.id = c.id /\ d.payer = c.payer /\ d.todo = c.todo
      BY <2>2 DEF CallRecords
    <3>. QED
      BY <2>1, <2>3, <3>1
  <2>5. UNCHANGED <<live, started>>
        /\ \E x : /\ call' = [call EXCEPT ![w] = x]
                  /\ \A p : x \in Unmetered(p) => call[w] \in Unmetered(p)
    BY <2>1, <2>3, <2>4, UnmeteredNext
  <2>. QED
    BY <2>1, <2>5, UseStays
<1>7. ASSUME NEW w \in Workers, C!Stop(w) PROVE UseBegan'
  <2>1. call' = [call EXCEPT ![w] = C!Rest] /\ UNCHANGED <<live, usage, started>>
    BY <1>7 DEF C!Stop
  <2>2. \A p : C!Rest \notin Unmetered(p)
    BY RestingRecord DEF Unmetered
  <2>. QED
    BY <2>1, <2>2, UseStays
<1>. QED
  BY <1>2, <1>3, <1>5, <1>6, <1>7, UseCounts DEF C!Next

\* Who is underway is a call that began.
LEMMA UnderwayBegan ==
  ASSUME CallsTyped, NEW w \in Workers, NEW step, C!At(w, step)
  PROVE  call[w].id \in 1..started /\ call[w].verdict \in {"pass", "refuse"}
BY AtStep DEF GoodToll, Midway, CallRecords

LEMMA RowsOn == ASSUME CallsTyped, RowsNamed, C!Next \/ UNCHANGED calls PROVE RowsNamed'
<1>1. ASSUME UNCHANGED <<started, kept, metered, answered>> PROVE RowsNamed'
  BY <1>1 DEF RowsNamed
<1>2. ASSUME UNCHANGED calls \/ C!NewMonth \/ \E look : C!Refused(look) PROVE RowsNamed'
  BY <1>1, <1>2 DEF calls, C!NewMonth, C!Refused, C!vars
<1>3. ASSUME NEW w \in Workers, NEW p \in Payers \cup {None}, C!Begin(w, p) PROVE RowsNamed'
  <2>1. started' = started + 1 /\ UNCHANGED <<kept, metered, answered>>
    BY <1>3 DEF C!Begin
  <2>2. 1..started \subseteq 1..started + 1
    BY DEF CallsTyped
  <2>. QED
    BY <2>1, <2>2 DEF RowsNamed
<1>4. ASSUME NEW w \in Workers, C!Count(w) \/ C!Charge(w) \/ C!Read(w) \/ C!Run(w) \/ C!Sign(w)
                                  \/ C!Stop(w)
      PROVE  RowsNamed'
  BY <1>1, <1>4 DEF C!Count, C!Charge, C!Read, C!Run, C!Sign, C!Stop, C!Continue
<1>5. ASSUME NEW w \in Workers, C!Store(w) PROVE RowsNamed'
  <2>1. C!At(w, "store") /\ UNCHANGED <<started, metered, answered>>
        /\ kept' = kept \cup {call[w].id}
    BY <1>5 DEF C!Store, C!Continue
  <2>. QED
    BY <2>1, UnderwayBegan DEF RowsNamed
<1>6. ASSUME NEW w \in Workers, C!Meter(w) PROVE RowsNamed'
  <2>1. C!At(w, "meter") /\ UNCHANGED <<started, kept, answered>>
        /\ metered' \subseteq metered \cup {call[w].id}
    BY <1>6 DEF C!Meter, C!Continue
  <2>. QED
    BY <2>1, UnderwayBegan DEF RowsNamed
<1>7. ASSUME NEW w \in Workers, C!Answer(w) PROVE RowsNamed'
  <2>1. C!At(w, "answer") /\ UNCHANGED <<started, kept, metered>>
        /\ answered' = answered \cup {<<call[w].id, call[w].verdict>>}
    BY <1>7 DEF C!Answer, C!Continue
  <2>. QED
    BY <2>1, UnderwayBegan DEF RowsNamed
<1>. QED
  BY <1>2, <1>3, <1>4, <1>5, <1>6, <1>7 DEF C!Next

LEMMA CallsNumberedFirst == ASSUME C!Init PROVE CallsNumbered
<1>1. /\ usage = [pm \in Payers \X (1..Months) |-> 0] /\ started = 0
      /\ call = [w \in Workers |-> C!Rest] /\ kept = {} /\ metered = {} /\ answered = {}
  BY DEF C!Init
<1>2. ASSUME NEW p \in Payers, NEW m \in 1..Months
      PROVE  usage[<<p, m>>] + Cardinality(Those(call, Unmetered(p))) <= started
  <2>1. \A w \in Workers : call[w] \notin Unmetered(p)
    BY <1>1, RestingRecord DEF Unmetered
  <2>2. Those(call, Unmetered(p)) = {}
    BY <2>1 DEF Those
  <2>3. Cardinality(Those(call, Unmetered(p))) = 0
    BY <2>2, FS_EmptySet
  <2>4. usage[<<p, m>>] = 0
    BY <1>1
  <2>. QED
    BY <1>1, <2>3, <2>4
<1>. QED
  BY <1>1, <1>2 DEF CallsNumbered, UseBegan, RowsNamed

\* The steps of a call are the last of its route.
LEMMA TodoIsSuffix ==
  ASSUME NEW s \in Seq(TollSteps), NEW t \in Seq(TollSteps), Len(t) <= Len(s),
         \A i \in 1..Len(t) : t[i] = s[Len(s) - Len(t) + i]
  PROVE  C!IsSuffix(t, s)
<1>1. PICK l \in Nat, n \in Nat : l = Len(s) /\ n = Len(t)
  OBVIOUS
<1>2. PICK back, tail : back = C!Reverse(s) /\ tail = C!Reverse(t)
  OBVIOUS
<1>3. /\ back = [i \in 1..l |-> s[(l - i) + 1]] /\ tail = [i \in 1..n |-> t[(n - i) + 1]]
  BY <1>1, <1>2 DEF C!Reverse
<1>4. \A i \in 1..l : (l - i) + 1 \in 1..l
  BY ONLY l \in Nat
<1>5. \A i \in 1..n : (n - i) + 1 \in 1..n
  BY ONLY n \in Nat
<1>6. \A i \in 1..l : s[i] \in TollSteps
  BY <1>1
<1>7. \A i \in 1..n : t[i] \in TollSteps
  BY <1>1
<1>8. back \in Seq(TollSteps) /\ Len(back) = l
  BY ONLY <1>3, <1>4, <1>6, l \in Nat, IsASeq, LenProperties
<1>9. tail \in Seq(TollSteps) /\ Len(tail) = n
  BY ONLY <1>3, <1>5, <1>7, n \in Nat, IsASeq, LenProperties
<1>10. n <= l
  BY <1>1
<1>11. \A i \in 1..n : tail[i] = back[i]
  <2>1. ASSUME NEW i \in 1..n PROVE tail[i] = back[i]
    <3>1. i \in 1..l /\ (n - i) + 1 \in 1..n /\ l - n + ((n - i) + 1) = (l - i) + 1
      BY ONLY <1>10, i \in 1..n, l \in Nat, n \in Nat
    <3>2. t[(n - i) + 1] = s[l - n + ((n - i) + 1)]
      BY <1>1, <3>1
    <3>. QED
      BY ONLY <1>3, <3>1, <3>2, i \in 1..n
  <2>. QED
    BY <2>1
<1>12. SubSeq(tail, 1, n) = SubSeq(back, 1, n)
  <2>1. /\ SubSeq(tail, 1, n) \in Seq(TollSteps) /\ SubSeq(back, 1, n) \in Seq(TollSteps)
        /\ Len(SubSeq(tail, 1, n)) = n /\ Len(SubSeq(back, 1, n)) = n
        /\ \A i \in 1..n : SubSeq(tail, 1, n)[i] = tail[i] /\ SubSeq(back, 1, n)[i] = back[i]
    BY ONLY <1>8, <1>9, <1>10, l \in Nat, n \in Nat
  <2>. QED
    BY ONLY <1>11, <2>1, SeqEqual
<1>. QED
  BY <1>2, <1>8, <1>9, <1>10, <1>12 DEF C!IsSuffix, C!IsPrefix

LEMMA CallsStand == ASSUME CallsTyped, CallsNumbered PROVE C!TypeOK
<1>1. started \in Nat /\ usage \in [Payers \X (1..Months) -> Nat]
  BY DEF CallsTyped
<1>2. ASSUME NEW p \in Payers, NEW m \in 1..Months PROVE usage[<<p, m>>] \in 0..started
  <2>1. PICK n \in Nat, u \in Nat :
          n = Cardinality(Those(call, Unmetered(p))) /\ u = usage[<<p, m>>]
    BY ThoseCounted, <1>1
  <2>2. u + n <= started
    BY <2>1 DEF CallsNumbered, UseBegan
  <2>. QED
    BY <1>1, <2>1, <2>2
<1>3. usage \in [Payers \X (1..Months) -> 0..started]
  BY <1>1, <1>2
<1>4. live.work \in Seq(TollSteps)
  BY RoutesAreOrdered DEF CallsTyped, Ordered
<1>5. ASSUME NEW w \in Workers
      PROVE  C!IsSuffix(call[w].todo, live.work) /\ call[w].id \in 0..started
  <2>1. PICK c \in CallRecords : c = call[w]
    BY DEF CallsTyped
  <2>2. c.todo \in Seq(TollSteps)
    BY DEF CallRecords
  <2>3. PICK l \in Nat, n \in Nat : l = Len(live.work) /\ n = Len(c.todo)
    BY <1>4, <2>2
  <2>4. CASE Underway(w)
    <3>1. Midway(c)
      BY <2>1, <2>4 DEF CallsTyped, GoodToll
    <3>2. Place(c) = l + 1 - n /\ Place(c) \in 1..l
      BY <2>3, <3>1 DEF Midway, Place
    <3>3. n <= l /\ \A i \in 1..n : c.todo[i] = live.work[l - n + i]
      <4>1. n <= l /\ Place(c) - 1 = l - n
        BY ONLY <3>2, l \in Nat, n \in Nat
      <4>2. \A i \in 1..n : c.todo[i] = live.work[Place(c) - 1 + i]
        BY <2>3, <3>1 DEF Midway
      <4>. QED
        BY <4>1, <4>2
    <3>4. C!IsSuffix(c.todo, live.work)
      BY <1>4, <2>2, <2>3, <3>3, TodoIsSuffix
    <3>5. c.id \in 0..started
      BY <1>1, <3>1 DEF Midway
    <3>. QED
      BY <2>1, <3>4, <3>5
  <2>5. CASE ~Underway(w)
    <3>1. c = C!Rest /\ c.todo = <<>> /\ n = 0
      BY <2>1, <2>3, <2>5, RestingRecord DEF CallsTyped, Underway
    <3>2. C!IsSuffix(c.todo, live.work)
      <4>1. Len(c.todo) <= Len(live.work) /\ \A i \in 1..Len(c.todo) : FALSE
        BY <2>3, <3>1
      <4>. QED
        BY ONLY <1>4, <2>2, <4>1, TodoIsSuffix
    <3>3. c.id = 0
      BY <3>1 DEF C!Rest
    <3>. QED
      BY <1>1, <2>1, <3>2, <3>3
  <2>. QED
    BY <2>4, <2>5
<1>6. /\ ran \cup signed \cup answered \subseteq C!Ids \X C!Verdicts
      /\ kept \cup metered \subseteq C!Ids
  BY DEF CallsTyped, CallsNumbered, RowsNamed, C!Ids, C!Verdicts
<1>. QED
  BY <1>3, <1>5, <1>6 DEF C!TypeOK

LEMMA CallsTypesHold == Spec => []C!TypeOK
<1>1. Init => CallsTyped /\ CallsNumbered
  BY PartsBegin, CallsBegin, CallsNumberedFirst
<1>2. CallsTyped /\ CallsNumbered /\ [Next]_vars => (CallsTyped /\ CallsNumbered)'
  BY PartsMove, CallsTypedOn, UseOn, RowsOn DEF CallsNumbered
<1>. QED
  BY <1>1, <1>2, CallsStand, PTL DEF Spec

-----------------------------------------------------------------------------
(* Every part *)

LEMMA AliasTypesHold == Spec => []I!TypeOK
<1>1. Init => AliasInv /\ WalksGo
  <2>. SUFFICES ASSUME Init PROVE AliasInv /\ WalksGo
    OBVIOUS
  <2>1. I!Init
    BY PartsBegin
  <2>. QED
    BY <2>1 DEF I!Init, AliasInv, AliasTables, WalksGo
<1>2. AliasInv /\ WalksGo /\ [Next]_vars => (AliasInv /\ WalksGo)'
  BY PartsMove, AliasStep, AliasInvOn, WalksGoOn
<1>3. AliasInv /\ WalksGo => I!TypeOK
  BY AliasTyped
<1>. QED
  BY <1>1, <1>2, <1>3, PTL DEF Spec

\* Whichever part runs, its tables, calls and messages keep the shapes its
\* handlers give them: no counter is ahead of the calls that began, a call is
\* midway in the steps of its route and its rows name it, the revocation list
\* names a rider once, a grant's envelope leaves with its row only, and a walk
\* along aliases stops short of MAX_HOPS (Types of Tolls).
THEOREM TypesHold == Spec => []Types
<1>1. GrantInv => G!TypeOK
  BY GrantTyped
<1>2. PlanRows => P!TypeOK
  BY PlanTyped
<1>3. ClientInv => M!TypeOK
  BY ClientTyped
<1>4. WarrantInv => W!TypeOK
  BY DEF WarrantInv
<1>5. (EscrowInv /\ BudgetInv) => PlanRows
  BY DEF PlanRows
<1>6. /\ C!TypeOK /\ G!TypeOK /\ H!TypeOK /\ P!TypeOK /\ R!TypeOK
      /\ M!TypeOK /\ N!TypeOK /\ W!TypeOK /\ I!TypeOK
      => Types
  BY DEF Types
<1>. QED
  BY <1>1, <1>2, <1>3, <1>4, <1>5, <1>6, CallsTypesHold, GrantInvariant, HopTyped,
     PlansInvariant, RidersTypesHold, ClientInvariant, RegistryTyped, WarrantInvariant,
     AliasTypesHold, PTL
=============================================================================
