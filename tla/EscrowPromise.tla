---------------------------- MODULE EscrowPromise ----------------------------
(***************************************************************************)
(* What Toll 3 promises, without handlers, retries or failures: an escrow  *)
(* is funded once, under a deposit hash no other escrow bears, pays its    *)
(* agent's share and its fee at most once each while it is held, and       *)
(* settles when both are paid.                                             *)
(***************************************************************************)
EXTENDS Integers

CONSTANTS EscrowIds, Hashes, Transfers, None

VARIABLES
  phase,     \* "none", "void" (never really funded), "held" or "settled"
  funding,   \* the deposit hash behind each escrow
  payouts    \* transfers made, each with an escrow, a purpose and an amount

promise == <<phase, funding, payouts>>

Purposes == {"escrow_release", "escrow_fee"}

Init ==
  /\ phase \in [EscrowIds -> {"none", "void"}]
  /\ funding = [e \in EscrowIds |-> None]
  /\ payouts = {}

Fund(e, h) ==
  /\ phase[e] = "none"
  /\ \A o \in EscrowIds : funding[o] # h
  /\ phase' = [phase EXCEPT ![e] = "held"]
  /\ funding' = [funding EXCEPT ![e] = h]
  /\ UNCHANGED payouts

PayOut(t) ==
  /\ phase[t.escrow] = "held"
  /\ \A s \in payouts : s.escrow = t.escrow => s.purpose # t.purpose
  /\ payouts' = payouts \cup {t}
  /\ UNCHANGED <<phase, funding>>

Settle(e) ==
  /\ phase[e] = "held"
  /\ \A p \in Purposes : \E t \in payouts : t.escrow = e /\ t.purpose = p
  /\ phase' = [phase EXCEPT ![e] = "settled"]
  /\ UNCHANGED <<funding, payouts>>

Next ==
  \/ \E e \in EscrowIds, h \in Hashes : Fund(e, h)
  \/ \E t \in Transfers : PayOut(t)
  \/ \E e \in EscrowIds : Settle(e)

Spec == Init /\ [][Next]_promise
=============================================================================
