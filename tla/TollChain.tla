------------------------------ MODULE TollChain ------------------------------
(***************************************************************************)
(* What Rider relies on of AwLPay's wallet service and of Base USDC.  The  *)
(* service is not under src/: this module says what toll-settle.ts asks of *)
(* it and what its comments promise.                                       *)
(*                                                                         *)
(* A chain is the set of USDC transfers AwLPay has broadcast from one      *)
(* wallet slot.  A transfer carries the idempotency key it was requested   *)
(* under and stands for its own tx hash.  "The same idempotency_key never  *)
(* sends twice: a retry returns the original tx hash" (toll-settle.ts).    *)
(***************************************************************************)
EXTENDS Integers, FiniteSets

\* The transfers already broadcast under a key.
SentUnder(chain, key) == {t \in chain : t.key = key}

\* POST /internal/toll/send: the chain after AwLPay answers a request for t.
\* A key seen before sends nothing, whatever the other fields ask for.
ChainAfter(chain, t) ==
  IF SentUnder(chain, t.key) = {} THEN chain \cup {t} ELSE chain

\* The transfer (tx hash) AwLPay answers that request with.
SendResult(chain, t) ==
  IF SentUnder(chain, t.key) = {}
    THEN t
    ELSE CHOOSE s \in chain : s.key = t.key

\* POST /internal/toll/deposit/verify proves a deposit that has landed on the
\* chain and is worth at least min_uusdc.
DepositProven(landed, paid, deposit, minAmount) ==
  deposit \in landed /\ paid[deposit] >= minAmount

=============================================================================
