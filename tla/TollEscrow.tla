------------------------------ MODULE TollEscrow ------------------------------
(***************************************************************************)
(* Toll 3: the escrow lock and release handlers, run by any number of      *)
(* concurrent serverless invocations over one Postgres table and one       *)
(* AwLPay wallet.  Every await of a handler is a point where others run,   *)
(* so each action is the code between two awaits.  A handler that refuses  *)
(* (4xx before any write) changes nothing and is not a step.               *)
(*                                                                         *)
(* Left out: the write-only meters (usage counter, toll_meter, Stripe) and *)
(* columns no handler reads back (payer, payer_wallet, timestamps).        *)
(***************************************************************************)
EXTENDS TollChain

CONSTANTS
  EscrowIds,      \* toll_escrows.id
  Invocations,    \* concurrent handler invocations
  Deposits,       \* USDC transfers into the escrow wallet
  Paid,           \* Paid[d]: micro-USDC deposit d carries
  Hashes,         \* texts of a deposit_tx_hash; its hex digits may be in either case
  DepositOf,      \* DepositOf[h]: the deposit that text names
  Jobs, Agents,
  Amounts,        \* amount_uusdc a caller may ask for
  Wallets,        \* payout and fee wallets
  Sealable,       \* delivery receipts the lab may seal
  StatusCheck,    \* the values CHECK (status IN ...) admits
  None

Receipts == [job : Jobs, agent : Agents, deliveredOk : BOOLEAN]

ASSUME EscrowAssumption ==
  /\ Sealable \subseteq Receipts
  /\ Amounts \subseteq Nat \ {0}
  /\ Paid \in [Deposits -> Nat]
  /\ DepositOf \in [Hashes -> Deposits]
  /\ {"locked", "released"} \subseteq StatusCheck
  /\ None \notin Hashes \cup EscrowIds \cup Wallets

VARIABLES
  escrows,    \* toll_escrows, None where no row has that id
  landed,     \* deposits that are on the chain
  receipts,   \* delivery receipts sealed by the lab key
  chain,      \* transfers out of the escrow wallet
  txlog,      \* toll_chain_transfers
  signed,     \* "escrow_released" envelopes handed to callers
  pc,         \* await each invocation stands at
  form,       \* lock: the proven request body
  target,     \* release: the escrow read
  feeTo,      \* release: TOLL_FEE_WALLET as this invocation read it
  txs         \* release: tx hashes AwLPay answered, [release, fee]

dbVars == <<escrows, txlog>>
worldVars == <<landed, receipts, chain, signed>>
localVars == <<pc, form, target, feeTo, txs>>
vars == <<escrows, txlog, landed, receipts, chain, signed,
          pc, form, target, feeTo, txs>>

-----------------------------------------------------------------------------
(* Amounts and keys *)

\* escrowFeeFor: 1% (100 bps), integer division.
EscrowFee(amount) == (amount * 100) \div 10000

ReleaseKey(e) == <<"t3:release", e>>
FeeKey(e) == <<"t3:fee", e>>

Statuses == {"locked", "releasing", "released"}

Forms == [deposit : Hashes, job : Jobs, agent : Agents,
          amount : Amounts, payout : Wallets]

\* What an escrow can pay out: the fee of an amount, or the rest of it.
Shares == {EscrowFee(m) : m \in Amounts} \cup {m - EscrowFee(m) : m \in Amounts}

Transfers == [key : {"t3:release", "t3:fee"} \X EscrowIds, escrow : EscrowIds,
              purpose : {"escrow_release", "escrow_fee"},
              to : Wallets, amount : Shares]

TxPairs == [release : Transfers \cup {None}, fee : Transfers \cup {None}]
NoTxs == [release |-> None, fee |-> None]

Rows == {row \in [deposit : Hashes \cup {None}, job : Jobs, agent : Agents,
                  amount : Amounts, fee : Int, payout : Wallets,
                  status : Statuses, txs : TxPairs] :
           row.fee = EscrowFee(row.amount)}

ASSUME NoneIsNoRow == None \notin Rows

\* Mutant: the agent is paid the amount without the fee taken off.
ReleaseTransferGross(e, row) ==
  [key |-> ReleaseKey(e), escrow |-> e, purpose |-> "escrow_release",
   to |-> row.payout, amount |-> row.amount]

ReleaseTransfer(e, row) ==
  [key |-> ReleaseKey(e), escrow |-> e, purpose |-> "escrow_release",
   to |-> row.payout, amount |-> row.amount - row.fee]

\* Mutant: the idempotency key also names the wallet of this attempt.
FeeTransferPerWallet(e, row, wallet) ==
  [key |-> <<"t3:fee", e, wallet>>, escrow |-> e, purpose |-> "escrow_fee",
   to |-> wallet, amount |-> row.fee]

FeeTransfer(e, row, wallet) ==
  [key |-> FeeKey(e), escrow |-> e, purpose |-> "escrow_fee",
   to |-> wallet, amount |-> row.fee]

Exists(e) == escrows[e] # None

\* Mutant: the table without UNIQUE (deposit_tx_hash).
ConflictsOnJob(f) == \E e \in EscrowIds : Exists(e) /\ escrows[e].job = f.job

\* UNIQUE (deposit_tx_hash), a comparison of texts, and UNIQUE (job_id).
Conflicts(f) ==
  \E e \in EscrowIds : /\ Exists(e)
                       /\ \/ escrows[e].deposit = f.deposit
                          \/ escrows[e].job = f.job

\* Mutants: a failed delivery releases; a row stuck in "releasing" does not.
ReleasableUndelivered(row, receipt) ==
  /\ row.status \in {"locked", "releasing"}
  /\ receipt.job = row.job
  /\ receipt.agent = row.agent

ReleasableOnce(row, receipt) ==
  /\ receipt.deliveredOk
  /\ row.status = "locked"
  /\ receipt.job = row.job
  /\ receipt.agent = row.agent

\* validateRelease, on the status the handler substitutes: a row stuck in
\* "releasing" is validated as if it were "locked".
Releasable(row, receipt) ==
  /\ receipt.deliveredOk
  /\ row.status \in {"locked", "releasing"}
  /\ receipt.job = row.job
  /\ receipt.agent = row.agent

-----------------------------------------------------------------------------
\* A row locked before real settlement: the migration adds deposit_tx_hash as
\* a nullable column, so such a row has none.
LegacyRow(job, agent, amount, wallet) ==
  [deposit |-> None, job |-> job, agent |-> agent, amount |-> amount,
   fee |-> EscrowFee(amount), payout |-> wallet, status |-> "locked",
   txs |-> NoTxs]

Init ==
  /\ \/ escrows = [e \in EscrowIds |-> None]
     \/ \E old \in EscrowIds, j \in Jobs, a \in Agents, m \in Amounts, w \in Wallets :
          escrows = [e \in EscrowIds |->
                       IF e = old THEN LegacyRow(j, a, m, w) ELSE None]
  /\ landed = {}
  /\ receipts = {}
  /\ chain = {}
  /\ txlog = {}
  /\ signed = {}
  /\ pc = [i \in Invocations |-> "idle"]
  /\ form = [i \in Invocations |-> None]
  /\ target = [i \in Invocations |-> None]
  /\ feeTo = [i \in Invocations |-> None]
  /\ txs = [i \in Invocations |-> NoTxs]

\* The environment: a payer's transfer is mined.
DepositLands(d) ==
  /\ d \notin landed
  /\ landed' = landed \cup {d}
  /\ UNCHANGED <<escrows, txlog, receipts, chain, signed, localVars>>

\* The environment: the lab seals a delivery receipt.
SealReceipt(c) ==
  /\ c \notin receipts
  /\ receipts' = receipts \cup {c}
  /\ UNCHANGED <<escrows, txlog, landed, chain, signed, localVars>>

\* The invocation's answer leaves and its memory goes.
Forget(i) ==
  /\ pc' = [pc EXCEPT ![i] = "idle"]
  /\ form' = [form EXCEPT ![i] = None]
  /\ target' = [target EXCEPT ![i] = None]
  /\ feeTo' = [feeTo EXCEPT ![i] = None]
  /\ txs' = [txs EXCEPT ![i] = NoTxs]

\* The process is killed, an await throws or times out, or the handler answers
\* 5xx: nothing it wrote or sent before is undone.
Fails(i) ==
  /\ pc[i] # "idle"
  /\ Forget(i)
  /\ UNCHANGED <<dbVars, worldVars>>

-----------------------------------------------------------------------------
(* POST /api/toll/v3/escrow *)

\* Validation, the fee floor and the on-chain proof, before any state changes.
LockVerify(i, f) ==
  /\ pc[i] = "idle"
  /\ EscrowFee(f.amount) > 0
  /\ DepositProven(landed, Paid, DepositOf[f.deposit], f.amount)
  /\ pc' = [pc EXCEPT ![i] = "insert"]
  /\ form' = [form EXCEPT ![i] = f]
  /\ UNCHANGED <<dbVars, worldVars, target, feeTo, txs>>

\* Mutant: a row inserted with a status the handlers do not know.
PendingRow(f) ==
  [deposit |-> f.deposit, job |-> f.job, agent |-> f.agent,
   amount |-> f.amount, fee |-> EscrowFee(f.amount), payout |-> f.payout,
   status |-> "pending", txs |-> NoTxs]

LockedRow(f) ==
  [deposit |-> f.deposit, job |-> f.job, agent |-> f.agent,
   amount |-> f.amount, fee |-> EscrowFee(f.amount), payout |-> f.payout,
   status |-> "locked", txs |-> NoTxs]

LockInsert(i, e) ==
  /\ pc[i] = "insert"
  /\ ~Exists(e)
  /\ ~Conflicts(form[i])
  /\ escrows' = [escrows EXCEPT ![e] = LockedRow(form[i])]
  /\ Forget(i)
  /\ UNCHANGED <<txlog, worldVars>>

\* 23505: the handler answers 409 deposit_already_claimed.
LockConflict(i) ==
  /\ pc[i] = "insert"
  /\ Conflicts(form[i])
  /\ Forget(i)
  /\ UNCHANGED <<dbVars, worldVars>>

-----------------------------------------------------------------------------
(* POST /api/toll/v3/escrow/release *)

\* Receipt, fee wallet, row read, mock-era check and validateRelease.
ReleaseRead(i, e, receipt, wallet) ==
  /\ pc[i] = "idle"
  /\ Exists(e)
  /\ escrows[e].deposit # None
  /\ Releasable(escrows[e], receipt)
  /\ pc' = [pc EXCEPT ![i] = IF escrows[e].status = "locked" THEN "flip" ELSE "pay"]
  /\ target' = [target EXCEPT ![i] = e]
  /\ feeTo' = [feeTo EXCEPT ![i] = wallet]
  /\ UNCHANGED <<dbVars, worldVars, form, txs>>

\* Mutants: the flip without its status condition, and one that already
\* writes the final status.
FlipTo(i, status) ==
  /\ pc[i] = "flip"
  /\ escrows' = [escrows EXCEPT ![target[i]].status = status]
  /\ pc' = [pc EXCEPT ![i] = "pay"]
  /\ UNCHANGED <<txlog, worldVars, form, target, feeTo, txs>>

ReleaseFlipAlways(i) == FlipTo(i, "releasing")
ReleaseFlipEarly(i) == FlipTo(i, "released")

\* UPDATE ... SET status = 'releasing' WHERE id = e AND status = 'locked'.
\* Only an error stops the handler, the CHECK constraint's too (500, Fails): an
\* update of no row is not one.
ReleaseFlip(i) ==
  LET e == target[i] IN
  /\ pc[i] = "flip"
  /\ IF escrows[e].status = "locked"
       THEN /\ "releasing" \in StatusCheck
            /\ escrows' = [escrows EXCEPT ![e].status = "releasing"]
       ELSE UNCHANGED escrows
  /\ pc' = [pc EXCEPT ![i] = "pay"]
  /\ UNCHANGED <<txlog, worldVars, form, target, feeTo, txs>>

ReleasePay(i) ==
  LET t == ReleaseTransfer(target[i], escrows[target[i]]) IN
  /\ pc[i] = "pay"
  /\ chain' = ChainAfter(chain, t)
  /\ txs' = [txs EXCEPT ![i].release = SendResult(chain, t)]
  /\ pc' = [pc EXCEPT ![i] = "fee"]
  /\ UNCHANGED <<dbVars, landed, receipts, signed, form, target, feeTo>>

ReleaseFee(i) ==
  LET t == FeeTransfer(target[i], escrows[target[i]], feeTo[i]) IN
  /\ pc[i] = "fee"
  /\ chain' = ChainAfter(chain, t)
  /\ txs' = [txs EXCEPT ![i].fee = SendResult(chain, t)]
  /\ pc' = [pc EXCEPT ![i] = "log"]
  /\ UNCHANGED <<dbVars, landed, receipts, signed, form, target, feeTo>>

\* Mutant: the log records the locked amount as paid to the agent.
LogEntriesGross(i) ==
  LET e == target[i] IN
  {[tx |-> txs[i].release, asked |-> ReleaseTransferGross(e, escrows[e])],
   [tx |-> txs[i].fee, asked |-> FeeTransfer(e, escrows[e], feeTo[i])]}

\* What the handler writes to toll_chain_transfers: the tx hash AwLPay
\* answered beside the wallet this invocation asked for.
LogEntries(i) ==
  LET e == target[i] IN
  {[tx |-> txs[i].release, asked |-> ReleaseTransfer(e, escrows[e])],
   [tx |-> txs[i].fee, asked |-> FeeTransfer(e, escrows[e], feeTo[i])]}

\* One INSERT of both rows; a UNIQUE conflict rejects both, unread.  Fail open.
ReleaseLog(i) ==
  /\ pc[i] = "log"
  /\ txlog' = IF \E l \in txlog, n \in LogEntries(i) :
                   l.tx = n.tx \/ l.asked.key = n.asked.key
                THEN txlog ELSE txlog \cup LogEntries(i)
  /\ pc' = [pc EXCEPT ![i] = "settle"]
  /\ UNCHANGED <<escrows, worldVars, form, target, feeTo, txs>>

ReleaseLogLost(i) ==
  /\ pc[i] = "log"
  /\ pc' = [pc EXCEPT ![i] = "settle"]
  /\ UNCHANGED <<dbVars, worldVars, form, target, feeTo, txs>>

\* UPDATE ... SET status = 'released' WHERE id = e AND status = 'releasing'.
ReleaseSettle(i) ==
  LET e == target[i] IN
  /\ pc[i] = "settle"
  /\ escrows' = IF escrows[e].status = "releasing"
                  THEN [escrows EXCEPT ![e].status = "released", ![e].txs = txs[i]]
                  ELSE escrows
  /\ pc' = [pc EXCEPT ![i] = "sign"]
  /\ UNCHANGED <<txlog, worldVars, form, target, feeTo, txs>>

ReleaseSign(i) ==
  LET e == target[i] IN
  /\ pc[i] = "sign"
  /\ signed' = signed \cup {[escrow |-> e, net |-> escrows[e].amount - escrows[e].fee]}
  /\ Forget(i)
  /\ UNCHANGED <<dbVars, landed, receipts, chain>>

-----------------------------------------------------------------------------
ReleaseStep(i) ==
  \/ ReleaseFlip(i)
  \/ ReleasePay(i) \/ ReleaseFee(i)
  \/ ReleaseLog(i) \/ ReleaseLogLost(i)
  \/ ReleaseSettle(i) \/ ReleaseSign(i)

Next ==
  \/ \E d \in Deposits : DepositLands(d)
  \/ \E c \in Sealable : SealReceipt(c)
  \/ \E i \in Invocations :
       \/ \E f \in Forms : LockVerify(i, f)
       \/ \E e \in EscrowIds : LockInsert(i, e)
       \/ LockConflict(i)
       \/ \E e \in EscrowIds, c \in receipts, w \in Wallets : ReleaseRead(i, e, c, w)
       \/ ReleaseStep(i)
       \/ Fails(i)

Spec == Init /\ [][Next]_vars

\* The platform ends every invocation: it runs on or is killed.
Advances(i) ==
  \/ \E e \in EscrowIds : LockInsert(i, e)
  \/ LockConflict(i)
  \/ ReleaseStep(i)
  \/ Fails(i)

\* Callers keep retrying a release, and the calls it makes do not all fail for
\* ever: strong fairness, because a failure may disable any step in between.
On(i, e, A(_)) == target[i] = e /\ A(i)

FairSpec ==
  /\ Spec
  /\ \A i \in Invocations : WF_vars(Advances(i))
  /\ \A e \in EscrowIds :
       /\ SF_vars(\E i \in Invocations, c \in receipts, w \in Wallets :
                    ReleaseRead(i, e, c, w))
       /\ \A i \in Invocations :
            /\ SF_vars(On(i, e, ReleaseFlip))
            /\ SF_vars(On(i, e, ReleasePay))
            /\ SF_vars(On(i, e, ReleaseFee))
            /\ SF_vars(On(i, e, LAMBDA k : ReleaseLog(k) \/ ReleaseLogLost(k)))
            /\ SF_vars(On(i, e, ReleaseSettle))

-----------------------------------------------------------------------------
(* Properties *)

PayPhases == {"pay", "fee", "log", "settle", "sign"}

LogRows == [tx : Transfers, asked : Transfers]

TypeOK ==
  /\ escrows \in [EscrowIds -> Rows \cup {None}]
  /\ landed \subseteq Deposits
  /\ receipts \subseteq Sealable
  /\ chain \subseteq Transfers
  /\ txlog \subseteq LogRows
  /\ signed \subseteq [escrow : EscrowIds, net : Int]
  /\ pc \in [Invocations -> {"idle", "insert", "flip"} \cup PayPhases]
  /\ form \in [Invocations -> Forms \cup {None}]
  /\ target \in [Invocations -> EscrowIds \cup {None}]
  /\ feeTo \in [Invocations -> Wallets \cup {None}]
  /\ txs \in [Invocations -> TxPairs]

\* Every real row is covered by a deposit that landed, and however many lock
\* calls replay or race for it, a deposit funds no second escrow under the same
\* text of its hash: escrows it funds differ in how they spell it.
HashFundsOne ==
  \A e \in EscrowIds : Exists(e) /\ escrows[e].deposit # None =>
    /\ DepositProven(landed, Paid, DepositOf[escrows[e].deposit], escrows[e].amount)
    /\ \A o \in EscrowIds \ {e} : Exists(o) => escrows[o].deposit # escrows[e].deposit

\* No escrow is paid out or charged its fee twice, through every crash, retry,
\* fee-wallet change and concurrent release ("never double-sends").
PaidOnce ==
  \A s, t \in chain : s.escrow = t.escrow /\ s.purpose = t.purpose => s = t

\* Every transfer is the release or fee share of a real escrow, for exactly the
\* amount locked, and a sealed successful delivery of its job backs it.
PaidAgainstDelivery ==
  \A t \in chain :
    /\ Exists(t.escrow)
    /\ LET row == escrows[t.escrow] IN
       /\ row.deposit # None
       /\ row.status \in {"releasing", "released"}
       /\ \E c \in receipts : c.deliveredOk /\ c.job = row.job /\ c.agent = row.agent
       /\ t = ReleaseTransfer(t.escrow, row) \/ t = FeeTransfer(t.escrow, row, t.to)

\* An escrow marked released, and an escrow a caller holds a signed release
\* for, has had both its transfers sent; the row names them.
ReleasedMeansPaid ==
  /\ \A e \in EscrowIds : Exists(e) /\ escrows[e].status = "released" =>
       /\ {escrows[e].txs.release, escrows[e].txs.fee} \subseteq chain
       /\ escrows[e].txs.release = ReleaseTransfer(e, escrows[e])
       /\ escrows[e].txs.fee.key = FeeKey(e)
  /\ \A v \in signed : Exists(v.escrow) /\ escrows[v.escrow].status = "released"

\* The transfer log holds one row per key, and each row's tx is on the chain
\* for the escrow and amount it was asked for.
LogMatchesChain ==
  /\ \A l \in txlog : /\ l.tx \in chain
                      /\ l.tx.key = l.asked.key
                      /\ l.tx.amount = l.asked.amount
  /\ \A k, l \in txlog : k.asked.key = l.asked.key => k = l

\* A row only moves locked -> releasing -> released, its terms never change,
\* a released row never changes again, and no transfer is ever taken back.
MovesForward ==
  [][/\ chain \subseteq chain'
     /\ \A e \in EscrowIds : Exists(e) =>
          \/ escrows'[e] = escrows[e]
          \/ /\ escrows[e].status = "locked"
             /\ escrows'[e] = [escrows[e] EXCEPT !.status = "releasing"]
          \/ /\ escrows[e].status = "releasing"
             /\ escrows'[e].status = "released"
             /\ escrows'[e] = [escrows[e] EXCEPT !.status = "released",
                                                 !.txs = escrows'[e].txs]]_vars

\* "Recovery is crash-safe": a row left in "releasing" is eventually released.
Recovers ==
  \A e \in EscrowIds :
    (Exists(e) /\ escrows[e].status = "releasing") ~>
      (Exists(e) /\ escrows[e].status = "released")

\* The handlers keep the promise of EscrowPromise: seen through the row status,
\* its deposit and the chain, every step funds, pays, settles or does nothing.
phaseOf ==
  [e \in EscrowIds |->
     IF ~Exists(e) THEN "none"
     ELSE IF escrows[e].deposit = None THEN "void"
     ELSE IF escrows[e].status = "released" THEN "settled" ELSE "held"]

fundingOf == [e \in EscrowIds |-> IF Exists(e) THEN escrows[e].deposit ELSE None]

Promise == INSTANCE EscrowPromise
             WITH phase <- phaseOf, funding <- fundingOf, payouts <- chain

KeepsPromise == Promise!Spec

-----------------------------------------------------------------------------
(* What a comment or message says and the code does not do *)

\* "On a valid lab-sealed delivery receipt the escrow wallet sends 99% of the
\* locked amount to the agent's payout wallet": eventually, with retries.
DeliveredIsPaid ==
  \A e \in EscrowIds, c \in Sealable :
    (/\ Exists(e) /\ escrows[e].deposit # None /\ c \in receipts
     /\ c.deliveredOk /\ c.job = escrows[e].job /\ c.agent = escrows[e].agent)
    ~> (Exists(e) /\ ReleaseTransfer(e, escrows[e]) \in chain)

=============================================================================
