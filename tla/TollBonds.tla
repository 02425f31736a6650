------------------------------- MODULE TollBonds -------------------------------
(***************************************************************************)
(* Toll 6: the bond stake and slash handlers, run by any number of         *)
(* concurrent serverless invocations over toll_bonds and AwLPay's bond     *)
(* wallet.  As in TollEscrow an action is the code between two awaits and  *)
(* an invocation may fail at any await.                                    *)
(*                                                                         *)
(* A slash reads a balance, sends the money and only then writes the new   *)
(* balance, on the condition that it is still the one read.                *)
(*                                                                         *)
(* Left out: the write-only meters (usage counter, toll_meter, Stripe).    *)
(***************************************************************************)
EXTENDS TollChain

CONSTANTS
  BondIds,       \* toll_bonds.bond_id, random and fresh
  Invocations,   \* concurrent handler invocations
  Deposits,      \* USDC transfers into the bond wallet
  Paid,          \* Paid[d]: micro-USDC deposit d carries
  Hashes,        \* texts of a deposit_tx_hash; its hex digits may be in either case
  DepositOf,     \* DepositOf[h]: the deposit that text names
  Offers,        \* amount_uusdc and conditions (trigger -> slash_pct) a staker may ask for
  OldOffers,     \* those taken up before real settlement
  Triggers,      \* keys of TRIGGER_ATTESTATION
  Wallets,       \* fee, recourse and pay_to addresses
  Sealable,      \* evidence the lab may seal
  None

\* An attestation's type and verdict satisfy one trigger, or none.
Evidence == [bond : BondIds, attests : Triggers \cup {None}, payTo : Wallets \cup {None}]

\* validateAmountUusdc and validateConditions.
ASSUME BondAssumption ==
  /\ IsFiniteSet(Triggers)
  /\ Paid \in [Deposits -> Nat]
  /\ DepositOf \in [Hashes -> Deposits]
  /\ OldOffers \subseteq Offers
  /\ \A o \in Offers : /\ o = [amount |-> o.amount, terms |-> o.terms]
                       /\ o.amount \in Nat \ {0}
                       /\ o.terms \in [DOMAIN o.terms -> 1..100]
                       /\ DOMAIN o.terms \in (SUBSET Triggers) \ {{}}
  /\ Sealable \subseteq Evidence
  /\ None \notin Hashes \cup BondIds \cup Wallets \cup Triggers

VARIABLES
  bonds,      \* toll_bonds, None where no row has that id
  events,     \* toll_bond_events
  txlog,      \* toll_chain_transfers
  landed,     \* deposits that are on the chain
  evidence,   \* evidence the lab has sealed
  chain,      \* transfers out of the bond wallet
  receipts,   \* bonds a caller holds a stake receipt for
  pc,         \* await each invocation stands at
  form,       \* stake: the proven request body and the fee wallet read
  plan,       \* slash: what it computed from the row it read
  mine,       \* stake: the bond it inserted
  tx          \* the transfer AwLPay answered

dbVars == <<bonds, events, txlog>>
worldVars == <<landed, evidence, chain, receipts>>
localVars == <<pc, form, plan, mine, tx>>
vars == <<bonds, events, txlog, landed, evidence, chain, receipts,
          pc, form, plan, mine, tx>>

-----------------------------------------------------------------------------
(* Amounts, rows and transfers *)

\* stakeTollFor: 1%, integer division, on top of the bond.
StakeToll(amount) == amount \div 100

\* slashAmounts, integer division.
SlashAmount(remaining, pct) == (remaining * pct) \div 100

\* A fee is keyed by its bond, a slash by its bond and the balances it moves
\* between.
FeeTransfers ==
  {t \in [key : {"t6:fee"} \X BondIds, bond : BondIds, purpose : {"bond_stake_fee"},
          to : Wallets, amount : Nat \ {0}] : t.key[2] = t.bond}

SlashTransfers ==
  {t \in [key : {"t6:slash"} \X BondIds \X Nat \X Nat, bond : BondIds,
          purpose : {"bond_slash"}, to : Wallets, amount : Nat \ {0}] :
     t.key[2] = t.bond /\ t.amount = t.key[3] - t.key[4]}

Transfers == FeeTransfers \cup SlashTransfers

Rows == [deposit : Hashes \cup {None}, amount : Nat, remaining : Nat,
         terms : {o.terms : o \in Offers},
         status : {"active", "exhausted"}, slashTx : Transfers \cup {None}]

Plans == {p \in [bond : BondIds, on : Triggers, evidence : Evidence,
                 before : Nat, after : Nat, to : Wallets] : p.after < p.before}

Forms == {[deposit |-> d, amount |-> o.amount, terms |-> o.terms, feeTo |-> w] :
            d \in Hashes, o \in Offers, w \in Wallets}

\* None is no value of the data.
ASSUME NoneIsNoRecord == None \notin Rows \cup Forms \cup Plans \cup Transfers

\* Mutant: a row inserted with a status no handler knows.
BondStaked(f) == [deposit |-> f.deposit, amount |-> f.amount, remaining |-> f.amount,
                  terms |-> f.terms, status |-> "staked", slashTx |-> None]

Bond(f) == [deposit |-> f.deposit, amount |-> f.amount, remaining |-> f.amount,
            terms |-> f.terms, status |-> "active", slashTx |-> None]

\* A bond staked before real settlement has no deposit hash.
LegacyBond(amount, terms) ==
  [deposit |-> None, amount |-> amount, remaining |-> amount,
   terms |-> terms, status |-> "active", slashTx |-> None]

FeeTransfer(b, f) ==
  [key |-> <<"t6:fee", b>>, bond |-> b, purpose |-> "bond_stake_fee",
   to |-> f.feeTo, amount |-> StakeToll(f.amount)]

\* The key is the bond and its balance before and after.
SlashTransfer(p) ==
  [key |-> <<"t6:slash", p.bond, p.before, p.after>>, bond |-> p.bond,
   purpose |-> "bond_slash", to |-> p.to, amount |-> p.before - p.after]

Exists(b) == bonds[b] # None

\* Mutant: the table without UNIQUE (deposit_tx_hash).
ClaimedNever(deposit) == FALSE

\* UNIQUE (deposit_tx_hash), a comparison of texts.
Claimed(deposit) == \E b \in BondIds : Exists(b) /\ bonds[b].deposit = deposit

-----------------------------------------------------------------------------
Init ==
  /\ \/ bonds = [b \in BondIds |-> None]
     \/ \E old \in BondIds, o \in OldOffers :
          bonds = [b \in BondIds |-> IF b = old THEN LegacyBond(o.amount, o.terms) ELSE None]
  /\ events = {} /\ txlog = {}
  /\ landed = {} /\ evidence = {} /\ chain = {} /\ receipts = {}
  /\ pc = [i \in Invocations |-> "idle"]
  /\ form = [i \in Invocations |-> None]
  /\ plan = [i \in Invocations |-> None]
  /\ mine = [i \in Invocations |-> None]
  /\ tx = [i \in Invocations |-> None]

\* The environment: a staker's transfer is mined.
DepositLands(d) ==
  /\ d \notin landed
  /\ landed' = landed \cup {d}
  /\ UNCHANGED <<dbVars, evidence, chain, receipts, localVars>>

\* The environment: the lab seals evidence about a bond it knows.
SealEvidence(v) ==
  /\ v \notin evidence
  /\ Exists(v.bond)
  /\ evidence' = evidence \cup {v}
  /\ UNCHANGED <<dbVars, landed, chain, receipts, localVars>>

\* The invocation's answer leaves and its memory goes.
Forget(i) ==
  /\ pc' = [pc EXCEPT ![i] = "idle"]
  /\ form' = [form EXCEPT ![i] = None]
  /\ plan' = [plan EXCEPT ![i] = None]
  /\ mine' = [mine EXCEPT ![i] = None]
  /\ tx' = [tx EXCEPT ![i] = None]

\* Killed, timed out, or answering 5xx: nothing written or sent is undone.
Fails(i) ==
  /\ pc[i] # "idle"
  /\ Forget(i)
  /\ UNCHANGED <<dbVars, worldVars>>

Goto(i, await) == pc' = [pc EXCEPT ![i] = await]

-----------------------------------------------------------------------------
(* POST /api/toll/v6/bonds/stake *)

\* Validation, the fee wallet and the on-chain proof of amount plus fee.
StakeVerify(i, f) ==
  /\ pc[i] = "idle"
  /\ DepositProven(landed, Paid, DepositOf[f.deposit], f.amount + StakeToll(f.amount))
  /\ Goto(i, "insert")
  /\ form' = [form EXCEPT ![i] = f]
  /\ UNCHANGED <<dbVars, worldVars, plan, mine, tx>>

StakeInsert(i, b) ==
  /\ pc[i] = "insert"
  /\ ~Exists(b)
  /\ ~Claimed(form[i].deposit)
  /\ bonds' = [bonds EXCEPT ![b] = Bond(form[i])]
  /\ mine' = [mine EXCEPT ![i] = b]
  /\ Goto(i, "stakeEvent")
  /\ UNCHANGED <<events, txlog, worldVars, form, plan, tx>>

\* 23505: the handler answers 409 deposit_already_claimed.
StakeConflict(i) ==
  /\ pc[i] = "insert"
  /\ Claimed(form[i].deposit)
  /\ Forget(i)
  /\ UNCHANGED <<dbVars, worldVars>>

\* A fee that floors to zero is not sent.
StakeEvent(i) ==
  /\ pc[i] = "stakeEvent"
  /\ events' = events \cup {[bond |-> mine[i], kind |-> "stake", amount |-> form[i].amount,
                             for |-> None, tx |-> form[i].deposit]}
  /\ Goto(i, IF StakeToll(form[i].amount) > 0 THEN "fee" ELSE "answer")
  /\ UNCHANGED <<bonds, txlog, worldVars, form, plan, mine, tx>>

StakeFee(i) ==
  LET t == FeeTransfer(mine[i], form[i]) IN
  /\ pc[i] = "fee"
  /\ chain' = ChainAfter(chain, t)
  /\ tx' = [tx EXCEPT ![i] = SendResult(chain, t)]
  /\ Goto(i, "feeEvent")
  /\ UNCHANGED <<dbVars, landed, evidence, receipts, form, plan, mine>>

\* The fee event and then the transfer log; an error skips the rest, unseen.
StakeFeeEvent(i) ==
  /\ pc[i] = "feeEvent"
  /\ events' = events \cup {[bond |-> mine[i], kind |-> "fee",
                             amount |-> StakeToll(form[i].amount),
                             for |-> None, tx |-> tx[i]]}
  /\ Goto(i, "feeLog")
  /\ UNCHANGED <<bonds, txlog, worldVars, form, plan, mine, tx>>

\* An INSERT into toll_chain_transfers, whose UNIQUE columns may refuse it.
LogAfter(asked, sent) ==
  IF \E l \in txlog : l.tx = sent \/ l.asked.key = asked.key
    THEN txlog
    ELSE txlog \cup {[tx |-> sent, asked |-> asked]}

StakeFeeLog(i) ==
  /\ pc[i] = "feeLog"
  /\ txlog' = LogAfter(FeeTransfer(mine[i], form[i]), tx[i])
  /\ Goto(i, "answer")
  /\ UNCHANGED <<bonds, events, worldVars, form, plan, mine, tx>>

StakeLogLost(i) ==
  /\ pc[i] \in {"feeEvent", "feeLog"}
  /\ Goto(i, "answer")
  /\ UNCHANGED <<dbVars, worldVars, form, plan, mine, tx>>

\* Mutant: the receipt is answered before the fee is sent.
StakeAnswerEarly(i) ==
  /\ pc[i] \in {"fee", "answer"}
  /\ receipts' = receipts \cup {mine[i]}
  /\ Forget(i)
  /\ UNCHANGED <<dbVars, landed, evidence, chain>>

StakeAnswer(i) ==
  /\ pc[i] = "answer"
  /\ receipts' = receipts \cup {mine[i]}
  /\ Forget(i)
  /\ UNCHANGED <<dbVars, landed, evidence, chain>>

-----------------------------------------------------------------------------
(* POST /api/toll/v6/bonds/slash *)

\* Mutant: evidence for any trigger will do.
SlashableAnyEvidence(b, on, v) ==
  /\ bonds[b].status = "active"
  /\ bonds[b].deposit # None
  /\ on \in DOMAIN bonds[b].terms
  /\ v.bond = b

\* The checks made on the row read, the trigger and the evidence.
Slashable(b, on, v) ==
  /\ bonds[b].status = "active"
  /\ bonds[b].deposit # None
  /\ on \in DOMAIN bonds[b].terms
  /\ v.bond = b
  /\ v.attests = on

\* Everything up to the send: nothing is written before it.
SlashRead(i, b, on, v, recourse) ==
  LET slash == SlashAmount(bonds[b].remaining, bonds[b].terms[on]) IN
  /\ pc[i] = "idle"
  /\ Exists(b)
  /\ Slashable(b, on, v)
  /\ slash > 0
  /\ plan' = [plan EXCEPT ![i] =
                [bond |-> b, on |-> on, evidence |-> v,
                 before |-> bonds[b].remaining, after |-> bonds[b].remaining - slash,
                 to |-> IF v.payTo # None THEN v.payTo ELSE recourse]]
  /\ Goto(i, "send")
  /\ UNCHANGED <<dbVars, worldVars, form, mine, tx>>

\* Mutant: an idempotency key made up for each attempt.
SlashSendFreshKey(i) ==
  LET t == [SlashTransfer(plan[i]) EXCEPT !.key = <<@[1], @[2], @[3], @[4], i>>] IN
  /\ pc[i] = "send"
  /\ chain' = ChainAfter(chain, t)
  /\ tx' = [tx EXCEPT ![i] = SendResult(chain, t)]
  /\ Goto(i, "update")
  /\ UNCHANGED <<dbVars, landed, evidence, receipts, form, plan, mine>>

\* Mutant: a failed send is swallowed and the balance written all the same.
SlashSendSwallowed(i) ==
  /\ pc[i] = "send"
  /\ Goto(i, "update")
  /\ UNCHANGED <<dbVars, worldVars, form, plan, mine, tx>>

SlashSend(i) ==
  LET t == SlashTransfer(plan[i]) IN
  /\ pc[i] = "send"
  /\ chain' = ChainAfter(chain, t)
  /\ tx' = [tx EXCEPT ![i] = SendResult(chain, t)]
  /\ Goto(i, "update")
  /\ UNCHANGED <<dbVars, landed, evidence, receipts, form, plan, mine>>

SlashedBond(row, p, sent) ==
  [row EXCEPT !.remaining = p.after,
              !.status = IF p.after = 0 THEN "exhausted" ELSE "active",
              !.slashTx = sent]

\* UPDATE ... WHERE bond_id = b AND remaining_uusdc = (the balance read).  The
\* handler goes on whether a row matched or not.
SlashUpdate(i) ==
  LET p == plan[i] IN
  /\ pc[i] = "update"
  /\ bonds' = IF bonds[p.bond].remaining = p.before
                THEN [bonds EXCEPT ![p.bond] = SlashedBond(@, p, tx[i])]
                ELSE bonds
  /\ Goto(i, "slashLog")
  /\ UNCHANGED <<events, txlog, worldVars, form, plan, mine, tx>>

SlashLog(i) ==
  /\ pc[i] = "slashLog"
  /\ txlog' = LogAfter(SlashTransfer(plan[i]), tx[i])
  /\ Goto(i, "slashEvent")
  /\ UNCHANGED <<bonds, events, worldVars, form, plan, mine, tx>>

SlashLogLost(i) ==
  /\ pc[i] = "slashLog"
  /\ Goto(i, "slashEvent")
  /\ UNCHANGED <<dbVars, worldVars, form, plan, mine, tx>>

\* The event and the answer.
SlashEvent(i) ==
  LET p == plan[i] IN
  /\ pc[i] = "slashEvent"
  /\ events' = events \cup {[bond |-> p.bond, kind |-> "slash",
                             amount |-> p.before - p.after,
                             for |-> p.evidence, tx |-> tx[i]]}
  /\ Forget(i)
  /\ UNCHANGED <<bonds, txlog, worldVars>>

-----------------------------------------------------------------------------
Next ==
  \/ \E d \in Deposits : DepositLands(d)
  \/ \E v \in Sealable : SealEvidence(v)
  \/ \E i \in Invocations :
       \/ \E f \in Forms : StakeVerify(i, f)
       \/ \E b \in BondIds : StakeInsert(i, b)
       \/ StakeConflict(i) \/ StakeEvent(i) \/ StakeFee(i)
       \/ StakeFeeEvent(i) \/ StakeFeeLog(i) \/ StakeLogLost(i) \/ StakeAnswer(i)
       \/ \E b \in BondIds, on \in Triggers, v \in evidence, w \in Wallets :
            SlashRead(i, b, on, v, w)
       \/ SlashSend(i) \/ SlashUpdate(i) \/ SlashLog(i) \/ SlashLogLost(i) \/ SlashEvent(i)
       \/ Fails(i)

Spec == Init /\ [][Next]_vars

-----------------------------------------------------------------------------
(* Properties *)

RunningPhases == {"insert", "stakeEvent", "fee", "feeEvent", "feeLog", "answer",
                  "send", "update", "slashLog", "slashEvent"}

SlashesOf(b) == {t \in chain : t.bond = b /\ t.purpose = "bond_slash"}
Before(t) == t.key[3]
After(t) == t.key[4]

TypeOK ==
  /\ bonds \in [BondIds -> Rows \cup {None}]
  /\ events \subseteq [bond : BondIds, kind : {"stake", "fee", "slash"}, amount : Nat,
                      for : Evidence \cup {None}, tx : Hashes \cup chain]
  /\ landed \subseteq Deposits /\ evidence \subseteq Sealable /\ receipts \subseteq BondIds
  /\ chain \subseteq Transfers
  /\ \A l \in txlog : l.tx \in chain
  /\ pc \in [Invocations -> {"idle"} \cup RunningPhases]
  /\ form \in [Invocations -> Forms \cup {None}]
  /\ plan \in [Invocations -> Plans \cup {None}]
  /\ mine \in [Invocations -> BondIds \cup {None}]
  /\ tx \in [Invocations -> chain \cup {None}]

\* A deposit covers the bond it funds, with the fee on top, and funds no second
\* one under the same text of its hash, however many stakes replay or race for
\* it: bonds it funds differ in how they spell it.
HashFundsOne ==
  \A b \in BondIds : Exists(b) /\ bonds[b].deposit # None =>
    /\ DepositProven(landed, Paid, DepositOf[bonds[b].deposit],
                     bonds[b].amount + StakeToll(bonds[b].amount))
    /\ \A o \in BondIds \ {b} : Exists(o) => bonds[o].deposit # bonds[b].deposit

\* The state write never runs ahead of the money: a balance below the amount
\* staked is what a transfer really sent for this bond left, and the row names
\* that transfer.
BalanceBacked ==
  \A b \in BondIds : Exists(b) =>
    /\ bonds[b].status = "exhausted" <=> bonds[b].remaining = 0
    /\ \/ bonds[b].remaining = bonds[b].amount /\ bonds[b].slashTx = None
       \/ /\ bonds[b].slashTx \in SlashesOf(b)
          /\ After(bonds[b].slashTx) = bonds[b].remaining

\* Every slash sent is backed by sealed evidence for a condition of that bond,
\* takes exactly the condition's share of a balance the bond has had, and goes
\* only out of a bond with a real deposit.
SlashIsEvidenced ==
  \A b \in BondIds : \A t \in SlashesOf(b) :
    /\ Exists(b) /\ bonds[b].deposit # None
    /\ bonds[b].remaining <= Before(t) /\ Before(t) <= bonds[b].amount
    /\ \E v \in evidence :
         /\ v.bond = b /\ v.attests \in DOMAIN bonds[b].terms
         /\ t.amount = SlashAmount(Before(t), bonds[b].terms[v.attests])
         /\ v.payTo \in {None, t.to}

\* A bond with a single condition is slashed along one path, whatever races,
\* crashes and retries: no balance is slashed twice, and each slash starts
\* from the staked amount or from where another ended.
OnePath ==
  \A b \in BondIds : Exists(b) /\ Cardinality(DOMAIN bonds[b].terms) = 1 =>
    /\ \A s, t \in SlashesOf(b) : Before(s) = Before(t) => s = t
    /\ \A t \in SlashesOf(b) : \/ Before(t) = bonds[b].amount
                               \/ \E s \in SlashesOf(b) : After(s) = Before(t)

\* No stake receipt without its row, its event and its fee on the chain.
ReceiptMeansFee ==
  \A b \in receipts :
    /\ Exists(b) /\ bonds[b].deposit # None
    /\ \E v \in events : v.bond = b /\ v.kind = "stake" /\ v.tx = bonds[b].deposit
    /\ StakeToll(bonds[b].amount) > 0 =>
         \E t \in chain : /\ t.key = <<"t6:fee", b>>
                         /\ t.amount = StakeToll(bonds[b].amount)

-----------------------------------------------------------------------------
(* What a comment says and the code does not do *)

\* "Idempotent, so retries and crash recovery can never double-slash": one
\* piece of evidence makes one slash.
EvidenceSlashesOnce ==
  \A m, n \in events : m.kind = "slash" /\ n.kind = "slash" /\ m.for = n.for => m.tx = n.tx

=============================================================================
