--------------------------- MODULE TollBondsProofs ---------------------------
(***************************************************************************)
(* Proofs about TollBonds for every number of invocations, bonds, deposits *)
(* and conditions.  Argument: rows keep their terms and lose balance, the  *)
(* chain and the evidence only grow (Onward), so what an invocation has    *)
(* established (Proving, Staking, Slashing) stays true while others move.  *)
(* A slash key names the balances it moves between and sends once          *)
(* (KeySendsOnce); a slash starts from the amount staked or from where a   *)
(* slash that was sent has left the bond (SlashStarts).                    *)
(***************************************************************************)
EXTENDS TollBonds, FiniteSetTheorems, TLAPS

StakePhases == {"stakeEvent", "fee", "feeEvent", "feeLog", "answer"}
SlashPhases == {"send", "update", "slashLog", "slashEvent"}

\* The deposit is on the chain and covers the form.
Proving(i) == pc[i] = "insert" =>
  /\ form[i] \in Forms
  /\ DepositProven(landed, Paid, DepositOf[form[i].deposit],
                   form[i].amount + StakeToll(form[i].amount))

StakeNoted(b) == \E v \in events : v.bond = b /\ v.kind = "stake" /\ v.tx = bonds[b].deposit

FeePaid(b) == StakeToll(bonds[b].amount) > 0 =>
  \E t \in chain : t.key = <<"t6:fee", b>> /\ t.amount = StakeToll(bonds[b].amount)

\* The row is in the table; its event and its fee are where the await says.
Staking(i) == pc[i] \in StakePhases =>
  /\ form[i] \in Forms /\ mine[i] \in BondIds /\ Exists(mine[i])
  /\ bonds[mine[i]].deposit = form[i].deposit
  /\ bonds[mine[i]].amount = form[i].amount
  /\ pc[i] # "stakeEvent" => StakeNoted(mine[i])
  /\ pc[i] = "fee" => StakeToll(form[i].amount) > 0
  /\ pc[i] \in {"feeEvent", "feeLog"} => tx[i] \in chain
  /\ pc[i] \in {"feeEvent", "feeLog", "answer"} => FeePaid(mine[i])

\* A balance the bond was staked with, or that a slash has left it.
Reached(b, balance) ==
  balance = bonds[b].amount \/ \E s \in SlashesOf(b) : After(s) = balance

Planned(p) ==
  /\ p \in Plans
  /\ Exists(p.bond) /\ bonds[p.bond].deposit # None
  /\ p.on \in DOMAIN bonds[p.bond].terms
  /\ p.evidence \in evidence /\ p.evidence.bond = p.bond /\ p.evidence.attests = p.on
  /\ p.evidence.payTo \in {None, p.to}
  /\ p.before - p.after = SlashAmount(p.before, bonds[p.bond].terms[p.on])
  /\ bonds[p.bond].remaining <= p.before /\ p.before <= bonds[p.bond].amount
  /\ Reached(p.bond, p.before)

\* What a slash computed still holds when it sends and writes.
Slashing(i) == pc[i] \in SlashPhases =>
  /\ Planned(plan[i])
  /\ pc[i] # "send" => tx[i] \in chain /\ tx[i].key = SlashTransfer(plan[i]).key

Doing(i) == Proving(i) /\ Staking(i) /\ Slashing(i)

KeySendsOnce == \A s, t \in chain : s.key = t.key => s = t

FeeIsOnePercent ==
  \A t \in chain : t.purpose = "bond_stake_fee" =>
    Exists(t.bond) /\ t.amount = StakeToll(bonds[t.bond].amount)

SlashStarts == \A b \in BondIds : \A t \in SlashesOf(b) : Reached(b, Before(t))

ChainInv == KeySendsOnce /\ FeeIsOnePercent /\ SlashIsEvidenced /\ SlashStarts

IInv == /\ TypeOK /\ ChainInv
        /\ \A i \in Invocations : Doing(i)
        /\ HashFundsOne /\ BalanceBacked /\ ReceiptMeansFee

-----------------------------------------------------------------------------
(* Facts about the operators *)

\* AwLPay adds at most the transfer it is asked for, and answers with one that
\* is on the chain under the requested key.
LEMMA SendFacts ==
  ASSUME NEW ch, NEW t
  PROVE  /\ ch \subseteq ChainAfter(ch, t)
         /\ ChainAfter(ch, t) \subseteq ch \cup {t}
         /\ SendResult(ch, t) \in ChainAfter(ch, t)
         /\ SendResult(ch, t).key = t.key
         /\ ChainAfter(ch, t) = ch \/ \A s \in ch : s.key # t.key
<1>1. CASE SentUnder(ch, t.key) = {}
  BY <1>1 DEF ChainAfter, SendResult, SentUnder
<1>2. CASE SentUnder(ch, t.key) # {}
  <2>1. \E s \in ch : s.key = t.key
    BY <1>2 DEF SentUnder
  <2>2. /\ (CHOOSE s \in ch : s.key = t.key) \in ch
        /\ (CHOOSE s \in ch : s.key = t.key).key = t.key
    BY <2>1
  <2>. QED
    BY <1>2, <2>2 DEF ChainAfter, SendResult
<1>. QED
  BY <1>1, <1>2

\* What a form asks for.
LEMMA FormFacts ==
  ASSUME NEW f \in Forms
  PROVE  /\ f.deposit \in Hashes /\ f.amount \in Nat \ {0} /\ f.feeTo \in Wallets
         /\ f.terms \in {o.terms : o \in Offers}
         /\ StakeToll(f.amount) \in Nat
         /\ f.deposit # None
<1>1. PICK d \in Hashes, o \in Offers, w \in Wallets :
        f = [deposit |-> d, amount |-> o.amount, terms |-> o.terms, feeTo |-> w]
  BY DEF Forms
<1>2. o.amount \in Nat \ {0}
  BY BondAssumption
<1>. QED
  BY <1>1, <1>2, BondAssumption DEF StakeToll

\* The terms a row can have.
LEMMA TermsFacts ==
  ASSUME NEW m \in {o.terms : o \in Offers}
  PROVE  /\ DOMAIN m \subseteq Triggers /\ IsFiniteSet(DOMAIN m)
         /\ \A on \in DOMAIN m : m[on] \in 1..100
<1>1. PICK o \in Offers : m = o.terms
  OBVIOUS
<1>2. o.terms \in [DOMAIN o.terms -> 1..100] /\ DOMAIN o.terms \in (SUBSET Triggers) \ {{}}
  BY BondAssumption
<1>3. DOMAIN m \in SUBSET Triggers
  BY <1>1, <1>2
<1>. QED
  BY <1>1, <1>2, <1>3, BondAssumption, FS_Subset

\* slashAmounts takes no more than there is.
LEMMA SlashBounds ==
  ASSUME NEW r \in Nat, NEW pct \in 1..100
  PROVE  SlashAmount(r, pct) \in Nat /\ SlashAmount(r, pct) <= r
<1>1. r * pct \in Nat /\ r * pct <= r * 100
  OBVIOUS
<1>2. ASSUME NEW n \in Nat, n <= r * 100 PROVE n \div 100 \in Nat /\ n \div 100 <= r
  BY <1>2
<1>. QED
  BY <1>1, <1>2 DEF SlashAmount

LEMMA FeeTransferType ==
  ASSUME NEW b \in BondIds, NEW f \in Forms, StakeToll(f.amount) > 0
  PROVE  /\ FeeTransfer(b, f) \in FeeTransfers
         /\ FeeTransfer(b, f).key = <<"t6:fee", b>> /\ FeeTransfer(b, f).bond = b
         /\ FeeTransfer(b, f).amount = StakeToll(f.amount)
BY FormFacts DEF FeeTransfer, FeeTransfers

LEMMA SlashTransferType ==
  ASSUME NEW p \in Plans
  PROVE  /\ SlashTransfer(p) \in SlashTransfers
         /\ SlashTransfer(p).key = <<"t6:slash", p.bond, p.before, p.after>>
         /\ SlashTransfer(p).bond = p.bond /\ SlashTransfer(p).to = p.to
         /\ p.before \in Nat /\ p.after \in Nat /\ p.after < p.before
         /\ p.bond \in BondIds /\ p.evidence \in Evidence
BY DEF SlashTransfer, SlashTransfers, Plans

\* A transfer's key says what it is.
LEMMA KeyFacts ==
  ASSUME NEW t \in Transfers
  PROVE  /\ \A b, m, n : t.key = <<"t6:slash", b, m, n>> =>
              /\ t.bond = b /\ t.purpose = "bond_slash"
              /\ Before(t) = m /\ After(t) = n
         /\ \A b : t.key = <<"t6:fee", b>> => t.bond = b /\ t.purpose = "bond_stake_fee"
         /\ t.purpose = "bond_slash" =>
              /\ t \in SlashTransfers
              /\ t.key = <<"t6:slash", t.bond, Before(t), After(t)>>
              /\ Before(t) \in Nat /\ After(t) \in Nat /\ t.amount = Before(t) - After(t)
         /\ t.purpose = "bond_stake_fee" => t.key = <<"t6:fee", t.bond>>
         /\ t.bond \in BondIds /\ t.to \in Wallets /\ t.amount \in Nat \ {0}
<1>1. CASE t \in FeeTransfers
  <2>1. PICK b \in BondIds : t.key = <<"t6:fee", b>>
    BY <1>1 DEF FeeTransfers
  <2>2. t.key[1] = "t6:fee" /\ t.key[2] = b
    BY <2>1
  <2>3. \A c, m, n : t.key # <<"t6:slash", c, m, n>>
    <3>1. \A c, m, n : <<"t6:slash", c, m, n>>[1] = "t6:slash"
      OBVIOUS
    <3>. QED
      BY <2>2, <3>1
  <2>. QED
    BY <1>1, <2>1, <2>2, <2>3 DEF FeeTransfers
<1>2. CASE t \in SlashTransfers
  <2>1. PICK b \in BondIds, m \in Nat, n \in Nat : t.key = <<"t6:slash", b, m, n>>
    BY <1>2 DEF SlashTransfers
  <2>2. t.key[1] = "t6:slash" /\ t.key[2] = b /\ t.key[3] = m /\ t.key[4] = n
    BY <2>1
  <2>3. \A c : t.key # <<"t6:fee", c>>
    <3>1. \A c : <<"t6:fee", c>>[1] = "t6:fee"
      OBVIOUS
    <3>. QED
      BY <2>2, <3>1
  <2>4. \A c, x, y : t.key = <<"t6:slash", c, x, y>> => c = b /\ x = m /\ y = n
    BY <2>1
  <2>. QED
    BY <1>2, <2>1, <2>2, <2>3, <2>4 DEF SlashTransfers, Before, After
<1>. QED
  BY <1>1, <1>2 DEF Transfers

-----------------------------------------------------------------------------
(* What others' steps leave true *)

\* Nothing on the chain, sealed or noted is taken back; a row keeps its terms
\* and gains no balance.
Onward ==
  /\ landed \subseteq landed' /\ evidence \subseteq evidence'
  /\ events \subseteq events' /\ chain \subseteq chain'
  /\ \A b \in BondIds : Exists(b) =>
       /\ bonds'[b] # None /\ bonds'[b].deposit = bonds[b].deposit
       /\ bonds'[b].amount = bonds[b].amount /\ bonds'[b].terms = bonds[b].terms
       /\ bonds'[b].remaining <= bonds[b].remaining

Same(j) ==
  /\ pc'[j] = pc[j] /\ form'[j] = form[j] /\ plan'[j] = plan[j]
  /\ mine'[j] = mine[j] /\ tx'[j] = tx[j]

LEMMA OnwardReached ==
  ASSUME Onward, NEW b \in BondIds, Exists(b), NEW balance, Reached(b, balance)
  PROVE  Reached(b, balance)'
BY DEF Onward, Reached, SlashesOf

LEMMA OnwardPlanned ==
  ASSUME TypeOK, TypeOK', Onward, NEW p, Planned(p)
  PROVE  Planned(p)'
<1>1. p \in Plans /\ p.bond \in BondIds /\ p.before \in Nat /\ Exists(p.bond)
  BY SlashTransferType DEF Planned
<1>2. bonds[p.bond] \in Rows /\ bonds'[p.bond] \in Rows
  BY <1>1 DEF TypeOK, Exists, Onward
<1>3. bonds'[p.bond].remaining <= p.before
  BY <1>1, <1>2 DEF Onward, Planned, Rows
<1>4. Reached(p.bond, p.before)'
  BY <1>1, OnwardReached DEF Planned
<1>. QED
  BY <1>1, <1>3, <1>4 DEF Onward, Planned, Exists

LEMMA OnwardNotes ==
  ASSUME Onward, NEW b \in BondIds, Exists(b)
  PROVE  /\ StakeNoted(b) => StakeNoted(b)'
         /\ FeePaid(b) => FeePaid(b)'
BY DEF Onward, StakeNoted, FeePaid

LEMMA OnwardDoing ==
  ASSUME TypeOK, TypeOK', Onward, NEW j \in Invocations, Doing(j), Same(j)
  PROVE  Doing(j)'
<1>1. Proving(j)'
  BY DEF Doing, Proving, Same, Onward, DepositProven
<1>2. Staking(j)'
  <2>. SUFFICES ASSUME pc[j] \in StakePhases PROVE Staking(j)'
    BY DEF Same, Staking
  <2>1. PICK b \in BondIds : b = mine[j] /\ Exists(b)
    BY DEF Doing, Staking
  <2>2. /\ StakeNoted(b) => StakeNoted(b)'
        /\ FeePaid(b) => FeePaid(b)'
    BY <2>1, OnwardNotes
  <2>3. mine'[j] = b
    BY <2>1 DEF Same
  <2>4. /\ pc[j] # "stakeEvent" => StakeNoted(b)
        /\ pc[j] \in {"feeEvent", "feeLog", "answer"} => FeePaid(b)
    BY <2>1 DEF Doing, Staking
  <2>5. /\ pc'[j] # "stakeEvent" => StakeNoted(mine[j])'
        /\ pc'[j] \in {"feeEvent", "feeLog", "answer"} => FeePaid(mine[j])'
    BY <2>2, <2>3, <2>4 DEF Same, StakeNoted, FeePaid
  <2>. QED
    BY <2>1, <2>5 DEF Doing, Staking, Same, Onward, Exists
<1>3. Slashing(j)'
  <2>. SUFFICES ASSUME pc[j] \in SlashPhases PROVE Slashing(j)'
    BY DEF Same, Slashing
  <2>1. PICK p : p = plan[j]
    OBVIOUS
  <2>2. Planned(p)'
    BY <2>1, OnwardPlanned DEF Doing, Slashing
  <2>3. Planned(plan[j])'
    BY <2>1, <2>2 DEF Same
  <2>. QED
    BY <2>3 DEF Doing, Slashing, Same, Onward
<1>. QED
  BY <1>1, <1>2, <1>3 DEF Doing

-----------------------------------------------------------------------------
(* Steps that neither write a row nor send *)

\* What a caller's receipt says.
Received(b) ==
  Exists(b) /\ bonds[b].deposit # None /\ StakeNoted(b) /\ FeePaid(b)

Grows ==
  /\ UNCHANGED <<bonds, chain>>
  /\ landed \subseteq landed' /\ evidence \subseteq evidence' /\ events \subseteq events'

LEMMA QuietInv ==
  ASSUME IInv, TypeOK', Grows,
         \A j \in Invocations : Same(j) \/ Doing(j)',
         \A b \in receipts' : b \in receipts \/ Received(b)
  PROVE  IInv'
<1>1. Onward
  <2>1. \A b \in BondIds : Exists(b) => bonds[b].remaining <= bonds[b].remaining
    BY DEF IInv, TypeOK, Rows, Exists
  <2>. QED
    BY <2>1 DEF Grows, Onward, Exists
<1>2. \A j \in Invocations : Doing(j)'
  BY <1>1, OnwardDoing DEF IInv
<1>3. \A b, c : /\ SlashesOf(b)' = SlashesOf(b) /\ Exists(b)' = Exists(b)
                /\ Reached(b, c)' = Reached(b, c)
  BY DEF Grows, SlashesOf, Exists, Reached
<1>4. KeySendsOnce' /\ FeeIsOnePercent'
  BY DEF IInv, ChainInv, KeySendsOnce, FeeIsOnePercent, Grows, Exists
<1>5. SlashIsEvidenced' /\ SlashStarts'
  BY <1>3 DEF IInv, ChainInv, SlashIsEvidenced, SlashStarts, Grows
<1>6. HashFundsOne' /\ BalanceBacked'
  BY <1>3 DEF IInv, HashFundsOne, BalanceBacked, Grows, DepositProven
<1>7. ReceiptMeansFee'
  <2>1. ASSUME NEW b \in receipts' PROVE Received(b)
    BY <2>1 DEF Received, StakeNoted, FeePaid, IInv, ReceiptMeansFee
  <2>2. receipts' \subseteq BondIds
    BY DEF TypeOK
  <2>3. ASSUME NEW b \in receipts' PROVE Received(b)'
    BY <2>1, <2>2, <2>3, <1>1, OnwardNotes DEF Received, Grows, Exists
  <2>. QED
    BY <2>3 DEF ReceiptMeansFee, Received, StakeNoted, FeePaid
<1>. QED
  BY <1>2, <1>4, <1>5, <1>6, <1>7 DEF IInv, ChainInv

LEMMA ForgetFacts ==
  ASSUME TypeOK, NEW i \in Invocations, Forget(i)
  PROVE  /\ pc' \in [Invocations -> {"idle"} \cup RunningPhases]
         /\ form' \in [Invocations -> Forms \cup {None}]
         /\ plan' \in [Invocations -> Plans \cup {None}]
         /\ mine' \in [Invocations -> BondIds \cup {None}]
         /\ tx' \in [Invocations -> chain \cup {None}]
         /\ Doing(i)'
         /\ \A j \in Invocations \ {i} : Same(j)
<1>1. pc'[i] = "idle"
  BY DEF TypeOK, Forget
<1>2. Doing(i)'
  BY <1>1 DEF Doing, Proving, Staking, Slashing, StakePhases, SlashPhases
<1>. QED
  BY <1>2 DEF TypeOK, Forget, Same

\* The steps that end an invocation, and the environment's.
LEMMA EndInv ==
  ASSUME IInv,
         \/ \E d \in Deposits : DepositLands(d)
         \/ \E v \in Sealable : SealEvidence(v)
         \/ \E i \in Invocations : StakeConflict(i) \/ Fails(i) \/ StakeAnswer(i) \/ SlashEvent(i)
         \/ UNCHANGED vars
  PROVE  IInv'
<1>. USE DEF dbVars, worldVars, localVars
<1>1. TypeOK
  BY DEF IInv
<1>2. ASSUME NEW d \in Deposits, DepositLands(d) PROVE IInv'
  <2>1. TypeOK' /\ Grows /\ UNCHANGED receipts /\ \A j \in Invocations : Same(j)
    BY <1>1, <1>2 DEF DepositLands, TypeOK, Grows, Same
  <2>. QED
    BY <2>1, QuietInv
<1>3. ASSUME NEW v \in Sealable, SealEvidence(v) PROVE IInv'
  <2>1. TypeOK' /\ Grows /\ UNCHANGED receipts /\ \A j \in Invocations : Same(j)
    BY <1>1, <1>3 DEF SealEvidence, TypeOK, Grows, Same
  <2>. QED
    BY <2>1, QuietInv
<1>4. ASSUME NEW i \in Invocations, StakeConflict(i) \/ Fails(i) PROVE IInv'
  <2>1. Forget(i) /\ UNCHANGED <<dbVars, worldVars>>
    BY <1>4 DEF StakeConflict, Fails
  <2>2. TypeOK' /\ Grows
    BY <1>1, <2>1, ForgetFacts DEF TypeOK, Grows
  <2>. QED
    BY <1>1, <2>1, <2>2, ForgetFacts, QuietInv
<1>5. ASSUME NEW i \in Invocations, StakeAnswer(i) PROVE IInv'
  <2>1. /\ Forget(i) /\ UNCHANGED <<dbVars, landed, evidence, chain>>
        /\ pc[i] = "answer" /\ receipts' = receipts \cup {mine[i]}
    BY <1>5 DEF StakeAnswer
  <2>2. /\ form[i] \in Forms /\ mine[i] \in BondIds /\ Exists(mine[i])
        /\ bonds[mine[i]].deposit = form[i].deposit
        /\ StakeNoted(mine[i]) /\ FeePaid(mine[i])
    BY <2>1 DEF IInv, Doing, Staking, StakePhases
  <2>3. Received(mine[i])
    BY <2>2, FormFacts DEF Received
  <2>4. TypeOK' /\ Grows
    BY <1>1, <2>1, <2>2, ForgetFacts DEF TypeOK, Grows
  <2>. QED
    BY <1>1, <2>1, <2>3, <2>4, ForgetFacts, QuietInv
<1>6. ASSUME NEW i \in Invocations, SlashEvent(i) PROVE IInv'
  <2>1. PICK p : p = plan[i]
    OBVIOUS
  <2>2. /\ Forget(i) /\ UNCHANGED <<bonds, txlog, worldVars>> /\ pc[i] = "slashEvent"
        /\ events' = events \cup {[bond |-> p.bond, kind |-> "slash",
                                   amount |-> p.before - p.after,
                                   for |-> p.evidence, tx |-> tx[i]]}
    BY <1>6, <2>1 DEF SlashEvent
  <2>3. p \in Plans /\ tx[i] \in chain
    BY <2>1, <2>2 DEF IInv, Doing, Slashing, SlashPhases, Planned
  <2>4. /\ p.bond \in BondIds /\ p.evidence \in Evidence /\ p.before - p.after \in Nat
    BY <2>3, SlashTransferType
  <2>5. events' \subseteq [bond : BondIds, kind : {"stake", "fee", "slash"}, amount : Nat,
                           for : Evidence \cup {None}, tx : Hashes \cup chain]
    BY <1>1, <2>2, <2>3, <2>4 DEF TypeOK
  <2>6. TypeOK' /\ Grows
    BY <1>1, <2>2, <2>5, ForgetFacts DEF TypeOK, Grows
  <2>. QED
    BY <1>1, <2>2, <2>6, ForgetFacts, QuietInv
<1>7. ASSUME UNCHANGED vars PROVE IInv'
  <2>1. TypeOK' /\ Grows /\ UNCHANGED receipts /\ \A j \in Invocations : Same(j)
    BY <1>1, <1>7 DEF vars, TypeOK, Grows, Same
  <2>. QED
    BY <2>1, QuietInv
<1>. QED
  BY <1>2, <1>3, <1>4, <1>5, <1>6, <1>7

\* The steps of a stake around its insert and its fee.
LEMMA StakeInv ==
  ASSUME IInv, NEW i \in Invocations,
         \/ \E f \in Forms : StakeVerify(i, f)
         \/ StakeEvent(i) \/ StakeFeeEvent(i) \/ StakeFeeLog(i) \/ StakeLogLost(i)
  PROVE  IInv'
<1>. USE DEF dbVars, worldVars, localVars
<1>1. TypeOK /\ Doing(i)
  BY DEF IInv
<1>2. ASSUME NEW f \in Forms, StakeVerify(i, f) PROVE IInv'
  <2>1. TypeOK' /\ Grows /\ UNCHANGED receipts /\ \A j \in Invocations \ {i} : Same(j)
    BY <1>1, <1>2 DEF StakeVerify, Goto, TypeOK, Grows, Same, RunningPhases
  <2>2. pc'[i] = "insert" /\ form'[i] = f
    BY <1>1, <1>2 DEF StakeVerify, Goto, TypeOK
  <2>3. Doing(i)'
    BY <1>2, <2>2 DEF StakeVerify, Doing, Proving, Staking, Slashing, StakePhases, SlashPhases
  <2>. QED
    BY <2>1, <2>3, QuietInv
<1>3. ASSUME pc[i] \in StakePhases, pc'[i] \in StakePhases \ {"fee"}, Grows,
             UNCHANGED <<form, plan, mine, tx, receipts>>,
             \A j \in Invocations \ {i} : pc'[j] = pc[j], TypeOK',
             pc'[i] # "stakeEvent" => StakeNoted(mine[i])',
             pc'[i] \in {"feeEvent", "feeLog"} => pc[i] \in {"feeEvent", "feeLog"},
             pc'[i] = "answer" => FeePaid(mine[i])
      PROVE  IInv'
  <2>1. \A j \in Invocations \ {i} : Same(j)
    BY <1>3 DEF Same
  <2>2. /\ form[i] \in Forms /\ mine[i] \in BondIds /\ Exists(mine[i])
        /\ bonds[mine[i]].deposit = form[i].deposit
        /\ bonds[mine[i]].amount = form[i].amount
        /\ pc[i] \in {"feeEvent", "feeLog"} => tx[i] \in chain /\ FeePaid(mine[i])
    BY <1>1, <1>3 DEF Doing, Staking
  <2>3. FeePaid(mine[i])' <=> FeePaid(mine[i])
    BY <1>3 DEF FeePaid, Grows
  <2>4. Staking(i)'
    BY <1>3, <2>2, <2>3 DEF Staking, Grows, Exists
  <2>5. Doing(i)'
    BY <1>3, <2>4 DEF Doing, Proving, Slashing, StakePhases, SlashPhases
  <2>. QED
    BY <1>3, <2>1, <2>5, QuietInv
<1>4. ASSUME pc[i] \in StakePhases, NEW amount \in Nat, NEW kind \in {"stake", "fee"},
             NEW sent \in Hashes \cup chain, NEW await \in RunningPhases,
             events' = events \cup {[bond |-> mine[i], kind |-> kind, amount |-> amount,
                                    for |-> None, tx |-> sent]},
             Goto(i, await), UNCHANGED <<bonds, txlog, worldVars, form, plan, mine, tx>>
      PROVE  TypeOK' /\ Grows
  <2>1. mine[i] \in BondIds
    BY <1>1, <1>4 DEF Doing, Staking
  <2>2. events' \subseteq [bond : BondIds, kind : {"stake", "fee", "slash"}, amount : Nat,
                           for : Evidence \cup {None}, tx : Hashes \cup chain]
    BY <1>1, <1>4, <2>1 DEF TypeOK
  <2>. QED
    BY <1>1, <1>4, <2>2 DEF TypeOK, Grows, Goto
<1>5. ASSUME StakeEvent(i) PROVE IInv'
  <2>1. /\ pc[i] = "stakeEvent" /\ form[i] \in Forms /\ mine[i] \in BondIds /\ Exists(mine[i])
        /\ bonds[mine[i]].deposit = form[i].deposit
        /\ bonds[mine[i]].amount = form[i].amount
    BY <1>1, <1>5 DEF StakeEvent, Doing, Staking, StakePhases
  <2>2. form[i].amount \in Nat /\ form[i].deposit \in Hashes /\ StakeToll(form[i].amount) \in Nat
    BY <2>1, FormFacts
  <2>3. PICK await \in {"fee", "answer"} :
          /\ await = IF StakeToll(form[i].amount) > 0 THEN "fee" ELSE "answer"
          /\ Goto(i, await)
    BY <1>5 DEF StakeEvent
  <2>4. TypeOK' /\ Grows
    BY <1>4, <1>5, <2>1, <2>2, <2>3 DEF StakeEvent, StakePhases, RunningPhases
  <2>5. pc'[i] = await /\ \A j \in Invocations \ {i} : Same(j)
    BY <1>1, <1>5, <2>3 DEF StakeEvent, Goto, Same, TypeOK
  <2>6. StakeNoted(mine[i])'
    <3>1. [bond |-> mine[i], kind |-> "stake", amount |-> form[i].amount,
           for |-> None, tx |-> form[i].deposit] \in events'
      BY <1>5 DEF StakeEvent
    <3>2. UNCHANGED <<bonds, mine>>
      BY <1>5 DEF StakeEvent
    <3>. QED
      BY <2>1, <3>1, <3>2 DEF StakeNoted
  <2>7. await = "answer" => FeePaid(mine[i])'
    BY <1>5, <2>1, <2>3 DEF StakeEvent, FeePaid
  <2>8. Doing(i)'
    BY <1>5, <2>1, <2>3, <2>5, <2>6, <2>7
    DEF StakeEvent, Doing, Proving, Staking, Slashing, StakePhases, SlashPhases, Exists
  <2>. QED
    BY <1>5, <2>4, <2>5, <2>8, QuietInv DEF StakeEvent
<1>6. ASSUME StakeFeeEvent(i) PROVE IInv'
  <2>1. /\ pc[i] = "feeEvent" /\ form[i] \in Forms /\ tx[i] \in chain
        /\ mine[i] \in BondIds /\ Exists(mine[i]) /\ StakeNoted(mine[i])
    BY <1>1, <1>6 DEF StakeFeeEvent, Doing, Staking, StakePhases
  <2>2. TypeOK' /\ Grows
    BY <1>4, <1>6, <2>1, FormFacts DEF StakeFeeEvent, StakePhases, RunningPhases
  <2>3. pc'[i] = "feeLog" /\ \A j \in Invocations \ {i} : pc'[j] = pc[j]
    BY <1>1, <1>6 DEF StakeFeeEvent, Goto, TypeOK
  <2>4. StakeNoted(mine[i])'
    BY <1>6, <2>1, <2>2 DEF StakeFeeEvent, StakeNoted, Grows
  <2>. QED
    BY <1>3, <1>6, <2>1, <2>2, <2>3, <2>4 DEF StakeFeeEvent, StakePhases
<1>7. ASSUME StakeFeeLog(i) \/ StakeLogLost(i) PROVE IInv'
  <2>1. /\ pc[i] \in {"feeEvent", "feeLog"} /\ tx[i] \in chain
        /\ StakeNoted(mine[i]) /\ FeePaid(mine[i])
    BY <1>1, <1>7 DEF StakeFeeLog, StakeLogLost, Doing, Staking, StakePhases
  <2>2. \A l \in txlog' : l.tx \in chain
    BY <1>1, <1>7, <2>1 DEF StakeFeeLog, StakeLogLost, LogAfter, TypeOK
  <2>3. TypeOK' /\ Grows
    BY <1>1, <1>7, <2>2 DEF StakeFeeLog, StakeLogLost, Goto, TypeOK, Grows, RunningPhases
  <2>4. pc'[i] = "answer" /\ \A j \in Invocations \ {i} : pc'[j] = pc[j]
    BY <1>1, <1>7 DEF StakeFeeLog, StakeLogLost, Goto, TypeOK
  <2>5. StakeNoted(mine[i])'
    BY <1>7, <2>1 DEF StakeFeeLog, StakeLogLost, StakeNoted
  <2>. QED
    BY <1>3, <1>7, <2>1, <2>3, <2>4, <2>5 DEF StakeFeeLog, StakeLogLost, StakePhases
<1>. QED
  BY <1>2, <1>5, <1>6, <1>7

\* What a slash computes from the row it reads, and the steps after its write.
LEMMA SlashReadInv ==
  ASSUME IInv, NEW i \in Invocations, NEW b \in BondIds, NEW on \in Triggers,
         NEW v \in evidence, NEW w \in Wallets, SlashRead(i, b, on, v, w)
  PROVE  IInv'
<1>. USE DEF dbVars, worldVars, localVars
<1>. DEFINE row == bonds[b]
            slash == SlashAmount(row.remaining, row.terms[on])
            p == [bond |-> b, on |-> on, evidence |-> v,
                  before |-> row.remaining, after |-> row.remaining - slash,
                  to |-> IF v.payTo # None THEN v.payTo ELSE w]
<1>1. TypeOK
  BY DEF IInv
<1>2. /\ pc[i] = "idle" /\ Exists(b) /\ Slashable(b, on, v) /\ slash > 0
      /\ plan' = [plan EXCEPT ![i] = p] /\ Goto(i, "send")
      /\ UNCHANGED <<dbVars, worldVars, form, mine, tx>>
  BY DEF SlashRead
<1>3. row \in Rows /\ row.remaining \in Nat /\ row.amount \in Nat
  BY <1>1, <1>2 DEF TypeOK, Exists, Rows
<1>4. row.terms[on] \in 1..100
  BY <1>2, <1>3, TermsFacts DEF Slashable, Rows
<1>5. slash \in Nat /\ slash <= row.remaining
  BY <1>3, <1>4, SlashBounds
<1>6. v \in Evidence
  BY <1>1, BondAssumption DEF TypeOK
<1>. HIDE DEF slash, row
<1>7. /\ row.remaining - slash \in Nat /\ row.remaining - slash < row.remaining
      /\ row.remaining - (row.remaining - slash) = slash
  BY <1>2, <1>3, <1>5
<1>8. p.to \in Wallets /\ v.payTo \in {None, p.to}
  BY <1>6 DEF Evidence
<1>9. p \in Plans
  BY <1>3, <1>6, <1>7, <1>8 DEF Plans
<1>10. row.remaining <= row.amount /\ Reached(b, row.remaining)
  <2>1. \/ row.remaining = row.amount
        \/ row.slashTx \in SlashesOf(b) /\ After(row.slashTx) = row.remaining
    BY <1>2 DEF IInv, BalanceBacked, row
  <2>2. CASE row.remaining = row.amount
    BY <1>3, <2>2 DEF Reached, row
  <2>3. CASE row.slashTx \in SlashesOf(b) /\ After(row.slashTx) = row.remaining
    <3>1. row.slashTx \in Transfers /\ row.slashTx.purpose = "bond_slash"
      BY <1>1, <2>3 DEF TypeOK, SlashesOf
    <3>2. /\ Before(row.slashTx) \in Nat /\ After(row.slashTx) \in Nat
          /\ Before(row.slashTx) - After(row.slashTx) \in Nat
      BY <3>1, KeyFacts
    <3>3. Before(row.slashTx) <= row.amount
      BY <2>3 DEF IInv, ChainInv, SlashIsEvidenced, row
    <3>. QED
      BY <1>3, <2>3, <3>2, <3>3 DEF Reached
  <2>. QED
    BY <2>1, <2>2, <2>3
<1>11. Planned(p)
  BY <1>2, <1>3, <1>7, <1>8, <1>9, <1>10 DEF Planned, Slashable, row, slash
<1>. HIDE DEF p
<1>12. PICK q : q = p
  OBVIOUS
<1>13. Planned(q)'
  BY <1>2, <1>11, <1>12 DEF Planned, Reached, SlashesOf, Exists
<1>14. pc'[i] = "send" /\ plan'[i] = q /\ \A j \in Invocations \ {i} : Same(j)
  BY <1>1, <1>2, <1>12 DEF TypeOK, Goto, Same
<1>15. Slashing(i)'
  BY <1>13, <1>14 DEF Slashing
<1>16. Doing(i)'
  BY <1>14, <1>15 DEF Doing, Proving, Staking, StakePhases
<1>17. TypeOK' /\ Grows
  BY <1>1, <1>2, <1>9 DEF TypeOK, Goto, Grows, RunningPhases
<1>. QED
  BY <1>2, <1>14, <1>16, <1>17, QuietInv

LEMMA SlashLogInv ==
  ASSUME IInv, NEW i \in Invocations, SlashLog(i) \/ SlashLogLost(i)
  PROVE  IInv'
<1>. USE DEF dbVars, worldVars, localVars
<1>1. TypeOK /\ Slashing(i)
  BY DEF IInv, Doing
<1>2. /\ pc[i] = "slashLog" /\ Goto(i, "slashEvent")
      /\ txlog' \in {txlog, LogAfter(SlashTransfer(plan[i]), tx[i])}
      /\ UNCHANGED <<bonds, events, worldVars, form, plan, mine, tx>>
  BY DEF SlashLog, SlashLogLost
<1>3. PICK q : q = plan[i]
  OBVIOUS
<1>4. Planned(q) /\ tx[i] \in chain /\ tx[i].key = SlashTransfer(q).key
  BY <1>1, <1>2, <1>3 DEF Slashing, SlashPhases
<1>5. Planned(q)'
  BY <1>2, <1>4 DEF Planned, Reached, SlashesOf, Exists
<1>6. pc'[i] = "slashEvent" /\ \A j \in Invocations \ {i} : Same(j)
  BY <1>1, <1>2 DEF TypeOK, Goto, Same
<1>7. Slashing(i)'
  BY <1>2, <1>3, <1>4, <1>5, <1>6 DEF Slashing
<1>8. Doing(i)'
  BY <1>6, <1>7 DEF Doing, Proving, Staking, StakePhases
<1>9. \A l \in txlog' : l.tx \in chain
  BY <1>1, <1>2, <1>4 DEF TypeOK, LogAfter
<1>10. TypeOK' /\ Grows
  BY <1>1, <1>2, <1>9 DEF TypeOK, Goto, Grows, RunningPhases
<1>. QED
  BY <1>2, <1>6, <1>8, <1>10, QuietInv

-----------------------------------------------------------------------------
(* The insert *)

LEMMA InsertInv ==
  ASSUME IInv, NEW i \in Invocations, NEW b \in BondIds, StakeInsert(i, b)
  PROVE  IInv'
<1>. USE DEF dbVars, worldVars, localVars
<1>1. TypeOK
  BY DEF IInv
<1>2. /\ pc[i] = "insert" /\ ~Exists(b) /\ Goto(i, "stakeEvent")
      /\ mine' = [mine EXCEPT ![i] = b]
      /\ UNCHANGED <<events, txlog, worldVars, form, plan, tx>>
  BY DEF StakeInsert
<1>3. PICK f \in Forms : f = form[i]
  BY <1>2 DEF IInv, Doing, Proving
<1>4. /\ bonds' = [bonds EXCEPT ![b] = Bond(f)] /\ ~Claimed(f.deposit)
      /\ DepositProven(landed, Paid, DepositOf[f.deposit], f.amount + StakeToll(f.amount))
  BY <1>2, <1>3 DEF StakeInsert, IInv, Doing, Proving
<1>5. /\ Bond(f) \in Rows /\ Bond(f) # None
      /\ Bond(f).deposit = f.deposit /\ Bond(f).amount = f.amount
      /\ Bond(f).remaining = f.amount /\ Bond(f).status = "active" /\ Bond(f).slashTx = None
      /\ f.deposit \in Hashes /\ f.amount \in Nat \ {0}
  <2>1. Bond(f) \in Rows
    BY FormFacts DEF Bond, Rows
  <2>. QED
    BY <2>1, FormFacts, NoneIsNoRecord DEF Bond
<1>6. bonds'[b] = Bond(f) /\ \A c \in BondIds \ {b} : bonds'[c] = bonds[c]
  BY <1>1, <1>4 DEF TypeOK
<1>7. pc'[i] = "stakeEvent" /\ mine'[i] = b /\ \A j \in Invocations \ {i} : Same(j)
  BY <1>1, <1>2 DEF TypeOK, Goto, Same
<1>8. TypeOK'
  BY <1>1, <1>2, <1>4, <1>5 DEF TypeOK, Goto, RunningPhases
<1>9. Onward
  <2>1. \A c \in BondIds : Exists(c) => bonds[c].remaining <= bonds[c].remaining
    BY <1>1 DEF TypeOK, Rows, Exists
  <2>. QED
    BY <1>2, <1>6, <2>1 DEF Onward, Exists
<1>10. Doing(i)'
  BY <1>2, <1>3, <1>5, <1>6, <1>7
  DEF Doing, Proving, Staking, Slashing, StakePhases, SlashPhases, Exists
<1>11. \A j \in Invocations : Doing(j)'
  BY <1>1, <1>7, <1>8, <1>9, <1>10, OnwardDoing DEF IInv
<1>12. SlashesOf(b) = {} /\ \A c : SlashesOf(c)' = SlashesOf(c)
  BY <1>2 DEF IInv, ChainInv, SlashIsEvidenced, SlashesOf
<1>13. KeySendsOnce' /\ FeeIsOnePercent'
  <2>1. ASSUME NEW t \in chain, t.purpose = "bond_stake_fee"
        PROVE  /\ bonds'[t.bond] # None
               /\ t.amount = StakeToll(bonds'[t.bond].amount)
    <3>1. Exists(t.bond) /\ t.amount = StakeToll(bonds[t.bond].amount) /\ t.bond \in BondIds
      BY <1>1, <2>1, KeyFacts DEF IInv, ChainInv, FeeIsOnePercent, TypeOK
    <3>. QED
      BY <1>2, <1>6, <3>1 DEF Exists
  <2>. QED
    BY <1>2, <2>1 DEF IInv, ChainInv, KeySendsOnce, FeeIsOnePercent, Exists
<1>14. SlashIsEvidenced'
  BY <1>2, <1>6, <1>12 DEF IInv, ChainInv, SlashIsEvidenced, Exists
<1>15. SlashStarts'
  BY <1>2, <1>6, <1>12 DEF IInv, ChainInv, SlashStarts, Reached
<1>16. HashFundsOne'
  <2>1. \A c \in BondIds : Exists(c) => bonds[c].deposit # f.deposit
    BY <1>4 DEF Claimed
  <2>. QED
    BY <1>2, <1>4, <1>5, <1>6, <2>1 DEF IInv, HashFundsOne, Exists
<1>17. BalanceBacked'
  BY <1>2, <1>5, <1>6, <1>12 DEF IInv, BalanceBacked, Exists
<1>18. ReceiptMeansFee'
  <2>1. \A c \in receipts : c \in BondIds /\ c # b
    BY <1>1, <1>2 DEF TypeOK, IInv, ReceiptMeansFee
  <2>2. UNCHANGED <<receipts, events, chain>> /\ \A c \in receipts : bonds'[c] = bonds[c]
    BY <1>2, <1>6, <2>1 DEF worldVars
  <2>. QED
    BY <2>1, <2>2 DEF IInv, ReceiptMeansFee, Exists
<1>. QED
  BY <1>8, <1>11, <1>13, <1>14, <1>15, <1>16, <1>17, <1>18 DEF IInv, ChainInv

-----------------------------------------------------------------------------
(* The sends *)

\* What is true of a slash of bond b.
Evidenced(b, t) ==
  /\ Exists(b) /\ bonds[b].deposit # None
  /\ bonds[b].remaining <= Before(t) /\ Before(t) <= bonds[b].amount
  /\ \E v \in evidence :
       /\ v.bond = b /\ v.attests \in DOMAIN bonds[b].terms
       /\ t.amount = SlashAmount(Before(t), bonds[b].terms[v.attests])
       /\ v.payTo \in {None, t.to}

\* A transfer the chain may gain.
Due(t) ==
  /\ t \in Transfers
  /\ t.purpose = "bond_stake_fee" =>
       Exists(t.bond) /\ t.amount = StakeToll(bonds[t.bond].amount)
  /\ t.purpose = "bond_slash" => Evidenced(t.bond, t) /\ Reached(t.bond, Before(t))

LEMMA SendInv ==
  ASSUME IInv, NEW t, Due(t), chain' = ChainAfter(chain, t),
         UNCHANGED <<dbVars, landed, evidence, receipts>>
  PROVE  /\ Onward /\ ChainInv' /\ chain' \subseteq Transfers
         /\ HashFundsOne' /\ BalanceBacked' /\ ReceiptMeansFee'
<1>. USE DEF dbVars
<1>1. TypeOK
  BY DEF IInv
<1>2. /\ chain \subseteq chain' /\ chain' \subseteq chain \cup {t}
      /\ chain' = chain \/ \A s \in chain : s.key # t.key
  BY SendFacts
<1>3. chain' \subseteq Transfers
  BY <1>1, <1>2 DEF TypeOK, Due
<1>4. Onward
  <2>1. \A c \in BondIds : Exists(c) => bonds[c].remaining <= bonds[c].remaining
    BY <1>1 DEF TypeOK, Rows, Exists
  <2>. QED
    BY <1>2, <2>1 DEF Onward, Exists
<1>5. KeySendsOnce'
  BY <1>2 DEF IInv, ChainInv, KeySendsOnce
<1>6. FeeIsOnePercent'
  BY <1>2 DEF IInv, ChainInv, FeeIsOnePercent, Due, Exists
<1>7. ASSUME NEW b \in BondIds, NEW s \in chain', s.bond = b, s.purpose = "bond_slash"
      PROVE  Evidenced(b, s) /\ Reached(b, Before(s))
  <2>1. CASE s \in chain
    BY <1>7, <2>1 DEF IInv, ChainInv, SlashIsEvidenced, SlashStarts, SlashesOf, Evidenced
  <2>2. CASE s = t
    BY <1>7, <2>2 DEF Due
  <2>. QED
    BY <1>2, <2>1, <2>2
<1>8. SlashIsEvidenced'
  <2>1. ASSUME NEW b \in BondIds, NEW s \in SlashesOf(b)' PROVE Evidenced(b, s)
    BY <1>7, <2>1 DEF SlashesOf
  <2>. QED
    BY <2>1 DEF SlashIsEvidenced, Evidenced, Exists
<1>9. SlashStarts'
  <2>1. ASSUME NEW b \in BondIds, NEW s \in SlashesOf(b)' PROVE Reached(b, Before(s))'
    <3>1. Exists(b) /\ Reached(b, Before(s))
      BY <1>7, <2>1 DEF SlashesOf, Evidenced
    <3>2. PICK balance : balance = Before(s)
      OBVIOUS
    <3>. QED
      BY <1>4, <3>1, <3>2, OnwardReached
  <2>. QED
    BY <2>1 DEF SlashStarts
<1>10. HashFundsOne'
  BY DEF IInv, HashFundsOne, Exists
<1>11. BalanceBacked'
  BY <1>2 DEF IInv, BalanceBacked, Exists, SlashesOf
<1>12. ReceiptMeansFee'
  BY <1>2 DEF IInv, ReceiptMeansFee, Exists
<1>. QED
  BY <1>3, <1>4, <1>5, <1>6, <1>8, <1>9, <1>10, <1>11, <1>12 DEF ChainInv

LEMMA StakeFeeInv ==
  ASSUME IInv, NEW i \in Invocations, StakeFee(i)
  PROVE  IInv'
<1>. USE DEF dbVars
<1>1. TypeOK /\ Staking(i)
  BY DEF IInv, Doing
<1>2. pc[i] = "fee"
  BY DEF StakeFee
<1>3. PICK b \in BondIds, f \in Forms :
        /\ b = mine[i] /\ f = form[i] /\ Exists(b) /\ StakeToll(f.amount) > 0
        /\ bonds[b].amount = f.amount /\ bonds[b].deposit = f.deposit /\ StakeNoted(b)
  BY <1>1, <1>2 DEF Staking, StakePhases
<1>4. PICK t \in FeeTransfers :
        t = FeeTransfer(b, f) /\ t.key = <<"t6:fee", b>> /\ t.bond = b
        /\ t.amount = StakeToll(f.amount)
  BY <1>3, FeeTransferType
<1>5. Due(t)
  BY <1>3, <1>4 DEF Due, Transfers, FeeTransfers
<1>6. /\ chain' = ChainAfter(chain, t) /\ tx' = [tx EXCEPT ![i] = SendResult(chain, t)]
      /\ Goto(i, "feeEvent")
      /\ UNCHANGED <<dbVars, landed, evidence, receipts, form, plan, mine>>
  BY <1>3, <1>4 DEF StakeFee
<1>7. /\ Onward /\ ChainInv' /\ chain' \subseteq Transfers
      /\ HashFundsOne' /\ BalanceBacked' /\ ReceiptMeansFee'
  BY <1>5, <1>6, SendInv
<1>8. /\ SendResult(chain, t) \in chain' /\ SendResult(chain, t).key = t.key
      /\ chain \subseteq chain'
  BY <1>6, SendFacts
<1>9. TypeOK'
  BY <1>1, <1>6, <1>7, <1>8 DEF TypeOK, Goto, RunningPhases
<1>10. pc'[i] = "feeEvent" /\ tx'[i] = SendResult(chain, t) /\ \A j \in Invocations \ {i} : Same(j)
  BY <1>1, <1>6 DEF TypeOK, Goto, Same
<1>11. FeePaid(mine[i])'
  <2>1. PICK s \in chain' : s = SendResult(chain, t) /\ s.key = <<"t6:fee", b>>
    BY <1>4, <1>8
  <2>2. s.bond = b /\ s.purpose = "bond_stake_fee"
    BY <1>7, <2>1, KeyFacts
  <2>3. s.amount = StakeToll(bonds'[b].amount)
    BY <1>7, <2>2 DEF ChainInv, FeeIsOnePercent
  <2>4. mine'[i] = b
    BY <1>3, <1>6
  <2>. QED
    BY <2>1, <2>3, <2>4 DEF FeePaid
<1>12. StakeNoted(mine[i])'
  BY <1>3, <1>6 DEF StakeNoted
<1>13. Doing(i)'
  BY <1>3, <1>6, <1>8, <1>10, <1>11, <1>12
  DEF Doing, Proving, Staking, Slashing, StakePhases, SlashPhases, Exists
<1>14. \A j \in Invocations : Doing(j)'
  BY <1>1, <1>7, <1>9, <1>10, <1>13, OnwardDoing DEF IInv
<1>. QED
  BY <1>7, <1>9, <1>14 DEF IInv

LEMMA SlashSendInv ==
  ASSUME IInv, NEW i \in Invocations, SlashSend(i)
  PROVE  IInv'
<1>. USE DEF dbVars
<1>1. TypeOK /\ Slashing(i)
  BY DEF IInv, Doing
<1>2. PICK p \in Plans : p = plan[i] /\ Planned(p)
  BY <1>1 DEF SlashSend, Slashing, SlashPhases, Planned
<1>3. PICK t \in SlashTransfers :
        /\ t = SlashTransfer(p) /\ t.key = <<"t6:slash", p.bond, p.before, p.after>>
        /\ t.bond = p.bond /\ t.to = p.to
  BY SlashTransferType
<1>4. /\ t.purpose = "bond_slash" /\ Before(t) = p.before /\ After(t) = p.after
      /\ t.amount = p.before - p.after
  <2>1. t \in Transfers
    BY DEF Transfers
  <2>. QED
    BY <1>3, <2>1, KeyFacts DEF SlashTransfer
<1>5. Due(t)
  BY <1>2, <1>3, <1>4 DEF Due, Transfers, Evidenced, Planned
<1>6. /\ chain' = ChainAfter(chain, t) /\ tx' = [tx EXCEPT ![i] = SendResult(chain, t)]
      /\ Goto(i, "update")
      /\ UNCHANGED <<dbVars, landed, evidence, receipts, form, plan, mine>>
  BY <1>2, <1>3 DEF SlashSend
<1>7. /\ Onward /\ ChainInv' /\ chain' \subseteq Transfers
      /\ HashFundsOne' /\ BalanceBacked' /\ ReceiptMeansFee'
  BY <1>5, <1>6, SendInv
<1>8. /\ SendResult(chain, t) \in chain' /\ SendResult(chain, t).key = t.key
      /\ chain \subseteq chain'
  BY <1>6, SendFacts
<1>9. TypeOK'
  BY <1>1, <1>6, <1>7, <1>8 DEF TypeOK, Goto, RunningPhases
<1>10. pc'[i] = "update" /\ tx'[i] = SendResult(chain, t) /\ \A j \in Invocations \ {i} : Same(j)
  BY <1>1, <1>6 DEF TypeOK, Goto, Same
<1>11. Planned(p)'
  BY <1>1, <1>2, <1>7, <1>9, OnwardPlanned
<1>12. plan'[i] = p /\ tx'[i].key = SlashTransfer(p).key
  BY <1>2, <1>3, <1>6, <1>8, <1>10
<1>13. Slashing(i)'
  BY <1>8, <1>10, <1>11, <1>12 DEF Slashing
<1>14. Doing(i)'
  BY <1>10, <1>13 DEF Doing, Proving, Staking, StakePhases
<1>15. \A j \in Invocations : Doing(j)'
  BY <1>1, <1>7, <1>9, <1>10, <1>14, OnwardDoing DEF IInv
<1>. QED
  BY <1>7, <1>9, <1>15 DEF IInv

-----------------------------------------------------------------------------
(* The conditional update *)

LEMMA SlashUpdateInv ==
  ASSUME IInv, NEW i \in Invocations, SlashUpdate(i)
  PROVE  IInv'
<1>. USE DEF worldVars
<1>1. TypeOK /\ Slashing(i)
  BY DEF IInv, Doing
<1>2. PICK p \in Plans : p = plan[i] /\ Planned(p)
  BY <1>1 DEF SlashUpdate, Slashing, SlashPhases, Planned
<1>3. /\ tx[i] \in chain /\ tx[i].key = <<"t6:slash", p.bond, p.before, p.after>>
      /\ p.bond \in BondIds /\ p.before \in Nat /\ p.after \in Nat /\ p.after < p.before
  BY <1>1, <1>2, SlashTransferType DEF SlashUpdate, Slashing, SlashPhases
<1>. PICK b \in BondIds : b = p.bond
  BY <1>3
<1>4. PICK s \in chain : /\ s = tx[i] /\ s \in Transfers /\ s \in SlashesOf(b)
                         /\ After(s) = p.after
  <2>1. tx[i] \in Transfers
    BY <1>1, <1>3 DEF TypeOK
  <2>. QED
    BY <1>3, <2>1, KeyFacts DEF SlashesOf
<1>. DEFINE row == bonds[b]
            new == SlashedBond(row, p, s)
<1>5. row \in Rows /\ Exists(b) /\ row.remaining \in Nat
  BY <1>1, <1>2 DEF Planned, TypeOK, Exists, Rows
<1>6. /\ new \in Rows /\ new # None
      /\ new.deposit = row.deposit /\ new.amount = row.amount /\ new.terms = row.terms
      /\ new.remaining = p.after /\ new.slashTx = s
      /\ new.status = "exhausted" <=> p.after = 0
  <2>1. new \in Rows
    BY <1>3, <1>4, <1>5 DEF SlashedBond, Rows
  <2>. QED
    BY <2>1, <1>5, NoneIsNoRecord DEF SlashedBond, Rows
<1>. HIDE DEF new
<1>7. /\ Goto(i, "slashLog") /\ UNCHANGED <<events, txlog, worldVars, form, plan, mine, tx>>
      /\ bonds' = IF row.remaining = p.before THEN [bonds EXCEPT ![b] = new] ELSE bonds
  BY <1>2, <1>4 DEF SlashUpdate, new
<1>8. /\ \A c \in BondIds \ {b} : bonds'[c] = bonds[c]
      /\ \/ bonds'[b] = row
         \/ bonds'[b] = new /\ row.remaining = p.before
      /\ bonds' \in [BondIds -> Rows \cup {None}]
  BY <1>1, <1>6, <1>7 DEF TypeOK
<1>. HIDE DEF row
<1>9. /\ bonds'[b] # None /\ bonds'[b].deposit = row.deposit
      /\ bonds'[b].amount = row.amount /\ bonds'[b].terms = row.terms
      /\ bonds'[b].remaining \in Nat /\ bonds'[b].remaining <= row.remaining
  BY <1>3, <1>5, <1>6, <1>8 DEF Exists, row
<1>10. Onward
  <2>1. \A c \in BondIds : Exists(c) => bonds[c].remaining <= bonds[c].remaining
    BY <1>1 DEF TypeOK, Rows, Exists
  <2>. QED
    BY <1>7, <1>8, <1>9, <2>1 DEF Onward, Exists, row
<1>11. TypeOK'
  BY <1>1, <1>7, <1>8 DEF TypeOK, Goto, RunningPhases
<1>12. pc'[i] = "slashLog" /\ \A j \in Invocations \ {i} : Same(j)
  BY <1>1, <1>7 DEF TypeOK, Goto, Same
<1>13. Planned(p)'
  BY <1>1, <1>2, <1>10, <1>11, OnwardPlanned
<1>14. Slashing(i)'
  <2>1. plan'[i] = p /\ tx'[i] \in chain' /\ tx'[i].key = SlashTransfer(p).key
    BY <1>2, <1>3, <1>7 DEF SlashTransfer
  <2>. QED
    BY <1>12, <1>13, <2>1 DEF Slashing
<1>15. Doing(i)'
  BY <1>12, <1>14 DEF Doing, Proving, Staking, StakePhases
<1>16. \A j \in Invocations : Doing(j)'
  BY <1>1, <1>10, <1>11, <1>12, <1>15, OnwardDoing DEF IInv
<1>17. /\ \A c : Exists(c)' /\ c \in BondIds => Exists(c)
       /\ \A c : SlashesOf(c)' = SlashesOf(c)
  BY <1>5, <1>7, <1>8 DEF Exists, SlashesOf
<1>18. \A c \in BondIds : Exists(c) =>
         /\ Exists(c)' /\ bonds'[c].deposit = bonds[c].deposit
         /\ bonds'[c].amount = bonds[c].amount /\ bonds'[c].terms = bonds[c].terms
         /\ bonds'[c].remaining <= bonds[c].remaining
         /\ bonds'[c].remaining \in Nat /\ bonds[c].remaining \in Nat
  BY <1>1, <1>10, <1>11 DEF Onward, Exists, TypeOK, Rows
<1>19. KeySendsOnce' /\ FeeIsOnePercent'
  <2>1. \A t \in chain : t.bond \in BondIds
    BY <1>1, KeyFacts DEF TypeOK
  <2>. QED
    BY <1>7, <1>18, <2>1 DEF IInv, ChainInv, KeySendsOnce, FeeIsOnePercent
<1>20. SlashIsEvidenced'
  <2>1. ASSUME NEW c \in BondIds, NEW t \in SlashesOf(c)
        PROVE  /\ Exists(c)' /\ bonds'[c].deposit # None
               /\ bonds'[c].remaining <= Before(t) /\ Before(t) <= bonds'[c].amount
               /\ \E v \in evidence :
                    /\ v.bond = c /\ v.attests \in DOMAIN bonds'[c].terms
                    /\ t.amount = SlashAmount(Before(t), bonds'[c].terms[v.attests])
                    /\ v.payTo \in {None, t.to}
    <3>1. Evidenced(c, t)
      BY <2>1 DEF IInv, ChainInv, SlashIsEvidenced, Evidenced
    <3>2. Before(t) \in Nat
      BY <1>1, <2>1, KeyFacts DEF SlashesOf, TypeOK
    <3>. QED
      BY <1>18, <3>1, <3>2 DEF Evidenced
  <2>. QED
    BY <1>7, <1>17, <2>1 DEF SlashIsEvidenced
<1>21. SlashStarts'
  <2>1. ASSUME NEW c \in BondIds, NEW t \in SlashesOf(c) PROVE Reached(c, Before(t))'
    <3>1. Exists(c) /\ Reached(c, Before(t))
      BY <2>1 DEF IInv, ChainInv, SlashStarts, SlashIsEvidenced
    <3>. QED
      BY <1>17, <1>18, <3>1 DEF Reached
  <2>. QED
    BY <1>17, <2>1 DEF SlashStarts
<1>22. HashFundsOne'
  BY <1>7, <1>17, <1>18 DEF IInv, HashFundsOne
<1>23. BalanceBacked'
  <2>1. ASSUME NEW c \in BondIds, Exists(c)
        PROVE  /\ bonds'[c].status = "exhausted" <=> bonds'[c].remaining = 0
               /\ \/ bonds'[c].remaining = bonds'[c].amount /\ bonds'[c].slashTx = None
                  \/ /\ bonds'[c].slashTx \in SlashesOf(c)
                     /\ After(bonds'[c].slashTx) = bonds'[c].remaining
    <3>1. CASE bonds'[c] = bonds[c]
      BY <2>1, <3>1 DEF IInv, BalanceBacked
    <3>2. CASE c = b /\ bonds'[b] = new
      BY <1>4, <1>6, <3>2
    <3>. QED
      BY <1>8, <3>1, <3>2 DEF row
  <2>. QED
    BY <1>17, <2>1 DEF BalanceBacked
<1>24. ReceiptMeansFee'
  <2>1. receipts \subseteq BondIds
    BY <1>1 DEF TypeOK
  <2>. QED
    BY <1>7, <1>18, <2>1 DEF IInv, ReceiptMeansFee
<1>. QED
  BY <1>11, <1>16, <1>19, <1>20, <1>21, <1>22, <1>23, <1>24 DEF IInv, ChainInv

-----------------------------------------------------------------------------
(* Every step *)

LEMMA InitInv == Init => IInv
<1>. SUFFICES ASSUME Init PROVE IInv
  OBVIOUS
<1>1. ASSUME NEW b \in BondIds, Exists(b)
      PROVE  /\ bonds[b] \in Rows /\ bonds[b].deposit = None
             /\ bonds[b].remaining = bonds[b].amount /\ bonds[b].amount > 0
             /\ bonds[b].status = "active" /\ bonds[b].slashTx = None
  <2>1. PICK o \in OldOffers : bonds[b] = LegacyBond(o.amount, o.terms)
    BY <1>1 DEF Init, Exists
  <2>2. o.amount \in Nat \ {0} /\ o.terms \in {x.terms : x \in Offers}
    BY BondAssumption
  <2>. QED
    BY <2>1, <2>2 DEF LegacyBond, Rows
<1>2. bonds \in [BondIds -> Rows \cup {None}]
  <2>1. /\ DOMAIN bonds = BondIds
        /\ bonds = [b \in BondIds |-> bonds[b]]
    BY DEF Init
  <2>. QED
    BY <1>1, <2>1 DEF Exists
<1>3. TypeOK
  BY <1>2 DEF Init, TypeOK
<1>4. ChainInv
  BY DEF Init, ChainInv, KeySendsOnce, FeeIsOnePercent, SlashIsEvidenced, SlashStarts, SlashesOf
<1>5. \A i \in Invocations : Doing(i)
  BY DEF Init, Doing, Proving, Staking, Slashing, StakePhases, SlashPhases
<1>6. HashFundsOne /\ BalanceBacked /\ ReceiptMeansFee
  BY <1>1 DEF Init, HashFundsOne, BalanceBacked, ReceiptMeansFee
<1>. QED
  BY <1>3, <1>4, <1>5, <1>6 DEF IInv

LEMMA StepInv == IInv /\ [Next]_vars => IInv'
<1>. SUFFICES ASSUME IInv, [Next]_vars PROVE IInv'
  OBVIOUS
<1>1. ASSUME NEW i \in Invocations, NEW b \in BondIds, NEW on \in Triggers,
             NEW v \in evidence, NEW w \in Wallets, SlashRead(i, b, on, v, w)
      PROVE  IInv'
  BY <1>1, SlashReadInv
<1>2. ASSUME NEW i \in Invocations, NEW b \in BondIds, StakeInsert(i, b) PROVE IInv'
  BY <1>2, InsertInv
<1>3. ASSUME NEW i \in Invocations, SlashLog(i) \/ SlashLogLost(i) PROVE IInv'
  BY <1>3, SlashLogInv
<1>4. ASSUME NEW i \in Invocations, StakeFee(i) \/ SlashSend(i) \/ SlashUpdate(i) PROVE IInv'
  BY <1>4, StakeFeeInv, SlashSendInv, SlashUpdateInv
<1>5. ASSUME NEW i \in Invocations,
             \/ \E f \in Forms : StakeVerify(i, f)
             \/ StakeEvent(i) \/ StakeFeeEvent(i) \/ StakeFeeLog(i) \/ StakeLogLost(i)
      PROVE  IInv'
  BY <1>5, StakeInv
<1>6. ASSUME NEW i \in Invocations, StakeConflict(i) \/ Fails(i) \/ StakeAnswer(i) \/ SlashEvent(i)
      PROVE  IInv'
  BY <1>6, EndInv
<1>. QED
  BY <1>1, <1>2, <1>3, <1>4, <1>5, <1>6, EndInv DEF Next

\* A condition's share is a function of the balance, so a bond with one
\* condition has one slash for each balance.
LEMMA PathIsOne == IInv => OnePath
<1>. SUFFICES ASSUME IInv, NEW b \in BondIds, Exists(b),
                     Cardinality(DOMAIN bonds[b].terms) = 1
              PROVE  /\ \A s, t \in SlashesOf(b) : Before(s) = Before(t) => s = t
                     /\ \A t \in SlashesOf(b) :
                          \/ Before(t) = bonds[b].amount
                          \/ \E s \in SlashesOf(b) : After(s) = Before(t)
  BY DEF OnePath
<1>1. bonds[b].terms \in {o.terms : o \in Offers}
  BY DEF IInv, TypeOK, Rows, Exists
<1>2. PICK on : DOMAIN bonds[b].terms = {on}
  BY <1>1, TermsFacts, FS_Singleton
<1>3. ASSUME NEW t \in SlashesOf(b)
      PROVE  /\ t \in chain /\ t.key = <<"t6:slash", b, Before(t), After(t)>>
             /\ Before(t) \in Nat /\ After(t) \in Nat /\ t.amount = Before(t) - After(t)
             /\ t.amount = SlashAmount(Before(t), bonds[b].terms[on])
  <2>1. t \in chain /\ t \in Transfers /\ t.bond = b /\ t.purpose = "bond_slash"
    BY DEF SlashesOf, IInv, TypeOK
  <2>2. t.amount = SlashAmount(Before(t), bonds[b].terms[on])
    BY <1>2 DEF IInv, ChainInv, SlashIsEvidenced
  <2>. QED
    BY <2>1, <2>2, KeyFacts
<1>4. ASSUME NEW s \in SlashesOf(b), NEW t \in SlashesOf(b), Before(s) = Before(t)
      PROVE  s = t
  <2>1. s.amount = t.amount
    BY <1>3, <1>4
  <2>2. After(s) = After(t)
    BY <1>3, <1>4, <2>1
  <2>3. s.key = t.key /\ s \in chain /\ t \in chain
    BY <1>3, <1>4, <2>2
  <2>. QED
    BY <2>3 DEF IInv, ChainInv, KeySendsOnce
<1>5. \A t \in SlashesOf(b) : Reached(b, Before(t))
  BY DEF IInv, ChainInv, SlashStarts
<1>. QED
  BY <1>4, <1>5 DEF Reached

-----------------------------------------------------------------------------
(* Theorems *)

LEMMA SpecInv == Spec => []IInv
BY InitInv, StepInv, PTL DEF Spec

\* Every bond, transfer and plan of the stake and slash handlers is well typed:
\* in particular no slash leaves a balance below zero.
THEOREM BondTypes == Spec => []TypeOK
<1>1. IInv => TypeOK
  BY DEF IInv
<1>. QED
  BY SpecInv, <1>1, PTL

\* However many stakes replay or race for a deposit hash, as it is spelled it funds
\* one bond, and the deposit it names covers the amount and the fee.
THEOREM HashFundsOneBond == Spec => []HashFundsOne
<1>1. IInv => HashFundsOne
  BY DEF IInv
<1>. QED
  BY SpecInv, <1>1, PTL

\* The slash handler's row never runs ahead of the chain: it names the transfer
\* that left the balance it holds.
THEOREM BalancesAreBacked == Spec => []BalanceBacked
<1>1. IInv => BalanceBacked
  BY DEF IInv
<1>. QED
  BY SpecInv, <1>1, PTL

\* Whatever races, fails and is retried, no money leaves the bond wallet as a
\* slash but on sealed evidence, for the condition's share of the balance.
THEOREM SlashesAreEvidenced == Spec => []SlashIsEvidenced
<1>1. IInv => SlashIsEvidenced
  BY DEF IInv, ChainInv
<1>. QED
  BY SpecInv, <1>1, PTL

\* The idempotency key of the slash handler makes the slashes of a bond with
\* one condition a path, whatever the number of invocations and retries.
THEOREM SlashesAreOnePath == Spec => []OnePath
BY SpecInv, PathIsOne, PTL

\* A stake answered with a receipt has its row, its event and its fee.
THEOREM ReceiptsMeanFees == Spec => []ReceiptMeansFee
<1>1. IInv => ReceiptMeansFee
  BY DEF IInv
<1>. QED
  BY SpecInv, <1>1, PTL
=============================================================================
