-------------------------- MODULE TollEscrowProofs --------------------------
(***************************************************************************)
(* Proofs about TollEscrow for every number of invocations, escrows,       *)
(* deposits and amounts.  Argument: while an invocation is past the row    *)
(* read, the escrow it targets is real and a sealed delivery backs it      *)
(* (Located, Justified); a transfer under an escrow's key is always the    *)
(* one its row determines (PaidAgainstDelivery), so a key that sends once  *)
(* pays once.                                                              *)
(***************************************************************************)
EXTENDS TollEscrow, TLAPS

ReleasePhases == {"flip"} \cup PayPhases

\* The locals an invocation needs are set while it runs.
Located ==
  \A i \in Invocations :
    /\ pc[i] = "insert" => form[i] \in Forms
    /\ pc[i] \in ReleasePhases => /\ target[i] \in EscrowIds
                                  /\ feeTo[i] \in Wallets
                                  /\ escrows[target[i]] \in Rows
    /\ pc[i] \in {"fee", "log", "settle", "sign"} => txs[i].release \in Transfers
    /\ pc[i] \in {"log", "settle", "sign"} => txs[i].fee \in Transfers

TypeInv == TypeOK /\ Located

-----------------------------------------------------------------------------
(* Facts about the operators *)

\* The fee of an amount is between nothing and all of it.
LEMMA FeeBounds ==
  ASSUME NEW a \in Amounts
  PROVE  EscrowFee(a) \in Nat /\ EscrowFee(a) <= a /\ a \in Nat
BY EscrowAssumption DEF EscrowFee

\* A row determines transfers of the right type.
LEMMA TransferType ==
  ASSUME NEW e \in EscrowIds, NEW row \in Rows, NEW w \in Wallets
  PROVE  ReleaseTransfer(e, row) \in Transfers /\ FeeTransfer(e, row, w) \in Transfers
<1>1. row.amount \in Amounts /\ row.fee = EscrowFee(row.amount) /\ row.payout \in Wallets
  BY DEF Rows
<1>2. row.fee \in Shares /\ row.amount - row.fee \in Shares
  BY <1>1 DEF Shares
<1>. QED
  BY <1>1, <1>2 DEF Transfers, ReleaseTransfer, FeeTransfer, ReleaseKey, FeeKey

\* Changing the status and the tx columns leaves a row a row with its terms.
LEMMA RowUpdate ==
  ASSUME NEW row \in Rows, NEW s \in Statuses
  PROVE  /\ [row EXCEPT !.status = s] \in Rows
         /\ \A p \in TxPairs : [row EXCEPT !.status = s, !.txs = p] \in Rows
BY DEF Rows

\* AwLPay adds at most the transfer it is asked for, and answers with one that
\* is on the chain under the requested key.
LEMMA SendFacts ==
  ASSUME NEW ch, NEW t
  PROVE  /\ ch \subseteq ChainAfter(ch, t)
         /\ ChainAfter(ch, t) \subseteq ch \cup {t}
         /\ SendResult(ch, t) \in ChainAfter(ch, t)
         /\ SendResult(ch, t).key = t.key
         /\ t \in ChainAfter(ch, t) => t \in ch \/ SentUnder(ch, t.key) = {}
         /\ SendResult(ch, t) = t \/ SendResult(ch, t) \in ch
<1>1. CASE SentUnder(ch, t.key) = {}
  BY <1>1 DEF ChainAfter, SendResult
<1>2. CASE SentUnder(ch, t.key) # {}
  <2>1. \E s \in ch : s.key = t.key
    BY <1>2 DEF SentUnder
  <2>2. /\ (CHOOSE s \in ch : s.key = t.key) \in ch
        /\ (CHOOSE s \in ch : s.key = t.key).key = t.key
    BY <2>1
  <2>. QED
    BY <1>2, <2>2 DEF ChainAfter, SendResult
<1>. QED
  BY <1>1, <1>2

-----------------------------------------------------------------------------
(* Types *)

LEMMA InitTypeInv == Init => TypeInv
<1> SUFFICES ASSUME Init PROVE TypeInv
  OBVIOUS
<1> USE DEF Init, TypeInv
<1>1. escrows \in [EscrowIds -> Rows \cup {None}]
  <2>1. CASE escrows = [e \in EscrowIds |-> None]
    BY <2>1
  <2>2. ASSUME NEW old \in EscrowIds, NEW j \in Jobs, NEW a \in Agents,
               NEW m \in Amounts, NEW w \in Wallets,
               escrows = [e \in EscrowIds |->
                            IF e = old THEN LegacyRow(j, a, m, w) ELSE None]
        PROVE  escrows \in [EscrowIds -> Rows \cup {None}]
    <3>1. LegacyRow(j, a, m, w) \in Rows
      BY FeeBounds DEF LegacyRow, Rows, Statuses, TxPairs, NoTxs
    <3>. QED
      BY <2>2, <3>1
  <2>. QED
    BY <2>1, <2>2
<1>2. TypeOK
  BY <1>1 DEF TypeOK, NoTxs, TxPairs
<1>3. Located
  BY DEF Located, ReleasePhases, PayPhases
<1>. QED
  BY <1>2, <1>3

\* An invocation that forgets its locals is idle.
LEMMA ForgetTypes ==
  ASSUME TypeOK, NEW i \in Invocations, Forget(i)
  PROVE  /\ pc' \in [Invocations -> {"idle", "insert", "flip"} \cup PayPhases]
         /\ form' \in [Invocations -> Forms \cup {None}]
         /\ target' \in [Invocations -> EscrowIds \cup {None}]
         /\ feeTo' \in [Invocations -> Wallets \cup {None}]
         /\ txs' \in [Invocations -> TxPairs]
         /\ pc'[i] = "idle"
         /\ \A k \in Invocations \ {i} :
              /\ pc'[k] = pc[k] /\ form'[k] = form[k] /\ target'[k] = target[k]
              /\ feeTo'[k] = feeTo[k] /\ txs'[k] = txs[k]
BY DEF Forget, TypeOK, NoTxs, TxPairs

LEMMA StepTypeInv == TypeInv /\ [Next]_vars => TypeInv'
<1> SUFFICES ASSUME TypeInv, [Next]_vars PROVE TypeInv'
  OBVIOUS
<1> USE DEF TypeInv, dbVars, worldVars, localVars
<1>1. ASSUME NEW d \in Deposits, DepositLands(d) PROVE TypeInv'
  BY <1>1 DEF DepositLands, TypeOK, Located, Exists
<1>2. ASSUME NEW c \in Sealable, SealReceipt(c) PROVE TypeInv'
  BY <1>2 DEF SealReceipt, TypeOK, Located, Exists
<1>3. ASSUME NEW i \in Invocations, NEW f \in Forms, LockVerify(i, f) PROVE TypeInv'
  BY <1>3 DEF LockVerify, TypeOK, Located, ReleasePhases, PayPhases
<1>4. ASSUME NEW i \in Invocations, NEW e \in EscrowIds, LockInsert(i, e) PROVE TypeInv'
  <2>1. LockedRow(form[i]) \in Rows
    BY <1>4, FeeBounds DEF LockInsert, LockedRow, Located, Rows, Forms, Statuses, TxPairs, NoTxs
  <2>2. Forget(i) /\ pc[i] = "insert"
    BY <1>4 DEF LockInsert
  <2>3. TypeOK'
    BY <1>4, <2>1, <2>2, ForgetTypes DEF LockInsert, TypeOK
  <2>4. Located'
    BY <1>4, <2>1, <2>2, ForgetTypes DEF LockInsert, TypeOK, Located, ReleasePhases, PayPhases
  <2>. QED
    BY <2>3, <2>4
<1>5. ASSUME NEW i \in Invocations, Forget(i), UNCHANGED <<dbVars, worldVars>> PROVE TypeInv'
  <2>1. TypeOK'
    BY <1>5, ForgetTypes DEF TypeOK
  <2>. QED
    BY <1>5, <2>1, ForgetTypes DEF Located, ReleasePhases, PayPhases
<1>6. ASSUME NEW i \in Invocations, NEW e \in EscrowIds, NEW c \in receipts,
             NEW w \in Wallets, ReleaseRead(i, e, c, w)
      PROVE  TypeInv'
  <2>1. escrows[e] \in Rows
    BY <1>6 DEF ReleaseRead, Exists, TypeOK
  <2>2. TypeOK'
    BY <1>6, <2>1 DEF ReleaseRead, TypeOK, Rows, PayPhases
  <2>. QED
    BY <1>6, <2>1, <2>2 DEF ReleaseRead, TypeOK, Located, ReleasePhases, PayPhases
<1>7. ASSUME NEW i \in Invocations, ReleaseFlip(i) PROVE TypeInv'
  <2> DEFINE e == target[i]
  <2>1. e \in EscrowIds /\ escrows[e] \in Rows
    BY <1>7 DEF ReleaseFlip, Located, ReleasePhases
  <2>2. [escrows[e] EXCEPT !.status = "releasing"] \in Rows
    BY <2>1, RowUpdate DEF Statuses
  <2>3. escrows' \in [EscrowIds -> Rows \cup {None}]
    BY <1>7, <2>1, <2>2 DEF ReleaseFlip, TypeOK
  <2>4. \A k \in EscrowIds : escrows[k] \in Rows => escrows'[k] \in Rows
    BY <1>7, <2>1, <2>2 DEF ReleaseFlip, TypeOK
  <2>5. TypeOK'
    BY <1>7, <2>3 DEF ReleaseFlip, TypeOK, PayPhases
  <2>. QED
    BY <1>7, <2>4, <2>5 DEF ReleaseFlip, TypeOK, Located, ReleasePhases, PayPhases
<1>8. ASSUME NEW i \in Invocations, ReleasePay(i) PROVE TypeInv'
  <2> DEFINE t == ReleaseTransfer(target[i], escrows[target[i]])
  <2>1. t \in Transfers
    BY <1>8, TransferType DEF ReleasePay, Located, ReleasePhases, PayPhases
  <2>2. ChainAfter(chain, t) \subseteq Transfers /\ SendResult(chain, t) \in Transfers
    BY <2>1, SendFacts DEF TypeOK
  <2>3. TypeOK'
    BY <1>8, <2>2 DEF ReleasePay, TypeOK, PayPhases, TxPairs
  <2>4. /\ \A k \in Invocations \ {i} : pc'[k] = pc[k] /\ txs'[k] = txs[k]
        /\ pc'[i] = "fee" /\ txs'[i].release \in Transfers /\ txs'[i].release \in Transfers
    BY <1>8, <2>2 DEF ReleasePay, TypeOK, TxPairs, Located
  <2>. QED
    BY <1>8, <2>3, <2>4 DEF ReleasePay, Located, ReleasePhases, PayPhases
<1>9. ASSUME NEW i \in Invocations, ReleaseFee(i) PROVE TypeInv'
  <2> DEFINE t == FeeTransfer(target[i], escrows[target[i]], feeTo[i])
  <2>1. t \in Transfers
    BY <1>9, TransferType DEF ReleaseFee, Located, ReleasePhases, PayPhases
  <2>2. ChainAfter(chain, t) \subseteq Transfers /\ SendResult(chain, t) \in Transfers
    BY <2>1, SendFacts DEF TypeOK
  <2>3. TypeOK'
    BY <1>9, <2>2 DEF ReleaseFee, TypeOK, PayPhases, TxPairs
  <2>4. /\ \A k \in Invocations \ {i} : pc'[k] = pc[k] /\ txs'[k] = txs[k]
        /\ pc'[i] = "log" /\ txs'[i].fee \in Transfers /\ txs'[i].release \in Transfers
    BY <1>9, <2>2 DEF ReleaseFee, TypeOK, TxPairs, Located
  <2>. QED
    BY <1>9, <2>3, <2>4 DEF ReleaseFee, Located, ReleasePhases, PayPhases
<1>10. ASSUME NEW i \in Invocations, ReleaseLog(i) \/ ReleaseLogLost(i) PROVE TypeInv'
  <2>1. LogEntries(i) \subseteq LogRows
    BY <1>10, TransferType
    DEF ReleaseLog, ReleaseLogLost, LogEntries, LogRows, Located, ReleasePhases, PayPhases
  <2>2. txlog' \subseteq LogRows
    BY <1>10, <2>1 DEF ReleaseLog, ReleaseLogLost, TypeOK
  <2>3. TypeOK'
    BY <1>10, <2>2 DEF ReleaseLog, ReleaseLogLost, TypeOK, PayPhases
  <2>. QED
    BY <1>10, <2>3 DEF ReleaseLog, ReleaseLogLost, TypeOK, Located, ReleasePhases, PayPhases
<1>11. ASSUME NEW i \in Invocations, ReleaseSettle(i) PROVE TypeInv'
  <2> DEFINE e == target[i]
             row == [escrows[e] EXCEPT !.status = "released", !.txs = txs[i]]
  <2>1. e \in EscrowIds /\ escrows[e] \in Rows /\ txs[i] \in TxPairs
    BY <1>11 DEF ReleaseSettle, Located, ReleasePhases, PayPhases, TypeOK
  <2>2. row \in Rows
    BY <2>1, RowUpdate DEF Statuses
  <2>3. escrows' = escrows \/ escrows' = [escrows EXCEPT ![e] = row]
    BY <1>11, <2>1 DEF ReleaseSettle, TypeOK
  <2> HIDE DEF row
  <2>4. /\ escrows' \in [EscrowIds -> Rows \cup {None}]
        /\ \A k \in EscrowIds : escrows[k] \in Rows => escrows'[k] \in Rows
    BY <2>1, <2>2, <2>3 DEF TypeOK
  <2>5. TypeOK'
    BY <1>11, <2>4 DEF ReleaseSettle, TypeOK, PayPhases
  <2>. QED
    BY <1>11, <2>4, <2>5 DEF ReleaseSettle, TypeOK, Located, ReleasePhases, PayPhases
<1>12. ASSUME NEW i \in Invocations, ReleaseSign(i) PROVE TypeInv'
  <2> DEFINE e == target[i]
  <2>1. e \in EscrowIds /\ escrows[e] \in Rows
    BY <1>12 DEF ReleaseSign, Located, ReleasePhases, PayPhases
  <2>2. escrows[e].amount - escrows[e].fee \in Int
    BY <2>1, FeeBounds DEF Rows
  <2>3. TypeOK'
    BY <1>12, <2>1, <2>2, ForgetTypes DEF ReleaseSign, TypeOK
  <2>. QED
    BY <1>12, <2>3, ForgetTypes DEF ReleaseSign, Located, ReleasePhases, PayPhases
<1>13. CASE UNCHANGED vars
  BY <1>13 DEF vars, TypeOK, Located, Exists
<1>14. ASSUME NEW i \in Invocations, LockConflict(i) \/ Fails(i)
       PROVE  TypeInv'
  BY <1>14, <1>5 DEF LockConflict, Fails
<1>. QED
  BY <1>1, <1>2, <1>3, <1>4, <1>6, <1>7, <1>8, <1>9, <1>10, <1>11, <1>12, <1>13, <1>14
  DEF Next, ReleaseStep

\* Every reachable state is well typed, however many invocations run.
THEOREM TypeCorrect == Spec => []TypeOK
<1>1. Init => TypeInv
  BY InitTypeInv
<1>2. TypeInv /\ [Next]_vars => TypeInv'
  BY StepTypeInv
<1>3. TypeInv => TypeOK
  BY DEF TypeInv
<1>. QED
  BY <1>1, <1>2, <1>3, PTL DEF Spec
-----------------------------------------------------------------------------
(* How one step changes the rows and the chain *)

\* What the handlers never change of a row.
SameTerms(row, new) ==
  /\ new.deposit = row.deposit /\ new.job = row.job /\ new.agent = row.agent
  /\ new.amount = row.amount /\ new.fee = row.fee /\ new.payout = row.payout

RowMoves(row, new) ==
  \/ new = row
  \/ row.status = "locked" /\ new = [row EXCEPT !.status = "releasing"]
  \/ /\ row.status = "releasing"
     /\ new.status = "released"
     /\ new = [row EXCEPT !.status = "released", !.txs = new.txs]

LEMMA RowMovesKeepTerms ==
  ASSUME NEW row \in Rows, NEW new, RowMoves(row, new)
  PROVE  /\ SameTerms(row, new)
         /\ row.status \in {"releasing", "released"} => new.status \in {"releasing", "released"}
         /\ row.status = "released" => new = row
BY DEF RowMoves, SameTerms, Rows

\* Existing rows move forward or stay; a new row is the work of LockInsert.
Forward ==
  /\ landed \subseteq landed' /\ receipts \subseteq receipts' /\ chain \subseteq chain'
  /\ \A e \in EscrowIds : Exists(e) => RowMoves(escrows[e], escrows'[e]) /\ escrows'[e] \in Rows
  /\ \A e \in EscrowIds : ~Exists(e) =>
       \/ escrows'[e] = escrows[e]
       \/ \E i \in Invocations : LockInsert(i, e)

LEMMA StepMovesForward == TypeInv /\ [Next]_vars => Forward
<1> SUFFICES ASSUME TypeInv, [Next]_vars PROVE Forward
  OBVIOUS
<1> USE DEF TypeInv, dbVars, worldVars, localVars
<1>1. ASSUME UNCHANGED escrows, landed \subseteq landed', receipts \subseteq receipts',
             chain \subseteq chain'
      PROVE  Forward
  BY <1>1 DEF Forward, RowMoves, Exists, TypeOK
<1>2. ASSUME NEW i \in Invocations, NEW k \in EscrowIds, LockInsert(i, k) PROVE Forward
  <2>1. /\ ~Exists(k)
        /\ \A e \in EscrowIds \ {k} : escrows'[e] = escrows[e]
        /\ UNCHANGED worldVars
    BY <1>2 DEF LockInsert, TypeOK
  <2>. QED
    BY <1>2, <2>1 DEF Forward, RowMoves, Exists, TypeOK
<1>3. ASSUME NEW i \in Invocations, ReleaseFlip(i) PROVE Forward
  <2>1. target[i] \in EscrowIds /\ escrows[target[i]] \in Rows
    BY <1>3 DEF ReleaseFlip, Located, ReleasePhases
  <2>2. \A e \in EscrowIds :
          \/ escrows'[e] = escrows[e]
          \/ /\ e = target[i]
             /\ escrows[e].status = "locked"
             /\ escrows'[e] = [escrows[e] EXCEPT !.status = "releasing"]
    BY <1>3, <2>1 DEF ReleaseFlip, TypeOK
  <2>3. Exists(target[i])
    BY <2>1, NoneIsNoRow DEF Exists
  <2>4. \A e \in EscrowIds : Exists(e) => escrows'[e] \in Rows
    <3>1. [escrows[target[i]] EXCEPT !.status = "releasing"] \in Rows
      BY <2>1, RowUpdate DEF Statuses
    <3>. QED
      BY <2>2, <3>1 DEF Exists, TypeOK
  <2>. QED
    BY <1>3, <2>2, <2>3, <2>4 DEF Forward, ReleaseFlip, RowMoves
<1>4. ASSUME NEW i \in Invocations, ReleaseSettle(i) PROVE Forward
  <2>1. target[i] \in EscrowIds /\ escrows[target[i]] \in Rows
    BY <1>4 DEF ReleaseSettle, Located, ReleasePhases, PayPhases
  <2>2. Exists(target[i])
    BY <2>1, NoneIsNoRow DEF Exists
  <2>3. \A e \in EscrowIds :
          \/ escrows'[e] = escrows[e]
          \/ /\ e = target[i]
             /\ escrows[e].status = "releasing"
             /\ escrows'[e] = [escrows[e] EXCEPT !.status = "released", !.txs = txs[i]]
    BY <1>4, <2>1 DEF ReleaseSettle, TypeOK
  <2>4. \A e \in EscrowIds : RowMoves(escrows[e], escrows'[e])
    BY <2>1, <2>3, ZenonT(40) DEF RowMoves, Rows
  <2>5. txs[i] \in TxPairs
    BY DEF TypeOK
  <2>6. \A e \in EscrowIds : Exists(e) => escrows'[e] \in Rows
    <3>1. [escrows[target[i]] EXCEPT !.status = "released", !.txs = txs[i]] \in Rows
      BY <2>1, <2>5, RowUpdate DEF Statuses
    <3>. QED
      BY <2>3, <3>1 DEF Exists, TypeOK
  <2>. QED
    BY <1>4, <2>2, <2>3, <2>4, <2>6 DEF Forward, ReleaseSettle
<1>5. ASSUME NEW i \in Invocations, ReleasePay(i) \/ ReleaseFee(i) PROVE Forward
  <2>1. UNCHANGED escrows /\ landed \subseteq landed' /\ receipts \subseteq receipts'
    BY <1>5 DEF ReleasePay, ReleaseFee
  <2>2. chain \subseteq chain'
    BY <1>5, SendFacts DEF ReleasePay, ReleaseFee
  <2>. QED
    BY <1>1, <2>1, <2>2
<1>6. ASSUME UNCHANGED <<escrows, landed, receipts, chain>> PROVE Forward
  BY <1>1, <1>6
<1>7. ASSUME NEW i \in Invocations, NEW f \in Forms, LockVerify(i, f) PROVE Forward
  BY <1>6, <1>7 DEF LockVerify
<1>8. ASSUME NEW i \in Invocations, NEW e \in EscrowIds, NEW c \in receipts,
             NEW w \in Wallets, ReleaseRead(i, e, c, w)
      PROVE  Forward
  BY <1>6, <1>8 DEF ReleaseRead
<1>9. ASSUME NEW i \in Invocations,
             \/ LockConflict(i) \/ Fails(i)
             \/ ReleaseLog(i) \/ ReleaseLogLost(i) \/ ReleaseSign(i)
      PROVE  Forward
  BY <1>6, <1>9
  DEF LockConflict, Fails, ReleaseLog, ReleaseLogLost, ReleaseSign
<1>10. ASSUME NEW d \in Deposits, DepositLands(d) PROVE Forward
  BY <1>1, <1>10 DEF DepositLands
<1>11. ASSUME NEW c \in Sealable, SealReceipt(c) PROVE Forward
  BY <1>1, <1>11 DEF SealReceipt
<1>12. CASE UNCHANGED vars
  BY <1>6, <1>12 DEF vars
<1>. QED
  BY <1>2, <1>3, <1>4, <1>5, <1>7, <1>8, <1>9, <1>10, <1>11, <1>12 DEF Next, ReleaseStep

\* A row only moves locked -> releasing -> released on unchanging terms, and no
\* transfer is taken back, for any number of racing and failing invocations.
THEOREM ForwardOnly == Spec => MovesForward
<1>1. TypeInv /\ [Next]_vars =>
        [/\ chain \subseteq chain'
         /\ \A e \in EscrowIds : Exists(e) =>
              \/ escrows'[e] = escrows[e]
              \/ /\ escrows[e].status = "locked"
                 /\ escrows'[e] = [escrows[e] EXCEPT !.status = "releasing"]
              \/ /\ escrows[e].status = "releasing"
                 /\ escrows'[e].status = "released"
                 /\ escrows'[e] = [escrows[e] EXCEPT !.status = "released",
                                                     !.txs = escrows'[e].txs]]_vars
  BY StepMovesForward DEF Forward, RowMoves
<1>2. Spec => []TypeInv
  BY InitTypeInv, StepTypeInv, PTL DEF Spec
<1>. QED
  BY <1>1, <1>2, PTL DEF Spec, MovesForward

-----------------------------------------------------------------------------
(* How one step changes the locals of an invocation *)

Untouched(k) ==
  /\ pc'[k] = pc[k] /\ form'[k] = form[k] /\ target'[k] = target[k]
  /\ feeTo'[k] = feeTo[k] /\ txs'[k] = txs[k]

LocalStep(k) ==
  \/ Untouched(k)
  \/ pc'[k] = "idle"
  \/ \E f \in Forms : LockVerify(k, f)
  \/ \E e \in EscrowIds, c \in receipts, w \in Wallets : ReleaseRead(k, e, c, w)
  \/ ReleaseFlip(k) \/ ReleasePay(k) \/ ReleaseFee(k)
  \/ ReleaseLog(k) \/ ReleaseLogLost(k) \/ ReleaseSettle(k)

\* Another invocation's step leaves these locals alone.
LEMMA StepLocals ==
  TypeInv /\ [Next]_vars => \A k \in Invocations : LocalStep(k)
<1> SUFFICES ASSUME TypeInv, [Next]_vars, NEW k \in Invocations PROVE LocalStep(k)
  OBVIOUS
<1> USE DEF TypeInv, TypeOK
<1>1. ASSUME UNCHANGED localVars PROVE LocalStep(k)
  BY <1>1 DEF LocalStep, Untouched, localVars
<1>2. ASSUME NEW i \in Invocations, Forget(i) PROVE LocalStep(k)
  BY <1>2 DEF Forget, LocalStep, Untouched
<1>3. ASSUME NEW i \in Invocations, NEW f \in Forms, LockVerify(i, f) PROVE LocalStep(k)
  BY <1>3 DEF LockVerify, LocalStep, Untouched
<1>4. ASSUME NEW i \in Invocations, NEW e \in EscrowIds, NEW c \in receipts,
             NEW w \in Wallets, ReleaseRead(i, e, c, w)
      PROVE  LocalStep(k)
  BY <1>4 DEF ReleaseRead, LocalStep, Untouched
<1>5. ASSUME NEW i \in Invocations, ReleaseFlip(i) PROVE LocalStep(k)
  BY <1>5 DEF ReleaseFlip, LocalStep, Untouched
<1>6. ASSUME NEW i \in Invocations, ReleasePay(i) PROVE LocalStep(k)
  BY <1>6 DEF ReleasePay, LocalStep, Untouched
<1>7. ASSUME NEW i \in Invocations, ReleaseFee(i) PROVE LocalStep(k)
  BY <1>7 DEF ReleaseFee, LocalStep, Untouched
<1>8. ASSUME NEW i \in Invocations, ReleaseLog(i) PROVE LocalStep(k)
  BY <1>8 DEF ReleaseLog, LocalStep, Untouched
<1>9. ASSUME NEW i \in Invocations, ReleaseLogLost(i) PROVE LocalStep(k)
  BY <1>9 DEF ReleaseLogLost, LocalStep, Untouched
<1>10. ASSUME NEW i \in Invocations, ReleaseSettle(i) PROVE LocalStep(k)
  BY <1>10 DEF ReleaseSettle, LocalStep, Untouched
<1>11. ASSUME NEW i \in Invocations,
              LockConflict(i) \/ Fails(i) \/ ReleaseSign(i)
       PROVE  LocalStep(k)
  BY <1>2, <1>11 DEF LockConflict, Fails, ReleaseSign
<1>12. ASSUME NEW i \in Invocations, NEW e \in EscrowIds, LockInsert(i, e)
       PROVE  LocalStep(k)
  BY <1>2, <1>12 DEF LockInsert
<1>13. ASSUME NEW d \in Deposits, DepositLands(d) PROVE LocalStep(k)
  BY <1>1, <1>13 DEF DepositLands
<1>14. ASSUME NEW c \in Sealable, SealReceipt(c) PROVE LocalStep(k)
  BY <1>1, <1>14 DEF SealReceipt
<1>15. CASE UNCHANGED vars
  BY <1>1, <1>15 DEF vars, localVars
<1>. QED
  BY <1>3, <1>4, <1>5, <1>6, <1>7, <1>8, <1>9, <1>10, <1>11, <1>12, <1>13, <1>14, <1>15
  DEF Next, ReleaseStep

\* Only a send changes the chain, only the log insert the log, only a sign the
\* envelopes.
LEMMA StepWorld ==
  TypeInv /\ [Next]_vars =>
    /\ chain' = chain \/ \E i \in Invocations : ReleasePay(i) \/ ReleaseFee(i)
    /\ txlog' = txlog \/ \E i \in Invocations : ReleaseLog(i)
    /\ signed' = signed \/ \E i \in Invocations : ReleaseSign(i)
<1> SUFFICES ASSUME TypeInv, [Next]_vars
             PROVE  /\ chain' = chain \/ \E i \in Invocations : ReleasePay(i) \/ ReleaseFee(i)
                    /\ txlog' = txlog \/ \E i \in Invocations : ReleaseLog(i)
                    /\ signed' = signed \/ \E i \in Invocations : ReleaseSign(i)
  OBVIOUS
<1>1. chain' = chain \/ \E i \in Invocations : ReleasePay(i) \/ ReleaseFee(i)
  BY DEF Next, ReleaseStep, DepositLands, SealReceipt, LockVerify, LockInsert, LockConflict,
         ReleaseRead, ReleaseFlip, ReleaseLog, ReleaseLogLost,
         ReleaseSettle, ReleaseSign, Fails, worldVars, vars
<1>2. txlog' = txlog \/ \E i \in Invocations : ReleaseLog(i)
  BY DEF Next, ReleaseStep, DepositLands, SealReceipt, LockVerify, LockInsert, LockConflict,
         ReleaseRead, ReleaseFlip, ReleasePay, ReleaseFee,
         ReleaseLogLost, ReleaseSettle, ReleaseSign, Fails, dbVars, vars
<1>3. signed' = signed \/ \E i \in Invocations : ReleaseSign(i)
  BY DEF Next, ReleaseStep, DepositLands, SealReceipt, LockVerify, LockInsert, LockConflict,
         ReleaseRead, ReleaseFlip, ReleasePay, ReleaseFee, ReleaseLog,
         ReleaseLogLost, ReleaseSettle, Fails, worldVars, vars
<1>. QED
  BY <1>1, <1>2, <1>3

\* Only an insert, a flip and a settlement change a row, each its own.
LEMMA StepRows ==
  ASSUME TypeInv, [Next]_vars, NEW e \in EscrowIds
  PROVE  \/ escrows'[e] = escrows[e]
         \/ \E i \in Invocations : LockInsert(i, e)
         \/ \E i \in Invocations : ReleaseFlip(i) /\ target[i] = e
         \/ \E i \in Invocations : ReleaseSettle(i) /\ target[i] = e
<1>1. \/ escrows' = escrows
      \/ \E i \in Invocations, k \in EscrowIds : LockInsert(i, k)
      \/ \E i \in Invocations : ReleaseFlip(i) \/ ReleaseSettle(i)
  BY DEF Next, ReleaseStep, DepositLands, SealReceipt, LockVerify, LockConflict, ReleaseRead,
         ReleasePay, ReleaseFee, ReleaseLog, ReleaseLogLost,
         ReleaseSign, Fails, dbVars, vars
<1>2. ASSUME NEW i \in Invocations, NEW k \in EscrowIds, LockInsert(i, k), k # e
      PROVE  escrows'[e] = escrows[e]
  BY <1>2 DEF LockInsert, TypeInv, TypeOK
<1>3. ASSUME NEW i \in Invocations, ReleaseFlip(i), target[i] # e
      PROVE  escrows'[e] = escrows[e]
  BY <1>3 DEF ReleaseFlip, TypeInv, TypeOK
<1>4. ASSUME NEW i \in Invocations, ReleaseSettle(i), target[i] # e
      PROVE  escrows'[e] = escrows[e]
  BY <1>4 DEF ReleaseSettle, TypeInv, TypeOK
<1>. QED
  BY <1>1, <1>2, <1>3, <1>4

\* A row keeps its terms, and past "locked" it stays past "locked".
LEMMA RowsKept ==
  ASSUME TypeInv, Forward, NEW e \in EscrowIds, Exists(e)
  PROVE  /\ Exists(e)'
         /\ escrows[e] \in Rows
         /\ SameTerms(escrows[e], escrows'[e])
         /\ escrows[e].status \in {"releasing", "released"} =>
              escrows'[e].status \in {"releasing", "released"}
         /\ escrows[e].status = "released" => escrows'[e] = escrows[e]
         /\ ReleaseTransfer(e, escrows'[e]) = ReleaseTransfer(e, escrows[e])
         /\ \A w : FeeTransfer(e, escrows'[e], w) = FeeTransfer(e, escrows[e], w)
<1>1. escrows[e] \in Rows
  BY DEF TypeInv, TypeOK, Exists
<1>2. RowMoves(escrows[e], escrows'[e])
  BY DEF Forward
<1>3. escrows'[e] \in Rows
  BY DEF Forward
<1>. QED
  BY <1>1, <1>2, <1>3, RowMovesKeepTerms, NoneIsNoRow
  DEF SameTerms, Exists, ReleaseTransfer, FeeTransfer

-----------------------------------------------------------------------------
(* A deposit hash funds one escrow *)

FormProven ==
  \A i \in Invocations : pc[i] = "insert" =>
    DepositProven(landed, Paid, DepositOf[form[i].deposit], form[i].amount)

FundsInv == HashFundsOne /\ FormProven

LEMMA StepFunds == TypeInv /\ Forward /\ FundsInv /\ [Next]_vars => FundsInv'
<1> SUFFICES ASSUME TypeInv, Forward, FundsInv, [Next]_vars PROVE FundsInv'
  OBVIOUS
<1>1. landed \subseteq landed'
  BY DEF Forward
<1>2. FormProven'
  <2> SUFFICES ASSUME NEW i \in Invocations, pc'[i] = "insert"
               PROVE  DepositProven(landed', Paid, DepositOf[form'[i].deposit], form'[i].amount)
    BY DEF FormProven
  <2>1. Untouched(i) \/ \E f \in Forms : LockVerify(i, f)
    BY StepLocals DEF LocalStep, ReleaseRead, ReleaseFlip, ReleasePay, ReleaseFee,
                      ReleaseLog, ReleaseLogLost, ReleaseSettle, TypeInv, TypeOK
  <2>2. CASE Untouched(i)
    BY <1>1, <2>2 DEF Untouched, FundsInv, FormProven, DepositProven
  <2>3. ASSUME NEW f \in Forms, LockVerify(i, f)
        PROVE  DepositProven(landed', Paid, DepositOf[form'[i].deposit], form'[i].amount)
    BY <2>3 DEF LockVerify, worldVars, TypeInv, TypeOK, DepositProven
  <2>. QED
    BY <2>1, <2>2, <2>3
<1>3. HashFundsOne'
  <2>1. ASSUME NEW i \in Invocations, NEW k \in EscrowIds, LockInsert(i, k)
        PROVE  HashFundsOne'
    <3>1. /\ ~Conflicts(form[i])
          /\ form[i] \in Forms
          /\ DepositProven(landed, Paid, DepositOf[form[i].deposit], form[i].amount)
      BY <2>1 DEF LockInsert, FundsInv, FormProven, TypeInv, Located
    <3>2. /\ escrows'[k] = LockedRow(form[i])
          /\ \A e \in EscrowIds \ {k} : escrows'[e] = escrows[e]
      BY <2>1 DEF LockInsert, TypeInv, TypeOK
    <3>3. /\ LockedRow(form[i]).deposit = form[i].deposit
          /\ LockedRow(form[i]).amount = form[i].amount
      BY DEF LockedRow
    <3>4. landed' = landed
      BY <2>1 DEF LockInsert, worldVars
    <3>5. \A e \in EscrowIds : Exists(e) => escrows[e].deposit # form[i].deposit
      BY <3>1 DEF Conflicts
    <3>. QED
      BY <3>1, <3>2, <3>3, <3>4, <3>5 DEF HashFundsOne, FundsInv, Exists
  <2>2. CASE ~ \E i \in Invocations, k \in EscrowIds : LockInsert(i, k)
    <3>1. \A e \in EscrowIds : Exists(e)' => Exists(e)
      <4>1. \A e \in EscrowIds : ~Exists(e) => escrows'[e] = escrows[e]
        BY <2>2 DEF Forward
      <4>. QED
        BY <4>1 DEF Exists
    <3>2. \A e \in EscrowIds : Exists(e) =>
            escrows'[e].deposit = escrows[e].deposit /\ escrows'[e].amount = escrows[e].amount
      BY RowsKept DEF SameTerms
    <3>. QED
      BY <1>1, <3>1, <3>2 DEF HashFundsOne, FundsInv, DepositProven, Exists
  <2>. QED
    BY <2>1, <2>2
<1>. QED
  BY <1>2, <1>3 DEF FundsInv

\* A deposit hash, as it is spelled, funds one escrow, which its deposit covers,
\* however many lock calls race over it.
THEOREM OneEscrowPerHash == Spec => []HashFundsOne
<1>1. Init => TypeInv /\ FundsInv
  <2>1. Init => FormProven
    BY DEF Init, FormProven
  <2>2. Init => HashFundsOne
    BY NoneIsNoRow DEF Init, HashFundsOne, Exists, LegacyRow
  <2>. QED
    BY <2>1, <2>2, InitTypeInv DEF FundsInv
<1>2. TypeInv /\ FundsInv /\ [Next]_vars => TypeInv' /\ FundsInv'
  BY StepTypeInv, StepMovesForward, StepFunds
<1>3. FundsInv => HashFundsOne
  BY DEF FundsInv
<1>. QED
  BY <1>1, <1>2, <1>3, PTL DEF Spec

-----------------------------------------------------------------------------
(* A release in progress targets a funded, delivered escrow *)

\* A real row whose delivery the lab has sealed.
Delivered(e) ==
  /\ Exists(e)
  /\ escrows[e].deposit # None
  /\ \E c \in receipts : /\ c.deliveredOk
                         /\ c.job = escrows[e].job
                         /\ c.agent = escrows[e].agent

PastLocked(e) == escrows[e].status \in {"releasing", "released"}

JustifiedAt(i) ==
  /\ pc[i] \in ReleasePhases => Delivered(target[i])
  /\ pc[i] \in PayPhases => PastLocked(target[i])

Justified == \A i \in Invocations : JustifiedAt(i)

\* What Delivered and PastLocked say of an escrow stays true.
LEMMA DeliveredKept ==
  ASSUME TypeInv, Forward, NEW e \in EscrowIds, Delivered(e)
  PROVE  Delivered(e)' /\ (PastLocked(e) => PastLocked(e)')
<1>1. Exists(e)' /\ SameTerms(escrows[e], escrows'[e]) /\ (PastLocked(e) => PastLocked(e)')
  BY RowsKept DEF Delivered, PastLocked
<1>2. receipts \subseteq receipts'
  BY DEF Forward
<1>. QED
  BY <1>1, <1>2 DEF Delivered, SameTerms

LEMMA StepJustified == TypeInv /\ Forward /\ Justified /\ [Next]_vars => Justified'
<1> SUFFICES ASSUME TypeInv, Forward, Justified, [Next]_vars, NEW i \in Invocations
             PROVE  JustifiedAt(i)'
  BY DEF Justified
<1> DEFINE e == target[i]
<1>1. ASSUME pc[i] \in ReleasePhases, target'[i] = target[i]
      PROVE  Delivered(e) /\ \A d : d = e => Delivered(d)' /\ (PastLocked(d) => PastLocked(d)')
  <2>1. e \in EscrowIds /\ Delivered(e)
    BY <1>1 DEF TypeInv, Located, Justified, JustifiedAt
  <2>. QED
    BY <2>1, DeliveredKept
<1>2. ASSUME NEW d, d = e, target'[i] = d, Delivered(d)',
             pc'[i] \in PayPhases => PastLocked(d)'
      PROVE  JustifiedAt(i)'
  BY <1>2 DEF JustifiedAt, Delivered, PastLocked, Exists
<1>3. CASE Untouched(i)
  <2>1. CASE pc[i] \in ReleasePhases
    BY <1>1, <1>2, <1>3, <2>1 DEF Untouched, Justified, JustifiedAt
  <2>2. CASE pc[i] \notin ReleasePhases
    BY <1>3, <2>2 DEF Untouched, JustifiedAt, ReleasePhases
  <2>. QED
    BY <2>1, <2>2
<1>4. CASE pc'[i] = "idle"
  BY <1>4 DEF JustifiedAt, ReleasePhases, PayPhases
<1>5. ASSUME NEW f \in Forms, LockVerify(i, f) PROVE JustifiedAt(i)'
  BY <1>5 DEF LockVerify, JustifiedAt, ReleasePhases, PayPhases, TypeInv, TypeOK
<1>6. ASSUME NEW d \in EscrowIds, NEW c \in receipts, NEW w \in Wallets, ReleaseRead(i, d, c, w)
      PROVE  JustifiedAt(i)'
  <2>1. /\ target'[i] = d /\ UNCHANGED <<escrows, receipts>>
        /\ pc'[i] = IF escrows[d].status = "locked" THEN "flip" ELSE "pay"
    BY <1>6 DEF ReleaseRead, TypeInv, TypeOK, dbVars, worldVars
  <2>2. Delivered(d) /\ escrows[d].status \in {"locked", "releasing"}
    BY <1>6 DEF ReleaseRead, Releasable, Delivered
  <2>. QED
    BY <2>1, <2>2 DEF JustifiedAt, Delivered, PastLocked, Exists, PayPhases
<1>7. CASE ReleaseFlip(i)
  <2>1. pc[i] \in ReleasePhases /\ target'[i] = target[i] /\ e \in EscrowIds
    BY <1>7 DEF ReleaseFlip, ReleasePhases, TypeInv, Located
  <2>2. escrows[e] \in Rows
    BY <2>1 DEF TypeInv, Located
  <2>3. escrows'[e].status \in {"releasing", "released"}
    BY <1>7, <2>1, <2>2 DEF ReleaseFlip, TypeInv, TypeOK, Rows, Statuses
  <2>4. \A d : d = e => PastLocked(d)'
    BY <2>3 DEF PastLocked
  <2>. QED
    BY <1>1, <1>2, <2>1, <2>4
<1>8. CASE ReleasePay(i) \/ ReleaseFee(i) \/ ReleaseLog(i) \/ ReleaseLogLost(i) \/ ReleaseSettle(i)
  <2>1. pc[i] \in PayPhases /\ target'[i] = target[i]
    BY <1>8 DEF ReleasePay, ReleaseFee, ReleaseLog, ReleaseLogLost, ReleaseSettle, PayPhases
  <2>2. PastLocked(e) /\ pc[i] \in ReleasePhases
    BY <2>1 DEF Justified, JustifiedAt, ReleasePhases
  <2>. QED
    BY <1>1, <1>2, <2>1, <2>2
<1>. QED
  BY <1>3, <1>4, <1>5, <1>6, <1>7, <1>8, StepLocals DEF LocalStep

-----------------------------------------------------------------------------
(* What is sent is what the row says, once *)

\* The chain holds one transfer per idempotency key.
KeyOnce == \A s, t \in chain : s.key = t.key => s = t

SentInv == PaidAgainstDelivery /\ KeyOnce

\* A step that sends adds nothing or the release or fee transfer of a
\* delivered escrow under a key not sent before.
LEMMA SendStep ==
  ASSUME TypeInv, Justified, [Next]_vars
  PROVE  \/ chain' = chain
         \/ \E e \in EscrowIds, w \in Wallets :
              /\ UNCHANGED escrows /\ UNCHANGED receipts
              /\ Delivered(e) /\ PastLocked(e) /\ escrows[e] \in Rows
              /\ \E t \in {ReleaseTransfer(e, escrows[e]), FeeTransfer(e, escrows[e], w)} :
                   SentUnder(chain, t.key) = {} /\ chain' = chain \cup {t}
<1>1. ASSUME NEW i \in Invocations, ReleasePay(i) \/ ReleaseFee(i)
      PROVE  /\ target[i] \in EscrowIds /\ feeTo[i] \in Wallets
             /\ UNCHANGED escrows /\ UNCHANGED receipts
             /\ Delivered(target[i]) /\ PastLocked(target[i]) /\ escrows[target[i]] \in Rows
  BY <1>1 DEF ReleasePay, ReleaseFee, TypeInv, Located, Justified, JustifiedAt,
              ReleasePhases, PayPhases, dbVars
<1>2. ASSUME NEW i \in Invocations, ReleasePay(i)
      PROVE  \/ chain' = chain
             \/ LET t == ReleaseTransfer(target[i], escrows[target[i]])
                IN  SentUnder(chain, t.key) = {} /\ chain' = chain \cup {t}
  BY <1>2 DEF ReleasePay, ChainAfter
<1>3. ASSUME NEW i \in Invocations, ReleaseFee(i)
      PROVE  \/ chain' = chain
             \/ LET t == FeeTransfer(target[i], escrows[target[i]], feeTo[i])
                IN  SentUnder(chain, t.key) = {} /\ chain' = chain \cup {t}
  BY <1>3 DEF ReleaseFee, ChainAfter
<1>4. CASE chain' = chain
  BY <1>4
<1>5. CASE \E i \in Invocations : ReleasePay(i)
  BY <1>1, <1>2, <1>5
<1>6. CASE \E i \in Invocations : ReleaseFee(i)
  BY <1>1, <1>3, <1>6
<1>. QED
  BY <1>4, <1>5, <1>6, StepWorld

\* What backs a transfer already sent goes on backing it.
LEMMA PaidKept ==
  ASSUME TypeInv, Forward, PaidAgainstDelivery, NEW t \in chain
  PROVE  /\ Delivered(t.escrow)' /\ PastLocked(t.escrow)'
         /\ \/ t = ReleaseTransfer(t.escrow, escrows'[t.escrow])
            \/ t = FeeTransfer(t.escrow, escrows'[t.escrow], t.to)
<1> DEFINE e == t.escrow
<1>1. e \in EscrowIds
  BY DEF TypeInv, TypeOK, Transfers
<1>2. /\ Delivered(e) /\ PastLocked(e)
      /\ t = ReleaseTransfer(e, escrows[e]) \/ t = FeeTransfer(e, escrows[e], t.to)
  BY DEF PaidAgainstDelivery, Delivered, PastLocked
<1>3. /\ ReleaseTransfer(e, escrows'[e]) = ReleaseTransfer(e, escrows[e])
      /\ \A w : FeeTransfer(e, escrows'[e], w) = FeeTransfer(e, escrows[e], w)
  BY <1>1, <1>2, RowsKept DEF Delivered
<1>. QED
  BY <1>1, <1>2, <1>3, DeliveredKept

LEMMA StepSent == TypeInv /\ Forward /\ Justified /\ SentInv /\ [Next]_vars => SentInv'
<1> SUFFICES ASSUME TypeInv, Forward, Justified, SentInv, [Next]_vars PROVE SentInv'
  OBVIOUS
<1>1. \A t \in chain : /\ Delivered(t.escrow)' /\ PastLocked(t.escrow)'
                       /\ \/ t = ReleaseTransfer(t.escrow, escrows'[t.escrow])
                          \/ t = FeeTransfer(t.escrow, escrows'[t.escrow], t.to)
  BY PaidKept DEF SentInv
<1>2. CASE chain' = chain
  BY <1>1, <1>2 DEF SentInv, PaidAgainstDelivery, KeyOnce, Delivered, PastLocked, Exists
<1>3. ASSUME NEW e \in EscrowIds, NEW w \in Wallets,
             UNCHANGED escrows, UNCHANGED receipts,
             Delivered(e), PastLocked(e), escrows[e] \in Rows,
             NEW t \in {ReleaseTransfer(e, escrows[e]), FeeTransfer(e, escrows[e], w)},
             SentUnder(chain, t.key) = {}, chain' = chain \cup {t}
      PROVE  SentInv'
  <2>1. /\ t.escrow = e
        /\ t = ReleaseTransfer(e, escrows[e]) \/ t = FeeTransfer(e, escrows[e], t.to)
    BY <1>3 DEF ReleaseTransfer, FeeTransfer
  <2>2. Delivered(e)' /\ PastLocked(e)'
    BY <1>3 DEF Delivered, PastLocked, Exists
  <2>3. PaidAgainstDelivery'
    BY <1>1, <1>3, <2>1, <2>2 DEF PaidAgainstDelivery, Delivered, PastLocked, Exists
  <2>4. KeyOnce'
    BY <1>3 DEF SentInv, KeyOnce, SentUnder
  <2>. QED
    BY <2>3, <2>4 DEF SentInv
<1>. QED
  BY <1>2, <1>3, SendStep

\* One transfer per key is one per escrow and purpose.
LEMMA KeysArePurposes ==
  SentInv => /\ PaidOnce
             /\ \A t \in chain :
                  /\ t.purpose = "escrow_release" <=> t.key = ReleaseKey(t.escrow)
                  /\ t.purpose = "escrow_fee" <=> t.key = FeeKey(t.escrow)
<1> SUFFICES ASSUME SentInv
             PROVE  /\ PaidOnce
                    /\ \A t \in chain :
                         /\ t.purpose = "escrow_release" <=> t.key = ReleaseKey(t.escrow)
                         /\ t.purpose = "escrow_fee" <=> t.key = FeeKey(t.escrow)
  OBVIOUS
<1>1. ASSUME NEW t \in chain
      PROVE  \/ t.purpose = "escrow_release" /\ t.key = ReleaseKey(t.escrow)
             \/ t.purpose = "escrow_fee" /\ t.key = FeeKey(t.escrow)
  BY DEF SentInv, PaidAgainstDelivery, ReleaseTransfer, FeeTransfer
<1>2. \A e : ReleaseKey(e) # FeeKey(e)
  BY DEF ReleaseKey, FeeKey
<1>. QED
  BY <1>1, <1>2 DEF PaidOnce, SentInv, KeyOnce

LEMMA SentInvariant == Spec => [](TypeInv /\ Justified /\ SentInv)
<1>1. Init => TypeInv /\ Justified /\ SentInv
  <2>1. Init => Justified
    BY DEF Init, Justified, JustifiedAt, ReleasePhases, PayPhases
  <2>2. Init => SentInv
    BY DEF Init, SentInv, PaidAgainstDelivery, KeyOnce
  <2>. QED
    BY <2>1, <2>2, InitTypeInv
<1>2. TypeInv /\ Justified /\ SentInv /\ [Next]_vars => (TypeInv /\ Justified /\ SentInv)'
  BY StepTypeInv, StepMovesForward, StepJustified, StepSent
<1>. QED
  BY <1>1, <1>2, PTL DEF Spec

\* Every transfer is the share of a real, delivered escrow.
THEOREM OnlyDeliveredIsPaid == Spec => []PaidAgainstDelivery
<1>1. SentInv => PaidAgainstDelivery
  BY DEF SentInv
<1>. QED
  BY <1>1, SentInvariant, PTL

\* No escrow is paid out or charged twice, through any race, crash or retry.
THEOREM NeverPaidTwice == Spec => []PaidOnce
<1>1. SentInv => PaidOnce
  BY KeysArePurposes
<1>. QED
  BY <1>1, SentInvariant, PTL

-----------------------------------------------------------------------------
(* A settled escrow has been paid *)

\* What an invocation has sent by the await it stands at.
ProgressAt(i) ==
  /\ pc[i] \in {"fee", "log", "settle", "sign"} =>
       /\ txs[i].release \in chain
       /\ txs[i].release = ReleaseTransfer(target[i], escrows[target[i]])
  /\ pc[i] \in {"log", "settle", "sign"} =>
       /\ txs[i].fee \in chain
       /\ txs[i].fee.key = FeeKey(target[i])
  /\ pc[i] = "sign" => escrows[target[i]].status = "released"

Progress == \A i \in Invocations : ProgressAt(i)

\* Under an escrow's release key the chain has only that escrow's release.
LEMMA ReleaseKeyDetermines ==
  ASSUME TypeInv, SentInv, NEW e \in EscrowIds, NEW s \in chain, s.key = ReleaseKey(e)
  PROVE  s = ReleaseTransfer(e, escrows[e])
<1>1. \/ s = ReleaseTransfer(s.escrow, escrows[s.escrow])
      \/ s = FeeTransfer(s.escrow, escrows[s.escrow], s.to)
  BY DEF SentInv, PaidAgainstDelivery
<1>2. \A k, w : /\ ReleaseTransfer(k, escrows[k]).key = ReleaseKey(k)
                /\ FeeTransfer(k, escrows[k], w).key = FeeKey(k)
  BY DEF ReleaseTransfer, FeeTransfer
<1>3. s.key = ReleaseKey(s.escrow) \/ s.key = FeeKey(s.escrow)
  BY <1>1, <1>2
<1>4. \A k : ReleaseKey(e) # FeeKey(k) /\ (ReleaseKey(e) = ReleaseKey(k) => e = k)
  BY DEF ReleaseKey, FeeKey
<1>5. s.escrow = e /\ s.key # FeeKey(s.escrow)
  BY <1>3, <1>4
<1>. QED
  BY <1>1, <1>2, <1>5

\* Under an escrow's fee key it has only that escrow's fee.
LEMMA FeeKeyDetermines ==
  ASSUME TypeInv, SentInv, NEW e \in EscrowIds, NEW s \in chain, s.key = FeeKey(e)
  PROVE  s = FeeTransfer(e, escrows[e], s.to)
<1>1. \/ s = ReleaseTransfer(s.escrow, escrows[s.escrow])
      \/ s = FeeTransfer(s.escrow, escrows[s.escrow], s.to)
  BY DEF SentInv, PaidAgainstDelivery
<1>2. \A k, w : /\ ReleaseTransfer(k, escrows[k]).key = ReleaseKey(k)
                /\ FeeTransfer(k, escrows[k], w).key = FeeKey(k)
  BY DEF ReleaseTransfer, FeeTransfer
<1>3. s.key = ReleaseKey(s.escrow) \/ s.key = FeeKey(s.escrow)
  BY <1>1, <1>2
<1>4. \A k : FeeKey(e) # ReleaseKey(k) /\ (FeeKey(e) = FeeKey(k) => e = k)
  BY DEF ReleaseKey, FeeKey
<1>5. s.escrow = e /\ s.key # ReleaseKey(s.escrow)
  BY <1>3, <1>4
<1>. QED
  BY <1>1, <1>2, <1>5

LEMMA StepProgress ==
  TypeInv /\ Forward /\ Justified /\ SentInv /\ Progress /\ [Next]_vars => Progress'
<1> SUFFICES ASSUME TypeInv, Forward, Justified, SentInv, Progress, [Next]_vars,
                    NEW i \in Invocations
             PROVE  ProgressAt(i)'
  BY DEF Progress
<1> DEFINE e == target[i]
           row == escrows[target[i]]
<1>1. ASSUME pc[i] \in PayPhases
      PROVE  /\ e \in EscrowIds /\ row \in Rows /\ Exists(e) /\ PastLocked(e)
             /\ ReleaseTransfer(e, escrows'[e]) = ReleaseTransfer(e, row)
             /\ row.status = "released" => escrows'[e].status = "released"
             /\ chain \subseteq chain'
  <2>1. e \in EscrowIds /\ row \in Rows /\ PastLocked(e)
    BY <1>1 DEF TypeInv, Located, ReleasePhases, Justified, JustifiedAt
  <2>2. Exists(e)
    BY <2>1, NoneIsNoRow DEF Exists
  <2>. QED
    BY <2>1, <2>2, RowsKept DEF Forward
<1>2. CASE Untouched(i)
  <2>1. CASE pc[i] \in PayPhases
    BY <1>1, <1>2, <2>1 DEF Untouched, Progress, ProgressAt
  <2>2. CASE pc[i] \notin PayPhases
    BY <1>2, <2>2 DEF Untouched, ProgressAt, PayPhases
  <2>. QED
    BY <2>1, <2>2
<1>3. CASE \/ pc'[i] = "idle"
           \/ \E f \in Forms : LockVerify(i, f)
           \/ \E d \in EscrowIds, c \in receipts, w \in Wallets : ReleaseRead(i, d, c, w)
           \/ ReleaseFlip(i)
  <2>1. pc'[i] \in {"idle", "insert", "flip", "pay"}
    BY <1>3 DEF LockVerify, ReleaseRead, ReleaseFlip, TypeInv, TypeOK
  <2>. QED
    BY <2>1 DEF ProgressAt
<1>4. CASE ReleasePay(i)
  <2> DEFINE t == ReleaseTransfer(e, row)
  <2>1. /\ pc[i] \in PayPhases /\ pc'[i] = "fee" /\ target'[i] = e
        /\ chain' = ChainAfter(chain, t) /\ txs'[i].release = SendResult(chain, t)
    BY <1>4 DEF ReleasePay, TypeInv, TypeOK, TxPairs, PayPhases
  <2>2. /\ SendResult(chain, t) \in ChainAfter(chain, t)
        /\ SendResult(chain, t).key = t.key
        /\ SendResult(chain, t) = t \/ SendResult(chain, t) \in chain
    BY SendFacts
  <2>3. t.key = ReleaseKey(e)
    BY DEF ReleaseTransfer
  <2>4. SendResult(chain, t) = t
    BY <1>1, <2>1, <2>2, <2>3, ReleaseKeyDetermines
  <2>. QED
    BY <1>1, <2>1, <2>2, <2>4 DEF ProgressAt
<1>5. CASE ReleaseFee(i)
  <2> DEFINE t == FeeTransfer(e, row, feeTo[i])
  <2>1. /\ pc[i] = "fee" /\ pc[i] \in PayPhases /\ pc'[i] = "log" /\ target'[i] = e
        /\ chain' = ChainAfter(chain, t) /\ txs'[i].fee = SendResult(chain, t)
        /\ txs'[i].release = txs[i].release
    BY <1>5 DEF ReleaseFee, TypeInv, TypeOK, TxPairs, PayPhases
  <2>2. /\ SendResult(chain, t) \in ChainAfter(chain, t)
        /\ SendResult(chain, t).key = t.key
    BY SendFacts
  <2>3. t.key = FeeKey(e)
    BY DEF FeeTransfer
  <2>. QED
    BY <1>1, <2>1, <2>2, <2>3 DEF ProgressAt, Progress
<1>6. CASE ReleaseLog(i) \/ ReleaseLogLost(i)
  <2>1. /\ pc[i] = "log" /\ pc[i] \in PayPhases /\ pc'[i] = "settle"
        /\ target'[i] = e /\ txs'[i] = txs[i]
    BY <1>6 DEF ReleaseLog, ReleaseLogLost, TypeInv, TypeOK, PayPhases
  <2>. QED
    BY <1>1, <2>1 DEF ProgressAt, Progress
<1>7. CASE ReleaseSettle(i)
  <2>1. /\ pc[i] = "settle" /\ pc[i] \in PayPhases /\ pc'[i] = "sign"
        /\ target'[i] = e /\ txs'[i] = txs[i]
    BY <1>7 DEF ReleaseSettle, TypeInv, TypeOK, PayPhases
  <2>2. escrows'[e].status = "released"
    BY <1>1, <1>7, <2>1 DEF ReleaseSettle, PastLocked, TypeInv, TypeOK, Rows
  <2>. QED
    BY <1>1, <2>1, <2>2 DEF ProgressAt, Progress
<1>8. LocalStep(i)
  BY StepLocals
<1>. QED
  BY <1>2, <1>3, <1>4, <1>5, <1>6, <1>7, <1>8 DEF LocalStep

LEMMA StepReleased ==
  TypeInv /\ Forward /\ Justified /\ SentInv /\ Progress /\ ReleasedMeansPaid /\ [Next]_vars
    => ReleasedMeansPaid'
<1> SUFFICES ASSUME TypeInv, Forward, Justified, SentInv, Progress, ReleasedMeansPaid,
                    [Next]_vars
             PROVE  ReleasedMeansPaid'
  OBVIOUS
<1>1. ASSUME NEW e \in EscrowIds, Exists(e)', escrows'[e].status = "released"
      PROVE  /\ {escrows'[e].txs.release, escrows'[e].txs.fee} \subseteq chain'
             /\ escrows'[e].txs.release = ReleaseTransfer(e, escrows'[e])
             /\ escrows'[e].txs.fee.key = FeeKey(e)
  <2>1. CASE escrows'[e] = escrows[e]
    BY <1>1, <2>1 DEF ReleasedMeansPaid, Forward, Exists
  <2>2. CASE escrows'[e] # escrows[e]
    <3>1. ~ \E i \in Invocations, k \in EscrowIds : LockInsert(i, k) /\ ~Exists(e)
      BY <1>1, <2>2 DEF LockInsert, LockedRow, Exists, TypeInv, TypeOK
    <3>2. Exists(e) /\ escrows[e] \in Rows
      BY <2>2, <3>1 DEF Forward, Exists, TypeInv, TypeOK
    <3>3. PICK i \in Invocations : ReleaseSettle(i) /\ target[i] = e
      <4>1. ASSUME NEW i \in Invocations, ReleaseFlip(i), target[i] = e PROVE FALSE
        BY <1>1, <2>2, <3>2, <4>1 DEF ReleaseFlip, TypeInv, TypeOK, Rows
      <4>2. ASSUME NEW i \in Invocations, LockInsert(i, e) PROVE FALSE
        BY <3>2, <4>2 DEF LockInsert
      <4>. QED
        BY <2>2, <4>1, <4>2, StepRows
    <3>4. escrows'[e].txs = txs[i]
      BY <2>2, <3>2, <3>3 DEF ReleaseSettle, TypeInv, TypeOK, Rows
    <3>5. /\ txs[i].release \in chain
          /\ txs[i].release = ReleaseTransfer(e, escrows[e])
          /\ txs[i].fee \in chain /\ txs[i].fee.key = FeeKey(e)
      BY <3>3 DEF ReleaseSettle, Progress, ProgressAt
    <3>6. ReleaseTransfer(e, escrows'[e]) = ReleaseTransfer(e, escrows[e])
      BY <3>2, RowsKept
    <3>. QED
      BY <3>4, <3>5, <3>6 DEF Forward
  <2>. QED
    BY <2>1, <2>2
<1>2. ASSUME NEW v \in signed' PROVE Exists(v.escrow)' /\ escrows'[v.escrow].status = "released"
  <2>1. CASE v \in signed
    <3>1. v.escrow \in EscrowIds
      BY <2>1 DEF TypeInv, TypeOK
    <3>2. Exists(v.escrow) /\ escrows[v.escrow].status = "released"
      BY <2>1 DEF ReleasedMeansPaid
    <3>. QED
      BY <3>1, <3>2, RowsKept
  <2>2. CASE v \notin signed
    <3>1. PICK i \in Invocations : ReleaseSign(i)
      BY <2>2, StepWorld
    <3>2. v.escrow = target[i] /\ UNCHANGED escrows
      BY <2>2, <3>1 DEF ReleaseSign, dbVars
    <3>3. escrows[target[i]].status = "released" /\ Exists(target[i])
      BY <3>1 DEF ReleaseSign, Progress, ProgressAt, Justified, JustifiedAt, Delivered,
                  ReleasePhases, PayPhases
    <3>. QED
      BY <3>2, <3>3 DEF Exists
  <2>. QED
    BY <2>1, <2>2
<1>. QED
  BY <1>1, <1>2 DEF ReleasedMeansPaid, Exists

LEMMA StepLog ==
  TypeInv /\ Forward /\ SentInv /\ Progress /\ LogMatchesChain /\ [Next]_vars
    => LogMatchesChain'
<1> SUFFICES ASSUME TypeInv, Forward, SentInv, Progress, LogMatchesChain, [Next]_vars
             PROVE  LogMatchesChain'
  OBVIOUS
<1>1. chain \subseteq chain'
  BY DEF Forward
<1>2. CASE txlog' = txlog
  BY <1>1, <1>2 DEF LogMatchesChain
<1>3. ASSUME NEW i \in Invocations, ReleaseLog(i), txlog' = txlog \cup LogEntries(i),
             \A l \in txlog, n \in LogEntries(i) : l.asked.key # n.asked.key
      PROVE  LogMatchesChain'
  <2> DEFINE e == target[i]
             rel == ReleaseTransfer(e, escrows[e])
             fee == FeeTransfer(e, escrows[e], feeTo[i])
  <2>1. /\ txs[i].release \in chain /\ txs[i].release = rel
        /\ txs[i].fee \in chain /\ txs[i].fee.key = FeeKey(e)
    BY <1>3 DEF ReleaseLog, Progress, ProgressAt
  <2>2. e \in EscrowIds
    BY <1>3 DEF ReleaseLog, TypeInv, Located, ReleasePhases, PayPhases
  <2>3. fee.key = FeeKey(e) /\ rel.key = ReleaseKey(e) /\ fee.amount = escrows[e].fee
    BY DEF FeeTransfer, ReleaseTransfer
  <2>4. txs[i].fee = FeeTransfer(e, escrows[e], txs[i].fee.to)
    BY <2>1, <2>2, FeeKeyDetermines
  <2>5. txs[i].fee.amount = escrows[e].fee
    BY <2>4 DEF FeeTransfer
  <2>6. ReleaseKey(e) # FeeKey(e)
    BY DEF ReleaseKey, FeeKey
  <2>7. LogEntries(i) = {[tx |-> txs[i].release, asked |-> rel], [tx |-> txs[i].fee, asked |-> fee]}
    BY DEF LogEntries
  <2> HIDE DEF rel, fee
  <2>8. \A n \in LogEntries(i) : /\ n.tx \in chain
                                 /\ n.tx.key = n.asked.key
                                 /\ n.tx.amount = n.asked.amount
    BY <2>1, <2>3, <2>5, <2>7
  <2>9. \A m, n \in LogEntries(i) : m.asked.key = n.asked.key => m = n
    BY <2>3, <2>6, <2>7
  <2>. QED
    BY <1>1, <1>3, <2>8, <2>9 DEF LogMatchesChain
<1>. QED
  BY <1>2, <1>3, StepWorld DEF ReleaseLog

\* The whole strengthening: every reachable state satisfies it.
IInv == /\ TypeInv /\ FundsInv /\ Justified /\ SentInv /\ Progress
        /\ ReleasedMeansPaid /\ LogMatchesChain

LEMMA Inductive == Spec => []IInv
<1>1. Init => IInv
  <2> SUFFICES ASSUME Init PROVE IInv
    OBVIOUS
  <2>1. FundsInv
    <3>1. FormProven
      BY DEF Init, FormProven
    <3>2. HashFundsOne
      BY NoneIsNoRow DEF Init, HashFundsOne, Exists, LegacyRow
    <3>. QED
      BY <3>1, <3>2 DEF FundsInv
  <2>2. Justified /\ Progress
    BY DEF Init, Justified, JustifiedAt, ReleasePhases, PayPhases, Progress, ProgressAt
  <2>3. SentInv /\ LogMatchesChain
    BY DEF Init, SentInv, PaidAgainstDelivery, KeyOnce, LogMatchesChain
  <2>4. ReleasedMeansPaid
    BY NoneIsNoRow DEF Init, ReleasedMeansPaid, Exists, LegacyRow
  <2>. QED
    BY <2>1, <2>2, <2>3, <2>4, InitTypeInv DEF IInv
<1>2. IInv /\ [Next]_vars => IInv'
  <2> SUFFICES ASSUME IInv, [Next]_vars PROVE IInv'
    OBVIOUS
  <2>. TypeInv /\ FundsInv /\ Justified /\ SentInv /\ Progress
       /\ ReleasedMeansPaid /\ LogMatchesChain
    BY DEF IInv
  <2>1. TypeInv'
    BY StepTypeInv
  <2>2. Forward
    BY StepMovesForward
  <2>3. FundsInv'
    BY <2>2, StepFunds
  <2>4. Justified'
    BY <2>2, StepJustified
  <2>5. SentInv'
    BY <2>2, StepSent
  <2>6. Progress'
    BY <2>2, StepProgress
  <2>7. ReleasedMeansPaid'
    BY <2>2, StepReleased
  <2>8. LogMatchesChain'
    BY <2>2, StepLog
  <2>. QED
    BY <2>1, <2>3, <2>4, <2>5, <2>6, <2>7, <2>8 DEF IInv
<1>. QED
  BY <1>1, <1>2, PTL DEF Spec

\* A released row, and a signed release, stand for two transfers really sent.
THEOREM ReleasedIsPaid == Spec => []ReleasedMeansPaid
<1>1. IInv => ReleasedMeansPaid
  BY DEF IInv
<1>. QED
  BY <1>1, Inductive, PTL

\* The transfer log never misstates the chain.
THEOREM LogIsTrue == Spec => []LogMatchesChain
<1>1. IInv => LogMatchesChain
  BY DEF IInv
<1>. QED
  BY <1>1, Inductive, PTL

-----------------------------------------------------------------------------
(* The handlers implement EscrowPromise *)

LEMMA InitPromise == Init => Promise!Init
<1> SUFFICES ASSUME Init PROVE Promise!Init
  OBVIOUS
<1>1. \A e \in EscrowIds : Exists(e) => escrows[e].deposit = None
  BY NoneIsNoRow DEF Init, Exists, LegacyRow
<1>2. phaseOf \in [EscrowIds -> {"none", "void"}]
  BY <1>1 DEF phaseOf
<1>3. fundingOf = [e \in EscrowIds |-> None]
  BY <1>1 DEF fundingOf
<1>4. chain = {}
  BY DEF Init
<1>. QED
  BY <1>2, <1>3, <1>4 DEF Promise!Init

\* What each row is to the promise.
View(e) ==
  /\ phaseOf[e] = IF ~Exists(e) THEN "none"
                  ELSE IF escrows[e].deposit = None THEN "void"
                  ELSE IF escrows[e].status = "released" THEN "settled" ELSE "held"
  /\ fundingOf[e] = IF Exists(e) THEN escrows[e].deposit ELSE None

LEMMA Views == \A e \in EscrowIds : View(e) /\ View(e)'
BY DEF View, phaseOf, fundingOf, Exists

PromiseStep == Promise!Next \/ UNCHANGED Promise!promise

LEMMA StepPromise == IInv /\ Forward /\ [Next]_vars => [Promise!Next]_(Promise!promise)
<1> SUFFICES ASSUME IInv, Forward, [Next]_vars
             PROVE  PromiseStep
  BY DEF PromiseStep
<1>1. ASSUME UNCHANGED escrows, UNCHANGED chain PROVE PromiseStep
  BY <1>1 DEF PromiseStep, Promise!promise, phaseOf, fundingOf, Exists
<1>2. ASSUME NEW i \in Invocations, NEW k \in EscrowIds, LockInsert(i, k) PROVE PromiseStep
  <2> DEFINE d == form[i].deposit
  <2>1. /\ form[i] \in Forms /\ d \in Hashes /\ ~Exists(k) /\ ~Conflicts(form[i])
        /\ UNCHANGED chain
    BY <1>2 DEF LockInsert, IInv, TypeInv, Located, Forms, worldVars
  <2>2. /\ escrows'[k] = LockedRow(form[i]) /\ escrows'[k] # None
        /\ \A e \in EscrowIds \ {k} : escrows'[e] = escrows[e]
    <3>1. LockedRow(form[i]) \in Rows
      BY <2>1, FeeBounds DEF LockedRow, Rows, Forms, Statuses, TxPairs, NoTxs
    <3>. QED
      BY <1>2, <3>1, NoneIsNoRow DEF LockInsert, IInv, TypeInv, TypeOK
  <2>3. d # None
    BY <2>1, EscrowAssumption
  <2>4. phaseOf[k] = "none" /\ \A o \in EscrowIds : fundingOf[o] # d
    BY <2>1, <2>3, Views DEF View, Conflicts
  <2>5. phaseOf' = [phaseOf EXCEPT ![k] = "held"]
    <3>1. phaseOf'[k] = "held"
      BY <2>2, <2>3, Views DEF View, LockedRow, Exists
    <3>2. \A e \in EscrowIds \ {k} : phaseOf'[e] = phaseOf[e]
      BY <2>2, Views DEF View, Exists
    <3>. QED
      BY <3>1, <3>2 DEF phaseOf
  <2>6. fundingOf' = [fundingOf EXCEPT ![k] = d]
    <3>1. fundingOf'[k] = d
      BY <2>2, Views DEF View, LockedRow, Exists
    <3>2. \A e \in EscrowIds \ {k} : fundingOf'[e] = fundingOf[e]
      BY <2>2, Views DEF View, Exists
    <3>. QED
      BY <3>1, <3>2 DEF fundingOf
  <2>. QED
    BY <2>1, <2>4, <2>5, <2>6 DEF PromiseStep, Promise!Next, Promise!Fund
<1>3. ASSUME NEW e \in EscrowIds, NEW w \in Wallets, UNCHANGED escrows,
             Delivered(e), escrows[e] \in Rows,
             NEW t \in {ReleaseTransfer(e, escrows[e]), FeeTransfer(e, escrows[e], w)},
             SentUnder(chain, t.key) = {}, chain' = chain \cup {t}
      PROVE  PromiseStep
  <2>1. t \in Transfers /\ t.escrow = e
    <3>1. t \in Transfers
      BY <1>3, TransferType
    <3>. QED
      BY <3>1 DEF ReleaseTransfer, FeeTransfer
  <2>2. \/ t.purpose = "escrow_release" /\ t.key = ReleaseKey(e)
        \/ t.purpose = "escrow_fee" /\ t.key = FeeKey(e)
    BY DEF ReleaseTransfer, FeeTransfer
  <2>3. \A s \in chain : s.key # t.key
    BY <1>3 DEF SentUnder
  <2>4. \A s \in chain : s.escrow = e => s.purpose # t.purpose
    BY <2>2, <2>3, KeysArePurposes DEF IInv
  <2>5. escrows[e].status # "released"
    <3> SUFFICES ASSUME escrows[e].status = "released" PROVE FALSE
      OBVIOUS
    <3>1. /\ escrows[e].txs.release \in chain /\ escrows[e].txs.fee \in chain
          /\ escrows[e].txs.release = ReleaseTransfer(e, escrows[e])
          /\ escrows[e].txs.fee.key = FeeKey(e)
      BY <1>3 DEF IInv, ReleasedMeansPaid, Delivered
    <3>2. escrows[e].txs.release.key = ReleaseKey(e)
      BY <3>1 DEF ReleaseTransfer
    <3>. QED
      BY <2>2, <2>3, <3>1, <3>2
  <2>6. phaseOf[e] = "held"
    BY <1>3, <2>5, Views DEF View, Delivered
  <2>7. phaseOf' = phaseOf /\ fundingOf' = fundingOf
    BY <1>3 DEF phaseOf, fundingOf, Exists
  <2>. QED
    BY <1>3, <2>1, <2>4, <2>6, <2>7 DEF PromiseStep, Promise!Next, Promise!PayOut
<1>4. ASSUME NEW i \in Invocations, ReleaseFlip(i) PROVE PromiseStep
  <2> DEFINE e == target[i]
  <2>1. e \in EscrowIds /\ escrows[e] \in Rows /\ UNCHANGED chain
    BY <1>4 DEF ReleaseFlip, IInv, TypeInv, Located, ReleasePhases, worldVars
  <2>2. \A k \in EscrowIds :
          \/ escrows'[k] = escrows[k]
          \/ /\ k = e /\ escrows[k].status = "locked" /\ escrows'[k].status = "releasing"
             /\ escrows'[k].deposit = escrows[k].deposit
             /\ Exists(k) /\ Exists(k)'
    <3>1. escrows[e] # None
      BY <2>1, NoneIsNoRow
    <3>2. [escrows[e] EXCEPT !.status = "releasing"] \in Rows
      BY <2>1, RowUpdate DEF Statuses
    <3>3. /\ [escrows[e] EXCEPT !.status = "releasing"] # None
          /\ [escrows[e] EXCEPT !.status = "releasing"].status = "releasing"
          /\ [escrows[e] EXCEPT !.status = "releasing"].deposit = escrows[e].deposit
      BY <2>1, <3>2, NoneIsNoRow DEF Rows
    <3>. QED
      BY <1>4, <2>1, <3>1, <3>3 DEF ReleaseFlip, IInv, TypeInv, TypeOK, Exists
  <2>3. \A k \in EscrowIds : phaseOf'[k] = phaseOf[k] /\ fundingOf'[k] = fundingOf[k]
    BY <2>2, Views DEF View, Exists
  <2>. QED
    BY <2>1, <2>3 DEF PromiseStep, phaseOf, fundingOf, Promise!promise
<1>5. ASSUME NEW i \in Invocations, ReleaseSettle(i) PROVE PromiseStep
  <2> DEFINE e == target[i]
             new == [escrows[e] EXCEPT !.status = "released", !.txs = txs[i]]
  <2>1. /\ e \in EscrowIds /\ escrows[e] \in Rows /\ UNCHANGED chain /\ txs[i] \in TxPairs
        /\ Delivered(e)
    BY <1>5 DEF ReleaseSettle, IInv, TypeInv, TypeOK, Located, Justified, JustifiedAt,
                ReleasePhases, PayPhases, worldVars
  <2>2. CASE UNCHANGED escrows
    BY <1>1, <2>1, <2>2
  <2>3. CASE escrows[e].status = "releasing" /\ escrows' = [escrows EXCEPT ![e] = new]
    <3>1. new \in Rows /\ new # None /\ new.status = "released" /\ new.deposit = escrows[e].deposit
      <4>1. new \in Rows
        BY <2>1, RowUpdate DEF Statuses
      <4>. QED
        BY <2>1, <4>1, NoneIsNoRow DEF Rows
    <3> HIDE DEF new
    <3>2. escrows'[e] = new /\ \A k \in EscrowIds \ {e} : escrows'[k] = escrows[k]
      BY <2>1, <2>3 DEF IInv, TypeInv, TypeOK
    <3>3. phaseOf[e] = "held"
      BY <2>1, <2>3, Views DEF View, Delivered
    <3>4. phaseOf' = [phaseOf EXCEPT ![e] = "settled"]
      <4>1. phaseOf'[e] = "settled"
        BY <2>1, <3>1, <3>2, Views DEF View, Delivered, Exists
      <4>2. \A k \in EscrowIds \ {e} : phaseOf'[k] = phaseOf[k]
        BY <3>2, Views DEF View, Exists
      <4>. QED
        BY <4>1, <4>2 DEF phaseOf
    <3>5. fundingOf' = fundingOf
      <4>1. \A k \in EscrowIds : fundingOf'[k] = fundingOf[k]
        BY <2>1, <3>1, <3>2, Views DEF View, Delivered, Exists
      <4>. QED
        BY <4>1 DEF fundingOf
    <3>6. /\ txs[i].release \in chain /\ txs[i].release = ReleaseTransfer(e, escrows[e])
          /\ txs[i].fee \in chain /\ txs[i].fee.key = FeeKey(e)
      BY <1>5 DEF ReleaseSettle, IInv, Progress, ProgressAt
    <3>7. txs[i].fee = FeeTransfer(e, escrows[e], txs[i].fee.to)
      BY <2>1, <3>6, FeeKeyDetermines DEF IInv
    <3>8. /\ txs[i].release.escrow = e /\ txs[i].release.purpose = "escrow_release"
          /\ txs[i].fee.escrow = e /\ txs[i].fee.purpose = "escrow_fee"
      BY <3>6, <3>7 DEF ReleaseTransfer, FeeTransfer
    <3>9. \A p \in Promise!Purposes : \E t \in chain : t.escrow = e /\ t.purpose = p
      BY <3>6, <3>8 DEF Promise!Purposes
    <3>. QED
      BY <2>1, <3>3, <3>4, <3>5, <3>9 DEF PromiseStep, Promise!Next, Promise!Settle
  <2>4. \/ UNCHANGED escrows
        \/ escrows[e].status = "releasing" /\ escrows' = [escrows EXCEPT ![e] = new]
    BY <1>5, <2>1 DEF ReleaseSettle, IInv, TypeInv, TypeOK
  <2>. QED
    BY <2>2, <2>3, <2>4
<1>6. \/ UNCHANGED escrows
      \/ \E i \in Invocations, k \in EscrowIds : LockInsert(i, k)
      \/ \E i \in Invocations : ReleaseFlip(i) \/ ReleaseSettle(i)
  BY DEF Next, ReleaseStep, DepositLands, SealReceipt, LockVerify, LockConflict, ReleaseRead,
         ReleasePay, ReleaseFee, ReleaseLog, ReleaseLogLost,
         ReleaseSign, Fails, dbVars, vars
<1>7. CASE UNCHANGED escrows
  <2>1. TypeInv /\ Justified
    BY DEF IInv
  <2>. QED
    BY <1>1, <1>3, <1>7, <2>1, SendStep
<1>. QED
  BY <1>2, <1>4, <1>5, <1>6, <1>7

\* The lock and release handlers implement the promise of EscrowPromise.
THEOREM KeepsThePromise == Spec => KeepsPromise
<1>1. Init => Promise!Init
  BY InitPromise
<1>2. IInv /\ [Next]_vars => [Promise!Next]_(Promise!promise)
  <2>1. IInv /\ [Next]_vars => Forward
    BY StepMovesForward DEF IInv
  <2>. QED
    BY <2>1, StepPromise
<1>. QED
  BY <1>1, <1>2, Inductive, PTL DEF Spec, KeepsPromise, Promise!Spec
=============================================================================
