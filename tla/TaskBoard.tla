------------------------------ MODULE TaskBoard ------------------------------
(***************************************************************************)
(* The task board with credit escrow: post, claim, submit, approve,        *)
(* reject, cancel and the lazy timeouts, run by any number of concurrent   *)
(* serverless invocations over the tables tasks, participants and          *)
(* pow_chain.  An action is the code between two awaits and an invocation  *)
(* may fail at any await.  An UPDATE of tasks may fail too, and only the   *)
(* claim's looks at its error: the others carry on as if it had happened.  *)
(*                                                                         *)
(* A handler changes a task first and balances after, one by one: the      *)
(* balances still to change are a sequence in its memory, and changing     *)
(* one is a read and a write (adjustCredits).  Only the claim's update     *)
(* looks at the status it overwrites.                                      *)
(*                                                                         *)
(* Left out, because the board never reads them: transactions rows,        *)
(* notifications, tasks_completed and last_active.                         *)
(***************************************************************************)
EXTENDS Integers, Sequences, FiniteSets

CONSTANTS
  Tasks,         \* task ids, random and fresh
  Participants,  \* rows of participants
  Callers,       \* participants that call the board
  Treasury,      \* platform-treasury
  ReferredBy,    \* the human who referred an agent, or None
  Rewards,       \* rewards a poster may offer
  Start,         \* balances to start with
  Invocations,   \* concurrent handler invocations
  MaxWrites,     \* bound: balance writes of a kind, of one task to one participant
  None

ASSUME BoardAssumption ==
  /\ Treasury \in Participants
  /\ Callers \subseteq Participants
  /\ ReferredBy \in [Participants -> Participants \cup {None}]
  /\ Rewards \subseteq 5..500
  /\ Start \in [Participants -> Nat]
  /\ MaxWrites \in [{"claim", "pay", "refund"} -> Nat]
  /\ IsFiniteSet(Invocations)
  /\ None \notin Tasks \cup Participants

VARIABLES
  quiet,    \* tasks no two calls about which overlap, and whose UPDATEs succeed
  tasks,    \* tasks, None where no row has that id
  late,     \* tasks whose expires_at or approve_deadline has passed
  credits,  \* participants.credits
  pow,      \* links of each participant's pow_chain
  wrote,    \* history: balance writes, by task, kind (mirrors and bonuses apart), participant
  paid,     \* history: rewards paid, of each task and to each participant
  pc,       \* await each invocation stands at
  at,       \* the task and caller it serves, and the row it read
  todo,     \* balance changes still to make
  seen      \* the balance adjustCredits read

vars == <<quiet, tasks, late, credits, pow, wrote, paid, pc, at, todo, seen>>

-----------------------------------------------------------------------------
(* Amounts and rows *)

CLAIM_COST == 1

\* 5% of the reward, floored.
Fee(reward) == (reward * 5) \div 100

\* 25% of a credit goes to the human who referred the agent.
Mirror(amount) == amount \div 4

\* powChainCreditBonus, of the chain length after this task.
Bonus(length) == IF length > 11 THEN 20 ELSE (length - 1) * 2

Statuses == {"open", "claimed", "submitted", "completed", "expired"}
Kinds == {"escrow", "claim", "pay", "fee", "refund"}

\* author is whose work result holds.
Rows == [poster : Participants \cup {None}, reward : Rewards, status : Statuses,
         worker : Participants \cup {None}, author : Participants \cup {None}]

\* None stands for no row.
ASSUME NoneIsNoRow == None \notin Rows

OpenRow(poster, reward) ==
  [poster |-> poster, reward |-> reward, status |-> "open",
   worker |-> None, author |-> None]

Exists(t) == tasks[t] # None
Is(t, status) == Exists(t) /\ tasks[t].status = status

Change(who, amount, kind) == [who |-> who, amount |-> amount, kind |-> kind]

\* mirrorCreditToOperator: nothing where there is no referrer or it floors to 0.
Mirrored(who, amount) ==
  IF who \in Participants /\ ReferredBy[who] # None /\ Mirror(amount) > 0
    THEN <<Change(ReferredBy[who], Mirror(amount), "mirror")>> ELSE <<>>

\* payoutSubmittedTask, the fee taken out of the reward.
Payout(row) ==
  LET net == row.reward - Fee(row.reward) IN
  <<Change(row.worker, net, "pay")>>
  \o (IF Fee(row.reward) > 0 THEN <<Change(Treasury, Fee(row.reward), "fee")>> ELSE <<>>)
  \o Mirrored(row.worker, net)

BonusFor(who, length) ==
  IF Bonus(length) > 0
    THEN <<Change(who, Bonus(length), "bonus")>> \o Mirrored(who, Bonus(length))
    ELSE <<>>

-----------------------------------------------------------------------------
Init ==
  /\ quiet \in SUBSET Tasks
  /\ tasks \in [Tasks -> {None} \cup {OpenRow(None, r) : r \in Rewards}]
  /\ late = {}
  /\ credits = Start
  /\ pow = [p \in Participants |-> 0]
  /\ wrote = [t \in Tasks |-> [kind \in Kinds |-> [p \in Participants |-> 0]]]
  /\ paid = [of |-> [t \in Tasks |-> 0], to |-> [p \in Participants |-> 0]]
  /\ pc = [i \in Invocations |-> "idle"]
  /\ at = [i \in Invocations |-> None]
  /\ todo = [i \in Invocations |-> <<>>]
  /\ seen = [i \in Invocations |-> None]

\* The clock passes the deadline a row stands at.
TimePasses(t) ==
  /\ Is(t, "claimed") \/ Is(t, "submitted")
  /\ t \notin late
  /\ late' = late \cup {t}
  /\ UNCHANGED <<quiet, tasks, credits, pow, wrote, paid, pc, at, todo, seen>>

Goto(i, await) == pc' = [pc EXCEPT ![i] = await]

\* The invocation's answer leaves and its memory goes.
Forget(i) ==
  /\ Goto(i, "idle")
  /\ at' = [at EXCEPT ![i] = None]
  /\ todo' = [todo EXCEPT ![i] = <<>>]
  /\ seen' = [seen EXCEPT ![i] = None]

\* Killed, timed out, or an await that throws: nothing written is undone.
Fails(i) ==
  /\ pc[i] # "idle"
  /\ Forget(i)
  /\ UNCHANGED <<quiet, tasks, late, credits, pow, wrote, paid>>

\* Bounds the calls that lead to one more balance write of this kind; payments
\* for a quiet task are left to the code.
Within(t, kind) ==
  \/ kind = "pay" /\ t \in quiet
  \/ \A p \in Participants : wrote[t][kind][p] < MaxWrites[kind]

\* Tasks some invocation serves.
Served == {at[j].task : j \in {k \in Invocations : pc[k] # "idle"}}

\* A handler reads task t for caller a and goes to the next await; next is
\* where it goes once the balances are changed.
Enter(i, t, a, row, next) ==
  /\ pc[i] = "idle"
  /\ t \in quiet => t \notin Served
  /\ at' = [at EXCEPT ![i] = [task |-> t, agent |-> a, row |-> row, next |-> next]]
  /\ UNCHANGED <<quiet, tasks, late, credits, pow, wrote, paid, seen>>

\* A handler's UPDATE of the row it serves, its error ignored.
Write(i, row) ==
  \/ /\ tasks' = [tasks EXCEPT ![at[i].task] = row]
     /\ late' = late \ {at[i].task}
  \/ /\ at[i].task \notin quiet
     /\ UNCHANGED <<tasks, late>>

\* The balances to change after a task is written, or the end.
Then(i, changes, next) ==
  /\ todo' = [todo EXCEPT ![i] = changes]
  /\ at' = [at EXCEPT ![i] = [@ EXCEPT !.next = next]]
  /\ Goto(i, "adjust")
  /\ UNCHANGED seen

-----------------------------------------------------------------------------
(* adjustCredits: for a participant that exists, a read and a write *)

AdjustRead(i) ==
  /\ pc[i] = "adjust"
  /\ todo[i] # <<>>
  /\ Head(todo[i]).who \in Participants
  /\ seen' = [seen EXCEPT ![i] = credits[Head(todo[i]).who]]
  /\ Goto(i, "write")
  /\ UNCHANGED <<quiet, tasks, late, credits, pow, wrote, paid, at, todo>>

AdjustWrite(i) ==
  LET c == Head(todo[i]) IN
  /\ pc[i] = "write"
  /\ credits' = [credits EXCEPT ![c.who] = seen[i] + c.amount]
  /\ wrote' = IF c.kind \in Kinds THEN [wrote EXCEPT ![at[i].task][c.kind][c.who] = @ + 1]
                                 ELSE wrote
  /\ paid' = IF c.kind = "pay" THEN [of |-> [paid.of EXCEPT ![at[i].task] = @ + 1],
                                     to |-> [paid.to EXCEPT ![c.who] = @ + 1]]
                               ELSE paid
  /\ todo' = [todo EXCEPT ![i] = Tail(@)]
  /\ seen' = [seen EXCEPT ![i] = None]
  /\ Goto(i, "adjust")
  /\ UNCHANGED <<quiet, tasks, late, pow, at>>

\* mirrorCreditToOperator gives nothing when it cannot read agent or human.
MirrorSkipped(i) ==
  /\ pc[i] = "adjust"
  /\ todo[i] # <<>>
  /\ Head(todo[i]).kind = "mirror"
  /\ todo' = [todo EXCEPT ![i] = Tail(@)]
  /\ UNCHANGED <<quiet, tasks, late, credits, pow, wrote, paid, pc, at, seen>>

\* No balance left to change.
Adjusted(i) ==
  /\ pc[i] = "adjust"
  /\ todo[i] = <<>>
  /\ IF at[i].next = "idle" THEN Forget(i)
                            ELSE Goto(i, at[i].next) /\ UNCHANGED <<at, todo, seen>>
  /\ UNCHANGED <<quiet, tasks, late, credits, pow, wrote, paid>>

-----------------------------------------------------------------------------
(* postTask *)

\* The poster is charged before the row is inserted.
Post(i, t, p, reward) ==
  /\ ~Exists(t)
  /\ t \notin Served
  /\ \A who \in Participants : wrote[t]["escrow"][who] = 0
  /\ credits[p] >= reward
  /\ Enter(i, t, p, OpenRow(p, reward), "insert")
  /\ todo' = [todo EXCEPT ![i] = <<Change(p, -reward, "escrow")>>]
  /\ Goto(i, "adjust")

PostInsert(i) ==
  /\ pc[i] = "insert"
  /\ tasks' = [tasks EXCEPT ![at[i].task] = at[i].row]
  /\ Forget(i)
  /\ UNCHANGED <<quiet, late, credits, pow, wrote, paid>>

-----------------------------------------------------------------------------
(* cancelTask *)

\* Refused when completed, submitted or claimed.
Cancel(i, t, p) ==
  /\ Exists(t)
  /\ tasks[t].poster = p
  /\ tasks[t].status \notin {"completed", "submitted", "claimed"}
  /\ Within(t, "refund")
  /\ Enter(i, t, p, tasks[t], "cancel")
  /\ Goto(i, "cancel")
  /\ UNCHANGED todo

CancelWrite(i) ==
  /\ pc[i] = "cancel"
  /\ Write(i, [tasks[at[i].task] EXCEPT !.status = "expired"])
  /\ Then(i, <<Change(at[i].agent, at[i].row.reward, "refund")>>, "idle")
  /\ UNCHANGED <<quiet, credits, pow, wrote, paid>>

-----------------------------------------------------------------------------
(* claimTask *)

\* Open, or claimed and expired: then releaseIfExpired comes first.
Claim(i, t, a) ==
  /\ Is(t, "open") \/ (Is(t, "claimed") /\ t \in late)
  /\ Within(t, "claim")
  /\ Enter(i, t, a, tasks[t], "claimant")
  /\ Goto(i, IF Is(t, "open") THEN "claimant" ELSE "reopen")
  /\ UNCHANGED todo

\* Not the poster's own, and the claimant can pay for the claim.
ClaimCheck(i) ==
  /\ pc[i] = "claimant"
  /\ at[i].row.poster # at[i].agent
  /\ credits[at[i].agent] >= CLAIM_COST
  /\ Goto(i, "claim")
  /\ UNCHANGED <<quiet, tasks, late, credits, pow, wrote, paid, at, todo, seen>>

\* UPDATE ... WHERE id = t AND status = 'open'; nobody else wins the claim.
ClaimWrite(i) ==
  LET t == at[i].task IN
  /\ pc[i] = "claim"
  /\ Is(t, "open")
  /\ tasks' = [tasks EXCEPT ![t] = [@ EXCEPT !.status = "claimed", !.worker = at[i].agent]]
  /\ late' = late \ {t}
  /\ Then(i, <<Change(at[i].agent, -CLAIM_COST, "claim")>>, "idle")
  /\ UNCHANGED <<quiet, credits, pow, wrote, paid>>

\* Mutant: claimed_by stays.
ReopenClaimed(i) ==
  LET t == at[i].task IN
  /\ pc[i] = "reopen"
  /\ Write(i, [tasks[t] EXCEPT !.status = "open"])
  /\ IF at[i].next = "idle" THEN Forget(i)
                            ELSE Goto(i, at[i].next) /\ UNCHANGED <<at, todo, seen>>
  /\ UNCHANGED <<quiet, credits, pow, wrote, paid>>

\* releaseIfExpired and submitTask's own expiry: UPDATE ... WHERE id = t.
Reopen(i) ==
  LET t == at[i].task IN
  /\ pc[i] = "reopen"
  /\ Write(i, [tasks[t] EXCEPT !.status = "open", !.worker = None])
  /\ IF at[i].next = "idle" THEN Forget(i)
                            ELSE Goto(i, at[i].next) /\ UNCHANGED <<at, todo, seen>>
  /\ UNCHANGED <<quiet, credits, pow, wrote, paid>>

-----------------------------------------------------------------------------
(* submitTask *)

\* Mutant: the caller need not hold the claim.
SubmitAnyone(i, t, a) ==
  /\ Is(t, "claimed")
  /\ Enter(i, t, a, tasks[t], "idle")
  /\ Goto(i, IF t \in late THEN "reopen" ELSE "submit")
  /\ UNCHANGED todo

\* The caller holds the claim; an expired claim is reopened and refused.
Submit(i, t, a) ==
  /\ Is(t, "claimed")
  /\ tasks[t].worker = a
  /\ Enter(i, t, a, tasks[t], "idle")
  /\ Goto(i, IF t \in late THEN "reopen" ELSE "submit")
  /\ UNCHANGED todo

SubmitWrite(i) ==
  LET t == at[i].task IN
  /\ pc[i] = "submit"
  /\ Write(i, [tasks[t] EXCEPT !.status = "submitted", !.author = at[i].agent])
  /\ Forget(i)
  /\ UNCHANGED <<quiet, credits, pow, wrote, paid>>

-----------------------------------------------------------------------------
(* getTask, approveTask and rejectTask *)

\* getTask: any read reopens an expired claim or pays an overdue submission.
Get(i, t) ==
  /\ t \in late
  /\ Is(t, "claimed") \/ Is(t, "submitted")
  /\ Within(t, "pay")
  /\ Enter(i, t, None, tasks[t], "idle")
  /\ Goto(i, IF Is(t, "claimed") THEN "reopen" ELSE "complete")
  /\ UNCHANGED todo

\* Mutant: a task already completed is approved again.
ApproveAgain(i, t, p) ==
  /\ Is(t, "submitted") \/ Is(t, "completed")
  /\ tasks[t].poster = p
  /\ Within(t, "pay")
  /\ Enter(i, t, p, tasks[t], "idle")
  /\ Goto(i, "complete")
  /\ UNCHANGED todo

\* approveTask: overdue or not, the submission is paid.
Approve(i, t, p) ==
  /\ Is(t, "submitted")
  /\ tasks[t].poster = p
  /\ Within(t, "pay")
  /\ Enter(i, t, p, tasks[t], "idle")
  /\ Goto(i, "complete")
  /\ UNCHANGED todo

\* Mutant: the refund comes before the task is closed.
RejectRefundsFirst(i) ==
  /\ pc[i] = "reject"
  /\ Then(i, <<Change(at[i].agent, at[i].row.reward, "refund")>>, "cancel")
  /\ UNCHANGED <<quiet, tasks, late, credits, pow, wrote, paid>>

\* rejectTask: an overdue submission is paid instead.
Reject(i, t, p) ==
  /\ Is(t, "submitted")
  /\ tasks[t].poster = p
  /\ Within(t, "pay")
  /\ Within(t, "refund")
  /\ Enter(i, t, p, tasks[t], "idle")
  /\ Goto(i, IF t \in late THEN "complete" ELSE "reject")
  /\ UNCHANGED todo

RejectWrite(i) ==
  /\ pc[i] = "reject"
  /\ Write(i, [tasks[at[i].task] EXCEPT !.status = "expired"])
  /\ Then(i, <<Change(at[i].agent, at[i].row.reward, "refund")>>, "idle")
  /\ UNCHANGED <<quiet, credits, pow, wrote, paid>>

\* Mutant: the chain is extended before the worker is paid.
CompleteLinksFirst(i) ==
  /\ pc[i] = "complete"
  /\ Write(i, [tasks[at[i].task] EXCEPT !.status = "completed"])
  /\ at[i].row.worker \in Participants
  /\ pow' = [pow EXCEPT ![at[i].row.worker] = @ + 1]
  /\ Then(i, Payout(at[i].row), "bonus")
  /\ UNCHANGED <<quiet, credits, wrote, paid>>

\* payoutSubmittedTask: the status, then the worker, the fee and the referrer.
CompleteWrite(i) ==
  /\ pc[i] = "complete"
  /\ Write(i, [tasks[at[i].task] EXCEPT !.status = "completed"])
  /\ Then(i, Payout(at[i].row), "pow")
  /\ UNCHANGED <<quiet, credits, pow, wrote, paid>>

\* generatePoW: two inserts of one link conflict and one of them throws.
PowLink(i) ==
  /\ pc[i] = "pow"
  /\ pow' = [pow EXCEPT ![at[i].row.worker] = @ + 1]
  /\ Goto(i, "bonus")
  /\ UNCHANGED <<quiet, tasks, late, credits, wrote, paid, at, todo, seen>>

\* verifyPoWChain's length makes the bonus; a read that fails is a chain of 0.
PowBonus(i) ==
  /\ pc[i] = "bonus"
  /\ \E length \in {0, pow[at[i].row.worker]} :
       Then(i, BonusFor(at[i].row.worker, length), "idle")
  /\ UNCHANGED <<quiet, tasks, late, credits, pow, wrote, paid>>

-----------------------------------------------------------------------------
Call(i) ==
  \/ \E t \in Tasks, p \in Callers, r \in Rewards : Post(i, t, p, r)
  \/ \E t \in Tasks, p \in Callers : Cancel(i, t, p)
  \/ \E t \in Tasks, a \in Callers : Claim(i, t, a)
  \/ \E t \in Tasks, a \in Callers : Submit(i, t, a)
  \/ \E t \in Tasks : Get(i, t)
  \/ \E t \in Tasks, p \in Callers : Approve(i, t, p)
  \/ \E t \in Tasks, p \in Callers : Reject(i, t, p)

Continue(i) ==
  \/ AdjustRead(i) \/ AdjustWrite(i) \/ MirrorSkipped(i) \/ Adjusted(i)
  \/ PostInsert(i)
  \/ CancelWrite(i)
  \/ ClaimCheck(i) \/ ClaimWrite(i) \/ Reopen(i)
  \/ SubmitWrite(i)
  \/ RejectWrite(i)
  \/ CompleteWrite(i) \/ PowLink(i) \/ PowBonus(i)
  \/ Fails(i)

Next ==
  \/ \E i \in Invocations : Call(i) \/ Continue(i)
  \/ \E t \in Tasks : TimePasses(t)

Spec == Init /\ [][Next]_vars

-----------------------------------------------------------------------------
(* Properties *)

Awaits == {"idle", "adjust", "write", "insert", "cancel", "claimant", "claim", "reopen",
           "submit", "complete", "reject", "pow", "bonus"}

\* What an invocation keeps of the task it serves; also not None.
Jobs == [task : Tasks, agent : Participants \cup {None}, row : Rows, next : Awaits]

ASSUME NoneIsNoJob == None \notin Jobs

TypeOK ==
  /\ quiet \subseteq Tasks
  /\ tasks \in [Tasks -> Rows \cup {None}]
  /\ late \subseteq {t \in Tasks : Exists(t)}
  /\ \A t \in quiet : Is(t, "open") => tasks[t].worker = None /\ t \notin late
  /\ credits \in [Participants -> Int]
  /\ pow \in [Participants -> Nat]
  /\ wrote \in [Tasks -> [Kinds -> [Participants -> Nat]]]
  /\ paid \in [of : [Tasks -> Nat], to : [Participants -> Nat]]
  /\ pc \in [Invocations -> Awaits]
  /\ at \in [Invocations -> Jobs \cup {None}]
  /\ \A i \in Invocations :
       /\ at[i] = None <=> pc[i] = "idle"
       /\ pc[i] = "write" => todo[i] # <<>> /\ seen[i] \in Int

Wrote(t, kind) == {p \in Participants : wrote[t][kind][p] > 0}

\* PaidOnce, of the reward.
RewardOnce ==
  \A t \in quiet :
    /\ \A p, q \in Wrote(t, "pay") : p = q /\ wrote[t]["pay"][p] = 1
    /\ Wrote(t, "pay") # {} => tasks[t].status = "completed" /\ Wrote(t, "refund") = {}

\* While calls about a task do not overlap and its rows are written, its reward
\* is paid out once, to one worker, and never both paid out and refunded,
\* whatever expires and at whatever await a handler dies.  The fee never comes
\* without a payment, however the calls overlap.
PaidOnce ==
  /\ RewardOnce
  /\ \A t \in Tasks : wrote[t]["fee"][Treasury] <= paid.of[t]

\* Whoever is paid for a task claimed it and did the work its result holds; and
\* nobody is ever paid for a task of his own, however the calls overlap.
PaidForOwnWork ==
  \A t \in Tasks : \A p \in Wrote(t, "pay") :
    /\ tasks[t].poster # p
    /\ t \in quiet => tasks[t].author = p /\ tasks[t].worker = p

\* A task somebody posted has been charged to its poster, once, before anyone
\* sees it, and its escrow is untouched until it is completed or expired.
EscrowHeld ==
  \A t \in Tasks : Exists(t) /\ tasks[t].poster # None =>
    /\ Wrote(t, "escrow") = {tasks[t].poster} /\ wrote[t]["escrow"][tasks[t].poster] = 1
    /\ t \in quiet /\ tasks[t].status \in {"open", "claimed", "submitted"} =>
         Wrote(t, "pay") \cup Wrote(t, "fee") \cup Wrote(t, "refund") = {}

\* Every link of a proof-of-work chain, the basis of bonus and trust, stands for
\* a payment for a task, however the calls overlap.
ChainIsPaidWork == \A p \in Participants : pow[p] <= paid.to[p]

\* A posted task's reward goes back to its poster at most once.
RefundedOnce ==
  \A t \in Tasks, p \in Participants : wrote[t]["refund"][p] <= 1
=============================================================================
