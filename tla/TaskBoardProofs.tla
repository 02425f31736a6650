--------------------------- MODULE TaskBoardProofs ---------------------------
(***************************************************************************)
(* Proofs about TaskBoard for every number of tasks, participants and      *)
(* concurrent invocations, and every reward.  Argument: until its row is   *)
(* inserted a task is known to the call that posts it alone (Posting); a   *)
(* row keeps its poster from then on, and whoever claims it is not he      *)
(* (NotOwn), so what a handler read of both stays true at every later      *)
(* await.  For a quiet task the handler is alone, and what it still owes   *)
(* (QuietJob) and what was written (QuietTask) follow from the status.     *)
(* On that rests a count, for all tasks alike: a link or a fee that was    *)
(* written or is still owed had a payment of its own (Debts).              *)
(***************************************************************************)
EXTENDS TaskBoard, SequenceTheorems, FiniteSetTheorems, TLAPS

Changes == [who : Participants \cup {None}, amount : Int, kind : Kinds \cup {"mirror", "bonus"}]

Shapes ==
  /\ quiet \subseteq Tasks
  /\ tasks \in [Tasks -> Rows \cup {None}]
  /\ late \subseteq {t \in Tasks : Exists(t)}
  /\ credits \in [Participants -> Int]
  /\ pow \in [Participants -> Nat]
  /\ wrote \in [Tasks -> [Kinds -> [Participants -> Nat]]]
  /\ paid \in [of : [Tasks -> Nat], to : [Participants -> Nat]]
  /\ pc \in [Invocations -> Awaits]
  /\ at \in [Invocations -> Jobs \cup {None}]
  /\ todo \in [Invocations -> Seq(Changes)]
  /\ seen \in [Invocations -> Int \cup {None}]

\* What an invocation's variables have to do with each other.
Held(i) ==
  /\ at[i] = None <=> pc[i] = "idle"
  /\ pc[i] \notin {"adjust", "write"} => todo[i] = <<>>
  /\ pc[i] = "write" => todo[i] # <<>> /\ seen[i] \in Int /\ todo[i][1].who \in Participants

NotOwn(row) == row.worker \in Participants => row.worker # row.poster

ChargedTo(t, p) ==
  \A q \in Participants : wrote[t]["escrow"][q] = IF q = p THEN 1 ELSE 0

Posting(i) == at[i] # None /\ at[i].next = "insert"

\* The call that posts a task: its poster is charged, then the row inserted.
Posts(i) ==
  LET t == at[i].task  p == at[i].agent IN
  /\ pc[i] \in {"adjust", "write", "insert"}
  /\ ~Exists(t) /\ p \in Participants /\ at[i].row = OpenRow(p, at[i].row.reward)
  /\ \/ /\ todo[i] = <<Change(p, -at[i].row.reward, "escrow")>>
        /\ \A q \in Participants : wrote[t]["escrow"][q] = 0
     \/ todo[i] = <<>> /\ ChargedTo(t, p)

\* Any other call: what it read of poster and worker, where it goes, and whom
\* it still has to pay.
Serves(i) ==
  LET t == at[i].task  row == at[i].row IN
  /\ Exists(t) /\ row.poster = tasks[t].poster /\ NotOwn(row)
  /\ pc[i] # "insert"
  /\ pc[i] \in {"adjust", "write"} => at[i].next \in {"idle", "pow"}
  /\ pc[i] = "reopen" => at[i].next \in {"idle", "claimant"}
  /\ pc[i] \in {"pow", "bonus"} => row.worker \in Participants
  /\ pc[i] = "claim" => at[i].agent # row.poster
  /\ \A n \in DOMAIN todo[i] : /\ todo[i][n].kind # "escrow"
                               /\ todo[i][n].kind = "pay" => n = 1 /\ todo[i][n].who = row.worker
  /\ pc[i] \in {"adjust", "write"} /\ at[i].next = "pow" /\ row.worker \notin Participants =>
       todo[i] # <<>> /\ todo[i][1].kind = "pay"

\* A call about a quiet task: the status it stands at, and what it owes.
QuietJob(i) ==
  LET t == at[i].task IN
  /\ pc[i] = "cancel" => tasks[t].status \in {"open", "expired"}
  /\ pc[i] = "reopen" => tasks[t].status = "claimed"
  /\ pc[i] = "submit" => tasks[t].status = "claimed" /\ tasks[t].worker = at[i].agent
  /\ pc[i] \in {"complete", "reject"} => tasks[t].status = "submitted"
  /\ pc[i] = "complete" => at[i].row.worker = tasks[t].worker
  /\ \A n \in DOMAIN todo[i] :
       /\ todo[i][n].kind \in {"pay", "fee"} => tasks[t].status = "completed"
       /\ todo[i][n].kind = "refund" => tasks[t].status = "expired"
       /\ todo[i][n].kind = "pay" => /\ at[i].row.worker = tasks[t].worker
                                     /\ \A q \in Participants : wrote[t]["pay"][q] = 0

JobOK(i) ==
  at[i] # None =>
    /\ Posting(i) => Posts(i)
    /\ ~Posting(i) => Serves(i)
    /\ ~Posting(i) /\ at[i].task \in quiet => QuietJob(i)

\* The row of a quiet task, and what was written for it.
QuietTask(t) ==
  LET row == tasks[t] IN
  /\ row.status = "open" => row.worker = None
  /\ row.status \in {"submitted", "completed"} => row.author = row.worker
  /\ row.status \in {"open", "claimed", "submitted"} =>
       \A q \in Participants, kind \in {"pay", "fee", "refund"} : wrote[t][kind][q] = 0
  /\ row.status = "expired" => \A q \in Participants : wrote[t]["pay"][q] = 0
  /\ row.status = "completed" => \A q \in Participants :
       /\ wrote[t]["refund"][q] = 0
       /\ wrote[t]["pay"][q] > 0 => wrote[t]["pay"][q] = 1 /\ q = row.worker

TaskOK(t) ==
  /\ ~Exists(t) =>
       \A q \in Participants, kind \in Kinds \ {"escrow"} : wrote[t][kind][q] = 0
  /\ Exists(t) =>
       /\ NotOwn(tasks[t])
       /\ tasks[t].poster # None => ChargedTo(t, tasks[t].poster)
       /\ \A q \in Participants : wrote[t]["pay"][q] > 0 => tasks[t].poster # q
       /\ tasks[t].status = "open" => t \notin late
       /\ t \in quiet => QuietTask(t)

\* A task that is quiet or being posted is one call's.
Alone ==
  \A i, j \in Invocations :
    /\ at[i] # None /\ at[j] # None /\ at[i].task = at[j].task
    /\ at[i].task \in quiet \/ Posting(i)
    => i = j

IInv ==
  /\ Shapes /\ Alone
  /\ \A i \in Invocations : Held(i) /\ JobOK(i)
  /\ \A t \in Tasks : TaskOK(t)

-----------------------------------------------------------------------------
(* Amounts *)

LEMMA FeeInt == ASSUME NEW r \in Rewards PROVE r \in Int /\ Fee(r) \in Int
BY BoardAssumption DEF Fee

LEMMA MirrorShape ==
  ASSUME NEW who \in Participants \cup {None}, NEW amount \in Int
  PROVE  /\ Mirrored(who, amount) \in Seq(Changes)
         /\ \A n \in DOMAIN Mirrored(who, amount) : Mirrored(who, amount)[n].kind = "mirror"
<1>1. CASE who \in Participants /\ ReferredBy[who] # None /\ Mirror(amount) > 0
  <2>. PICK c \in Changes : c = Change(ReferredBy[who], Mirror(amount), "mirror")
    <3>1. ReferredBy[who] \in Participants \cup {None} /\ Mirror(amount) \in Int
      BY <1>1, BoardAssumption DEF Mirror
    <3>2. Change(ReferredBy[who], Mirror(amount), "mirror") \in Changes
      BY <3>1 DEF Change, Changes
    <3>. QED
      BY <3>2
  <2>1. Mirrored(who, amount) = <<c>> /\ c.kind = "mirror"
    BY <1>1 DEF Mirrored, Change
  <2>. QED
    BY <2>1
<1>2. CASE ~(who \in Participants /\ ReferredBy[who] # None /\ Mirror(amount) > 0)
  BY <1>2 DEF Mirrored
<1>. QED
  BY <1>1, <1>2

\* Two sequences one after the other, the kinds of each known.
LEMMA Joined ==
  ASSUME NEW s \in Seq(Changes), NEW u \in Seq(Changes), NEW K,
         \A n \in DOMAIN s : s[n].kind \in K, \A n \in DOMAIN u : u[n].kind \in K
  PROVE  s \o u \in Seq(Changes) /\ \A n \in DOMAIN (s \o u) : (s \o u)[n].kind \in K
<1>1. /\ s \o u \in Seq(Changes) /\ Len(s \o u) = Len(s) + Len(u)
      /\ \A n \in 1..Len(s) + Len(u) :
           (s \o u)[n] = IF n <= Len(s) THEN s[n] ELSE u[n - Len(s)]
  OBVIOUS
<1>2. DOMAIN s = 1..Len(s) /\ DOMAIN u = 1..Len(u) /\ DOMAIN (s \o u) = 1..Len(s \o u)
      /\ Len(s) \in Nat /\ Len(u) \in Nat
  BY <1>1
<1>3. ASSUME NEW n \in 1..Len(s) + Len(u) PROVE (s \o u)[n].kind \in K
  <2>1. CASE n <= Len(s)
    BY <1>1, <1>2, <2>1
  <2>2. CASE ~(n <= Len(s))
    <3>1. n - Len(s) \in DOMAIN u
      BY <1>2, <2>2
    <3>. QED
      BY <1>1, <2>2, <3>1
  <2>. QED
    BY <2>1, <2>2
<1>. QED
  BY <1>1, <1>2, <1>3

\* The worker is paid first; then come a fee and a mirror, or neither.
LEMMA PayoutShape ==
  ASSUME NEW row \in Rows
  PROVE  /\ Payout(row) \in Seq(Changes) /\ Payout(row) # <<>>
         /\ Payout(row)[1].kind = "pay" /\ Payout(row)[1].who = row.worker
         /\ \A n \in DOMAIN Payout(row) : n # 1 => Payout(row)[n].kind \in {"fee", "mirror"}
         /\ \A n \in DOMAIN Payout(row) : n > 2 => Payout(row)[n].kind = "mirror"
<1>. DEFINE r == row.reward
            net == r - Fee(r)
            fee == IF Fee(r) > 0 THEN <<Change(Treasury, Fee(r), "fee")>> ELSE <<>>
            rest == fee \o Mirrored(row.worker, net)
<1>1. row.worker \in Participants \cup {None} /\ r \in Rewards /\ net \in Int /\ Fee(r) \in Int
  BY FeeInt DEF Rows
<1>2. fee \in Seq(Changes) /\ \A n \in DOMAIN fee : fee[n].kind \in {"fee", "mirror"}
  <2>1. Change(Treasury, Fee(r), "fee") \in Changes /\ Change(Treasury, Fee(r), "fee").kind = "fee"
    BY <1>1, BoardAssumption DEF Change, Changes, Kinds
  <2>. QED
    BY <2>1
<1>3. rest \in Seq(Changes) /\ \A n \in DOMAIN rest : rest[n].kind \in {"fee", "mirror"}
  <2>. HIDE DEF fee, net
  <2>1. /\ Mirrored(row.worker, net) \in Seq(Changes)
        /\ \A n \in DOMAIN Mirrored(row.worker, net) :
             Mirrored(row.worker, net)[n].kind \in {"fee", "mirror"}
    BY <1>1, MirrorShape
  <2>. QED
    BY <1>2, <2>1, Joined
<1>4. \A m \in DOMAIN rest : m > 1 => rest[m].kind = "mirror"
  <2>. PICK mirrors \in Seq(Changes) :
         /\ mirrors = Mirrored(row.worker, net)
         /\ \A n \in DOMAIN mirrors : mirrors[n].kind = "mirror"
    BY <1>1, MirrorShape
  <2>1. Len(fee) \in {0, 1}
    <3>1. CASE Fee(r) > 0
      <4>1. fee = <<Change(Treasury, Fee(r), "fee")>>
        BY <3>1
      <4>. QED
        BY <4>1
    <3>2. CASE ~(Fee(r) > 0)
      BY <3>2
    <3>. QED
      BY <3>1, <3>2
  <2>2. rest = fee \o mirrors
    OBVIOUS
  <2>. HIDE DEF fee, net, rest
  <2>3. ASSUME NEW m \in DOMAIN rest, m > 1 PROVE rest[m].kind = "mirror"
    <3>1. /\ m \in 1..Len(fee) + Len(mirrors) /\ m > Len(fee) /\ m - Len(fee) \in DOMAIN mirrors
          /\ rest[m] = mirrors[m - Len(fee)]
      BY <1>2, <2>1, <2>2, <2>3
    <3>. QED
      BY <3>1
  <2>. QED
    BY <2>3
<1>5. PICK c \in Changes : c = Change(row.worker, net, "pay")
  <2>1. Change(row.worker, net, "pay") \in Changes
    BY <1>1 DEF Change, Changes, Kinds
  <2>. QED
    BY <2>1
<1>6. c.kind = "pay" /\ c.who = row.worker
  BY <1>5 DEF Change
<1>7. Payout(row) = <<c>> \o rest
  <2>1. Payout(row) = (<<c>> \o fee) \o Mirrored(row.worker, net)
    BY <1>5 DEF Payout
  <2>2. /\ <<c>> \in Seq(Changes) /\ fee \in Seq(Changes)
        /\ Mirrored(row.worker, net) \in Seq(Changes)
    BY <1>1, <1>2, <1>5, MirrorShape
  <2>. HIDE DEF fee, net
  <2>. QED
    BY <2>1, <2>2, ConcatAssociative
<1>. HIDE DEF rest
<1>8. /\ <<c>> \o rest \in Seq(Changes) /\ Len(<<c>> \o rest) = 1 + Len(rest)
      /\ (<<c>> \o rest)[1] = c /\ Len(rest) \in Nat
      /\ \A n \in 1..1 + Len(rest) : n # 1 =>
           n - 1 \in DOMAIN rest /\ (<<c>> \o rest)[n] = rest[n - 1]
  BY <1>3
<1>9. DOMAIN (<<c>> \o rest) = 1..1 + Len(rest) /\ <<c>> \o rest # <<>>
  BY <1>8
<1>. QED
  BY <1>3, <1>4, <1>6, <1>7, <1>8, <1>9

LEMMA BonusShape ==
  ASSUME NEW who \in Participants, NEW length \in Nat
  PROVE  /\ BonusFor(who, length) \in Seq(Changes)
         /\ \A n \in DOMAIN BonusFor(who, length) :
              BonusFor(who, length)[n].kind \in {"bonus", "mirror"}
<1>1. Bonus(length) \in Int
  BY DEF Bonus
<1>2. PICK c \in Changes : c = Change(who, Bonus(length), "bonus") /\ c.kind = "bonus"
  <2>1. /\ Change(who, Bonus(length), "bonus") \in Changes
        /\ Change(who, Bonus(length), "bonus").kind = "bonus"
    BY <1>1 DEF Change, Changes
  <2>. QED
    BY <2>1
<1>3. <<c>> \in Seq(Changes) /\ \A n \in DOMAIN <<c>> : <<c>>[n].kind \in {"bonus", "mirror"}
  BY <1>2
<1>4. /\ Mirrored(who, Bonus(length)) \in Seq(Changes)
      /\ \A n \in DOMAIN Mirrored(who, Bonus(length)) :
           Mirrored(who, Bonus(length))[n].kind \in {"bonus", "mirror"}
  BY <1>1, MirrorShape
<1>5. CASE Bonus(length) > 0
  <2>1. BonusFor(who, length) = <<c>> \o Mirrored(who, Bonus(length))
    BY <1>2, <1>5 DEF BonusFor
  <2>. QED
    BY <1>3, <1>4, <2>1, Joined
<1>6. CASE ~(Bonus(length) > 0)
  BY <1>6 DEF BonusFor
<1>. QED
  BY <1>5, <1>6

-----------------------------------------------------------------------------
(* What the invariant says *)

LEMMA InvTypes == ASSUME IInv PROVE TypeOK
<1>1. \A t \in quiet : Is(t, "open") => tasks[t].worker = None /\ t \notin late
  BY DEF IInv, Shapes, TaskOK, QuietTask, Is
<1>2. \A i \in Invocations : /\ at[i] = None <=> pc[i] = "idle"
                             /\ pc[i] = "write" => todo[i] # <<>> /\ seen[i] \in Int
  BY DEF IInv, Held
<1>. QED
  BY <1>1, <1>2 DEF IInv, Shapes, TypeOK

\* What was written is a number.
LEMMA Numbers ==
  ASSUME IInv PROVE \A t \in Tasks, kind \in Kinds, q \in Participants : wrote[t][kind][q] \in Nat
BY DEF IInv, Shapes

LEMMA InvOwnWork == ASSUME IInv PROVE PaidForOwnWork
<1>. SUFFICES ASSUME NEW t \in Tasks, NEW p \in Wrote(t, "pay")
              PROVE  /\ tasks[t].poster # p
                     /\ t \in quiet => tasks[t].author = p /\ tasks[t].worker = p
  BY DEF PaidForOwnWork
<1>1. p \in Participants /\ wrote[t]["pay"][p] > 0
  BY DEF Wrote
<1>2. wrote[t]["pay"][p] # 0
  BY <1>1, Numbers DEF Kinds
<1>3. Exists(t)
  BY <1>1, <1>2 DEF IInv, TaskOK, Kinds
<1>4. tasks[t].poster # p
  BY <1>1, <1>3 DEF IInv, TaskOK
<1>5. ASSUME t \in quiet PROVE tasks[t].author = p /\ tasks[t].worker = p
  <2>1. QuietTask(t) /\ tasks[t].status \in Statuses
    BY <1>3, <1>5 DEF IInv, TaskOK, Shapes, Exists, Rows
  <2>2. tasks[t].status = "completed"
    BY <1>1, <1>2, <2>1 DEF QuietTask, Statuses
  <2>. QED
    BY <1>1, <2>1, <2>2 DEF QuietTask
<1>. QED
  BY <1>4, <1>5

LEMMA InvRewardOnce == ASSUME IInv PROVE RewardOnce
<1>. SUFFICES ASSUME NEW t \in quiet, NEW p \in Wrote(t, "pay")
              PROVE  /\ \A q \in Wrote(t, "pay") : p = q
                     /\ wrote[t]["pay"][p] = 1
                     /\ tasks[t].status = "completed" /\ Wrote(t, "refund") = {}
  BY DEF RewardOnce
<1>1. t \in Tasks /\ p \in Participants /\ wrote[t]["pay"][p] > 0
  BY DEF IInv, Shapes, Wrote
<1>2. wrote[t]["pay"][p] # 0
  BY <1>1, Numbers DEF Kinds
<1>3. Exists(t)
  BY <1>1, <1>2 DEF IInv, TaskOK, Kinds
<1>4. QuietTask(t) /\ tasks[t].status \in Statuses
  BY <1>1, <1>3 DEF IInv, TaskOK, Shapes, Exists, Rows
<1>5. tasks[t].status = "completed"
  BY <1>1, <1>2, <1>4 DEF QuietTask, Statuses
<1>6. \A q \in Wrote(t, "pay") : q = tasks[t].worker /\ wrote[t]["pay"][q] = 1
  BY <1>4, <1>5 DEF QuietTask, Wrote
<1>7. Wrote(t, "refund") = {}
  BY <1>4, <1>5 DEF QuietTask, Wrote
<1>. QED
  BY <1>5, <1>6, <1>7

LEMMA InvEscrow == ASSUME IInv PROVE EscrowHeld
<1>. SUFFICES ASSUME NEW t \in Tasks, Exists(t), tasks[t].poster # None
              PROVE  /\ Wrote(t, "escrow") = {tasks[t].poster}
                     /\ wrote[t]["escrow"][tasks[t].poster] = 1
                     /\ t \in quiet /\ tasks[t].status \in {"open", "claimed", "submitted"} =>
                          Wrote(t, "pay") \cup Wrote(t, "fee") \cup Wrote(t, "refund") = {}
  BY DEF EscrowHeld
<1>1. ChargedTo(t, tasks[t].poster) /\ tasks[t].poster \in Participants
  BY DEF IInv, TaskOK, Shapes, Exists, Rows
<1>2. ASSUME t \in quiet, tasks[t].status \in {"open", "claimed", "submitted"}
      PROVE  Wrote(t, "pay") \cup Wrote(t, "fee") \cup Wrote(t, "refund") = {}
  BY <1>2 DEF IInv, TaskOK, QuietTask, Wrote
<1>3. Wrote(t, "escrow") = {tasks[t].poster}
  BY <1>1 DEF ChargedTo, Wrote
<1>. QED
  BY <1>1, <1>2, <1>3 DEF ChargedTo

-----------------------------------------------------------------------------
(* Frames *)

LEMMA InitInv == ASSUME Init PROVE IInv
<1>. PICK start \in [Tasks -> {None} \cup {OpenRow(None, r) : r \in Rewards}] : start = tasks
  BY DEF Init
<1>1. \A r \in Rewards : /\ OpenRow(None, r) \in Rows /\ OpenRow(None, r).poster = None
                         /\ OpenRow(None, r).worker = None /\ OpenRow(None, r).status = "open"
  BY DEF OpenRow, Rows, Statuses
<1>2. /\ tasks \in [Tasks -> Rows \cup {None}]
      /\ \A t \in Tasks : Exists(t) => /\ tasks[t].poster = None /\ tasks[t].worker = None
                                       /\ tasks[t].status = "open"
  BY <1>1 DEF Exists
<1>3. \A t \in Tasks, kind \in Kinds, q \in Participants : wrote[t][kind][q] = 0
  BY DEF Init
<1>4. Shapes
  <2>1. /\ quiet \subseteq Tasks /\ late = {} /\ pc \in [Invocations -> Awaits]
        /\ at \in [Invocations -> Jobs \cup {None}] /\ todo \in [Invocations -> Seq(Changes)]
        /\ seen \in [Invocations -> Int \cup {None}]
    BY DEF Init, Awaits
  <2>2. credits \in [Participants -> Int] /\ pow \in [Participants -> Nat]
    BY BoardAssumption DEF Init
  <2>3. /\ wrote \in [Tasks -> [Kinds -> [Participants -> Nat]]]
        /\ paid \in [of : [Tasks -> Nat], to : [Participants -> Nat]]
    BY DEF Init
  <2>. QED
    BY <1>2, <2>1, <2>2, <2>3 DEF Shapes
<1>5. \A i \in Invocations : Held(i) /\ JobOK(i)
  BY DEF Init, Held, JobOK
<1>6. \A t \in Tasks : TaskOK(t)
  <2>. SUFFICES ASSUME NEW t \in Tasks PROVE TaskOK(t)
    OBVIOUS
  <2>1. Exists(t) => NotOwn(tasks[t])
    BY <1>2, BoardAssumption DEF NotOwn
  <2>2. Exists(t) => QuietTask(t)
    BY <1>2, <1>3 DEF QuietTask, Kinds
  <2>3. ~(0 > 0) /\ "pay" \in Kinds /\ late = {}
    BY DEF Kinds, Init
  <2>. QED
    BY <1>2, <1>3, <2>1, <2>2, <2>3 DEF TaskOK
<1>7. Alone
  BY DEF Init, Alone
<1>. QED
  BY <1>4, <1>5, <1>6, <1>7 DEF IInv

\* A step that changes at most task t, without its poster, and invocation i,
\* which serves t, leaves the other tasks and invocations as they should be.
LEMMA Frame ==
  ASSUME IInv, NEW i \in Invocations, at[i] # None, NEW t \in Tasks, t = at[i].task,
         quiet' = quiet,
         \A u \in Tasks \ {t} : tasks'[u] = tasks[u] /\ (u \in late' => u \in late),
         \A u \in Tasks \ {t}, kind \in Kinds, q \in Participants :
           wrote'[u][kind][q] = wrote[u][kind][q],
         Exists(t) => Exists(t)' /\ tasks'[t].poster = tasks[t].poster,
         \A j \in Invocations \ {i} :
           pc'[j] = pc[j] /\ at'[j] = at[j] /\ todo'[j] = todo[j] /\ seen'[j] = seen[j]
  PROVE  /\ \A u \in Tasks \ {t} : TaskOK(u)'
         /\ \A j \in Invocations \ {i} : Held(j)' /\ JobOK(j)'
<1>1. ASSUME NEW u \in Tasks \ {t} PROVE TaskOK(u)'
  <2>1. TaskOK(u)
    BY DEF IInv
  <2>2. Exists(u)' <=> Exists(u)
    BY DEF Exists
  <2>3. {"pay", "fee", "refund", "escrow"} \subseteq Kinds
    BY DEF Kinds
  <2>4. QuietTask(u) => QuietTask(u)'
    BY <2>3 DEF QuietTask
  <2>5. ChargedTo(u, tasks[u].poster) => ChargedTo(u, tasks[u].poster)'
    BY <2>3 DEF ChargedTo
  <2>. QED
    BY <2>1, <2>2, <2>3, <2>4, <2>5 DEF TaskOK, NotOwn
<1>2. ASSUME NEW j \in Invocations \ {i} PROVE Held(j)'
  BY DEF IInv, Held
<1>3. ASSUME NEW j \in Invocations \ {i} PROVE JobOK(j)'
  <2>. SUFFICES ASSUME at'[j] # None PROVE JobOK(j)'
    BY DEF JobOK
  <2>1. at[j] # None /\ at'[j] = at[j] /\ pc'[j] = pc[j] /\ todo'[j] = todo[j] /\ JobOK(j)
    BY DEF IInv
  <2>2. PICK u \in Tasks : u = at[j].task
    BY <2>1 DEF IInv, Shapes, Jobs
  <2>3. Posting(j)' <=> Posting(j)
    BY <2>1 DEF Posting
  <2>4. "escrow" \in Kinds /\ "pay" \in Kinds
    BY DEF Kinds
  <2>5. Posting(j) \/ u \in quiet => u # t
    BY <2>1, <2>2 DEF IInv, Alone
  <2>6. Posting(j) => Posts(j)'
    <3>1. SUFFICES ASSUME Posting(j) PROVE Posts(j)'
      OBVIOUS
    <3>2. u # t /\ Posts(j)
      BY <2>1, <2>5, <3>1 DEF JobOK
    <3>3. Exists(u)' <=> Exists(u)
      BY <3>2 DEF Exists
    <3>4. ChargedTo(u, at[j].agent) => ChargedTo(u, at[j].agent)'
      BY <2>1, <2>4, <3>2 DEF ChargedTo
    <3>. QED
      BY <2>1, <2>2, <2>4, <3>2, <3>3, <3>4 DEF Posts
  <2>7. ~Posting(j) => Serves(j)'
    <3>1. SUFFICES ASSUME ~Posting(j) PROVE Serves(j)'
      OBVIOUS
    <3>2. Serves(j)
      BY <2>1, <3>1 DEF JobOK
    <3>3. Exists(u)' /\ tasks'[u].poster = tasks[u].poster
      BY <2>2, <3>2 DEF Serves, Exists
    <3>. QED
      BY <2>1, <2>2, <3>2, <3>3 DEF Serves, NotOwn
  <2>8. ~Posting(j) /\ u \in quiet => QuietJob(j)'
    <3>1. SUFFICES ASSUME ~Posting(j), u \in quiet PROVE QuietJob(j)'
      OBVIOUS
    <3>2. QuietJob(j) /\ u # t
      BY <2>1, <2>2, <2>5, <3>1 DEF JobOK
    <3>. QED
      BY <2>1, <2>2, <2>4, <3>2 DEF QuietJob
  <2>. QED
    BY <2>1, <2>2, <2>3, <2>6, <2>7, <2>8 DEF JobOK
<1>. QED
  BY <1>1, <1>2, <1>3

\* Such a step keeps the invariant if the task and the invocation are as they
\* should be.
LEMMA OneStep ==
  ASSUME IInv, NEW i \in Invocations, at[i] # None, NEW t \in Tasks, t = at[i].task,
         quiet' = quiet,
         \A u \in Tasks \ {t} : tasks'[u] = tasks[u] /\ (u \in late' => u \in late),
         \A u \in Tasks \ {t}, kind \in Kinds, q \in Participants :
           wrote'[u][kind][q] = wrote[u][kind][q],
         Exists(t) => Exists(t)' /\ tasks'[t].poster = tasks[t].poster,
         \A j \in Invocations \ {i} :
           pc'[j] = pc[j] /\ at'[j] = at[j] /\ todo'[j] = todo[j] /\ seen'[j] = seen[j],
         at'[i] # None => at'[i].task = t /\ (at'[i].next = "insert" => at[i].next = "insert"),
         Shapes', TaskOK(t)', Held(i)', JobOK(i)'
  PROVE  IInv'
<1>1. /\ \A u \in Tasks \ {t} : TaskOK(u)'
      /\ \A j \in Invocations \ {i} : Held(j)' /\ JobOK(j)'
  BY Frame
<1>2. \A j \in Invocations : at'[j] # None => /\ at[j] # None /\ at'[j].task = at[j].task
                                              /\ Posting(j)' => Posting(j)
  BY DEF Posting
<1>3. Alone'
  BY <1>2 DEF IInv, Alone
<1>4. \A u \in Tasks : TaskOK(u)'
  BY <1>1
<1>5. \A j \in Invocations : Held(j)' /\ JobOK(j)'
  BY <1>1
<1>. QED
  BY <1>3, <1>4, <1>5 DEF IInv

\* A call begins: it reads task t.
LEMMA EnterInv ==
  ASSUME IInv, NEW i \in Invocations, at[i] = None, NEW t \in Tasks, at'[i].task = t,
         at'[i] # None, UNCHANGED <<quiet, tasks, late, wrote, paid>>,
         \A j \in Invocations \ {i} :
           pc'[j] = pc[j] /\ at'[j] = at[j] /\ todo'[j] = todo[j] /\ seen'[j] = seen[j],
         t \in quiet \/ at'[i].next = "insert" => t \notin Served,
         at'[i].next # "insert" => Exists(t),
         Shapes', Held(i)', JobOK(i)'
  PROVE  IInv'
<1>1. \A u \in Tasks : TaskOK(u)'
  BY DEF IInv, TaskOK, Exists, NotOwn, ChargedTo, QuietTask
<1>2. ASSUME NEW j \in Invocations \ {i} PROVE Held(j)' /\ JobOK(j)'
  <2>1. pc'[j] = pc[j] /\ at'[j] = at[j] /\ todo'[j] = todo[j] /\ seen'[j] = seen[j]
    OBVIOUS
  <2>2. Held(j) /\ JobOK(j)
    BY DEF IInv
  <2>3. Held(j)'
    BY <2>1, <2>2 DEF Held
  <2>4. /\ Posting(j)' <=> Posting(j)
        /\ Posts(j) => Posts(j)'
        /\ Serves(j) => Serves(j)'
        /\ QuietJob(j) => QuietJob(j)'
    BY <2>1 DEF Posting, Posts, Serves, QuietJob, Exists, ChargedTo, NotOwn
  <2>. QED
    BY <2>1, <2>2, <2>3, <2>4 DEF JobOK
<1>3. \A j \in Invocations \ {i} : at[j] # None /\ at[j].task = t =>
        t \in Served /\ (Posting(j) => ~Exists(t))
  BY DEF IInv, Held, Served, JobOK, Posts
<1>4. Alone'
  <2>. SUFFICES ASSUME NEW j \in Invocations, NEW k \in Invocations,
                       at'[j] # None, at'[k] # None, at'[j].task = at'[k].task,
                       at'[j].task \in quiet \/ Posting(j)'
                PROVE  j = k
    BY DEF Alone
  <2>1. CASE j # i /\ k # i
    BY <2>1 DEF IInv, Alone, Posting
  <2>2. CASE j = i /\ k # i
    BY <1>3, <2>2 DEF Posting
  <2>3. CASE j # i /\ k = i
    BY <1>3, <2>3 DEF Posting
  <2>. QED
    BY <2>1, <2>2, <2>3
<1>. QED
  BY <1>1, <1>2, <1>4 DEF IInv

\* What Forget does.
LEMMA Forgets ==
  ASSUME IInv, NEW i \in Invocations, Forget(i)
  PROVE  /\ pc' \in [Invocations -> Awaits] /\ at' \in [Invocations -> Jobs \cup {None}]
         /\ todo' \in [Invocations -> Seq(Changes)] /\ seen' \in [Invocations -> Int \cup {None}]
         /\ at'[i] = None /\ Held(i)' /\ JobOK(i)'
         /\ \A j \in Invocations \ {i} :
              pc'[j] = pc[j] /\ at'[j] = at[j] /\ todo'[j] = todo[j] /\ seen'[j] = seen[j]
<1>1. /\ pc' \in [Invocations -> Awaits] /\ at' \in [Invocations -> Jobs \cup {None}]
      /\ todo' \in [Invocations -> Seq(Changes)] /\ seen' \in [Invocations -> Int \cup {None}]
  BY DEF Forget, Goto, IInv, Shapes, Awaits
<1>2. /\ at'[i] = None /\ pc'[i] = "idle" /\ todo'[i] = <<>>
      /\ \A j \in Invocations \ {i} :
           pc'[j] = pc[j] /\ at'[j] = at[j] /\ todo'[j] = todo[j] /\ seen'[j] = seen[j]
  BY DEF Forget, Goto, IInv, Shapes
<1>. QED
  BY <1>1, <1>2 DEF Held, JobOK

\* What Then does.
LEMMA Thens ==
  ASSUME IInv, NEW i \in Invocations, NEW changes \in Seq(Changes), NEW next \in Awaits,
         at[i] # None, Then(i, changes, next)
  PROVE  /\ pc' \in [Invocations -> Awaits] /\ at' \in [Invocations -> Jobs \cup {None}]
         /\ todo' \in [Invocations -> Seq(Changes)] /\ seen' \in [Invocations -> Int \cup {None}]
         /\ at'[i] # None /\ Held(i)' /\ pc'[i] = "adjust" /\ todo'[i] = changes
         /\ at'[i].next = next /\ at'[i].task = at[i].task /\ at'[i].agent = at[i].agent
         /\ at'[i].row = at[i].row
         /\ \A j \in Invocations \ {i} :
              pc'[j] = pc[j] /\ at'[j] = at[j] /\ todo'[j] = todo[j] /\ seen'[j] = seen[j]
<1>1. PICK job \in Jobs : job = at[i]
  BY DEF IInv, Shapes
<1>2. PICK new \in Jobs : new = [job EXCEPT !.next = next]
  <2>1. [job EXCEPT !.next = next] \in Jobs
    BY DEF Jobs
  <2>. QED
    BY <2>1
<1>3. /\ new # None /\ new.next = next /\ new.task = job.task /\ new.agent = job.agent
      /\ new.row = job.row
  BY <1>2, NoneIsNoJob DEF Jobs
<1>4. at' = [at EXCEPT ![i] = new]
  BY <1>1, <1>2 DEF Then, IInv, Shapes
<1>5. /\ pc' = [pc EXCEPT ![i] = "adjust"] /\ todo' = [todo EXCEPT ![i] = changes] /\ seen' = seen
  BY DEF Then, Goto
<1>6. /\ pc' \in [Invocations -> Awaits] /\ at' \in [Invocations -> Jobs \cup {None}]
      /\ todo' \in [Invocations -> Seq(Changes)] /\ seen' \in [Invocations -> Int \cup {None}]
      /\ at'[i] = new /\ pc'[i] = "adjust" /\ todo'[i] = changes
      /\ \A j \in Invocations \ {i} :
           pc'[j] = pc[j] /\ at'[j] = at[j] /\ todo'[j] = todo[j] /\ seen'[j] = seen[j]
  BY <1>4, <1>5 DEF IInv, Shapes, Awaits
<1>. QED
  BY <1>1, <1>3, <1>6 DEF Held

-----------------------------------------------------------------------------
(* Calls *)

\* What Enter and Goto do.
LEMMA Enters ==
  ASSUME IInv, NEW i \in Invocations, NEW t \in Tasks, NEW a \in Participants \cup {None},
         NEW row \in Rows, NEW next \in Awaits, NEW await \in Awaits \ {"idle"},
         Enter(i, t, a, row, next), Goto(i, await)
  PROVE  /\ pc' \in [Invocations -> Awaits] /\ at' \in [Invocations -> Jobs \cup {None}]
         /\ pc[i] = "idle" /\ at[i] = None /\ todo[i] = <<>>
         /\ at'[i] # None /\ at'[i].task = t /\ at'[i].agent = a /\ at'[i].row = row
         /\ at'[i].next = next /\ pc'[i] = await
         /\ \A j \in Invocations \ {i} : pc'[j] = pc[j] /\ at'[j] = at[j]
         /\ (t \in quiet => t \notin Served)
         /\ UNCHANGED <<quiet, tasks, late, credits, pow, wrote, paid, seen>>
<1>. PICK job : job = [task |-> t, agent |-> a, row |-> row, next |-> next]
  OBVIOUS
<1>1. /\ job \in Jobs /\ job # None /\ job.task = t /\ job.agent = a /\ job.row = row
      /\ job.next = next
  BY NoneIsNoJob DEF Jobs
<1>2. /\ at' = [at EXCEPT ![i] = job] /\ pc' = [pc EXCEPT ![i] = await] /\ pc[i] = "idle"
      /\ (t \in quiet => t \notin Served)
      /\ UNCHANGED <<quiet, tasks, late, credits, pow, wrote, paid, seen>>
  BY DEF Enter, Goto
<1>3. /\ pc' \in [Invocations -> Awaits] /\ at' \in [Invocations -> Jobs \cup {None}]
      /\ at'[i] = job /\ pc'[i] = await
      /\ \A j \in Invocations \ {i} : pc'[j] = pc[j] /\ at'[j] = at[j]
  BY <1>1, <1>2 DEF IInv, Shapes
<1>4. at[i] = None /\ todo[i] = <<>>
  BY <1>2 DEF IInv, Held
<1>. QED
  BY <1>1, <1>2, <1>3, <1>4

\* A call that reads the row of its task.
LEMMA ReadInv ==
  ASSUME IInv, NEW i \in Invocations, NEW t \in Tasks, NEW a \in Participants \cup {None},
         NEW next \in {"idle", "claimant", "cancel"},
         NEW await \in {"cancel", "claimant", "reopen", "submit", "complete", "reject"},
         Exists(t), Enter(i, t, a, tasks[t], next), Goto(i, await), UNCHANGED todo,
         await = "cancel" => tasks[t].status \in {"open", "expired"},
         await = "reopen" => tasks[t].status = "claimed" /\ next # "cancel",
         await = "submit" => tasks[t].status = "claimed" /\ tasks[t].worker = a,
         await \in {"complete", "reject"} => tasks[t].status = "submitted"
  PROVE  IInv'
<1>1. PICK row \in Rows : row = tasks[t]
  BY DEF IInv, Shapes, Exists
<1>2. next \in Awaits /\ await \in Awaits \ {"idle"}
  BY DEF Awaits
<1>3. /\ pc' \in [Invocations -> Awaits] /\ at' \in [Invocations -> Jobs \cup {None}]
      /\ at[i] = None /\ todo[i] = <<>>
      /\ at'[i] # None /\ at'[i].task = t /\ at'[i].agent = a /\ at'[i].row = row
      /\ at'[i].next = next /\ pc'[i] = await
      /\ \A j \in Invocations \ {i} : pc'[j] = pc[j] /\ at'[j] = at[j]
      /\ (t \in quiet => t \notin Served)
      /\ UNCHANGED <<quiet, tasks, late, credits, pow, wrote, paid, seen>>
  BY <1>1, <1>2, Enters
<1>4. Shapes'
  BY <1>3 DEF IInv, Shapes, Exists
<1>5. Held(i)'
  BY <1>3 DEF Held
<1>6. NotOwn(row) /\ ~Posting(i)'
  BY <1>1, <1>3 DEF IInv, TaskOK, Posting
<1>7. Serves(i)'
  BY <1>1, <1>3, <1>6 DEF Serves, Exists, NotOwn
<1>8. QuietJob(i)'
  BY <1>1, <1>3 DEF QuietJob
<1>9. JobOK(i)'
  BY <1>6, <1>7, <1>8 DEF JobOK
<1>. QED
  BY <1>3, <1>4, <1>5, <1>9, EnterInv

\* The calls about a task that has a row: all but Post.
LEMMA CallsInv ==
  ASSUME IInv, NEW i \in Invocations, NEW t \in Tasks, NEW a \in Callers \cup {None},
         \/ Cancel(i, t, a) \/ Claim(i, t, a) \/ Submit(i, t, a) \/ Get(i, t)
         \/ Approve(i, t, a) \/ Reject(i, t, a)
  PROVE  IInv'
<1>1. a \in Participants \cup {None} /\ None \in Participants \cup {None}
  BY BoardAssumption
<1>2. Exists(t) => tasks[t].status \in Statuses
  BY DEF IInv, Shapes, Exists, Rows
<1>3. CASE Cancel(i, t, a)
  <2>1. Exists(t) /\ tasks[t].status \in {"open", "expired"}
    BY <1>2, <1>3 DEF Cancel, Statuses
  <2>. QED
    BY <1>1, <1>3, <2>1, ReadInv DEF Cancel
<1>4. CASE Claim(i, t, a)
  <2>1. PICK await \in {"claimant", "reopen"} :
          Goto(i, await) /\ (await = "reopen" => tasks[t].status = "claimed")
    BY <1>4 DEF Claim, Is
  <2>. QED
    BY <1>1, <1>4, <2>1, ReadInv DEF Claim, Is
<1>5. CASE Submit(i, t, a)
  <2>1. PICK await \in {"submit", "reopen"} : Goto(i, await)
    BY <1>5 DEF Submit
  <2>. QED
    BY <1>1, <1>5, <2>1, ReadInv DEF Submit, Is
<1>6. CASE Get(i, t)
  <2>1. PICK await \in {"complete", "reopen"} :
          /\ Goto(i, await)
          /\ tasks[t].status = IF await = "reopen" THEN "claimed" ELSE "submitted"
    BY <1>6 DEF Get, Is
  <2>. QED
    BY <1>1, <1>6, <2>1, ReadInv DEF Get, Is
<1>7. CASE Approve(i, t, a)
  BY <1>1, <1>7, ReadInv DEF Approve, Is
<1>8. CASE Reject(i, t, a)
  <2>1. PICK await \in {"complete", "reject"} : Goto(i, await)
    BY <1>8 DEF Reject
  <2>. QED
    BY <1>1, <1>8, <2>1, ReadInv DEF Reject, Is
<1>. QED
  BY <1>3, <1>4, <1>5, <1>6, <1>7, <1>8

LEMMA PostInv ==
  ASSUME IInv, NEW i \in Invocations, NEW t \in Tasks, NEW p \in Callers, NEW r \in Rewards,
         Post(i, t, p, r)
  PROVE  IInv'
<1>1. p \in Participants /\ r \in Int
  BY BoardAssumption
<1>2. PICK row \in Rows : row = OpenRow(p, r) /\ row.reward = r
  <2>1. OpenRow(p, r) \in Rows /\ OpenRow(p, r).reward = r
    BY <1>1 DEF OpenRow, Rows, Statuses
  <2>. QED
    BY <2>1
<1>3. PICK c \in Changes : c = Change(p, -r, "escrow")
  <2>1. Change(p, -r, "escrow") \in Changes
    BY <1>1 DEF Change, Changes, Kinds
  <2>. QED
    BY <2>1
<1>4. "insert" \in Awaits /\ "adjust" \in Awaits \ {"idle"}
  BY DEF Awaits
<1>5. /\ pc' \in [Invocations -> Awaits] /\ at' \in [Invocations -> Jobs \cup {None}]
      /\ at[i] = None
      /\ at'[i] # None /\ at'[i].task = t /\ at'[i].agent = p /\ at'[i].row = row
      /\ at'[i].next = "insert" /\ pc'[i] = "adjust"
      /\ \A j \in Invocations \ {i} : pc'[j] = pc[j] /\ at'[j] = at[j]
      /\ UNCHANGED <<quiet, tasks, late, credits, pow, wrote, paid, seen>>
  BY <1>1, <1>2, <1>4, Enters DEF Post
<1>6. /\ todo' \in [Invocations -> Seq(Changes)] /\ todo'[i] = <<c>>
      /\ \A j \in Invocations \ {i} : todo'[j] = todo[j]
  BY <1>3 DEF Post, IInv, Shapes
<1>7. ~Exists(t) /\ t \notin Served /\ \A q \in Participants : wrote[t]["escrow"][q] = 0
  BY DEF Post
<1>8. Shapes'
  BY <1>5, <1>6 DEF IInv, Shapes, Exists
<1>9. Held(i)'
  BY <1>5, <1>6 DEF Held
<1>10. Posting(i)' /\ Posts(i)'
  BY <1>1, <1>2, <1>3, <1>5, <1>6, <1>7 DEF Posting, Posts, Exists
<1>11. JobOK(i)'
  BY <1>10 DEF JobOK
<1>. QED
  BY <1>5, <1>6, <1>7, <1>8, <1>9, <1>11, EnterInv

-----------------------------------------------------------------------------
(* Handlers change the row they serve *)

\* An invocation past its first await, whose task has a row.
LEMMA Serving ==
  ASSUME IInv, NEW i \in Invocations, pc[i] # "idle", pc[i] # "insert",
         pc[i] \notin {"adjust", "write"}
  PROVE  /\ at[i] # None /\ at[i] \in Jobs /\ at[i].task \in Tasks /\ at[i].next # "insert"
         /\ Exists(at[i].task) /\ tasks[at[i].task] \in Rows /\ at[i].row \in Rows
         /\ Serves(i) /\ todo[i] = <<>>
         /\ at[i].task \in quiet => QuietJob(i)
<1>1. at[i] # None /\ at[i] \in Jobs /\ todo[i] = <<>>
  BY DEF IInv, Held, Shapes
<1>2. ~Posting(i)
  BY <1>1 DEF IInv, JobOK, Posts
<1>3. Serves(i) /\ (at[i].task \in quiet => QuietJob(i))
  BY <1>1, <1>2 DEF IInv, JobOK
<1>4. at[i].task \in Tasks /\ at[i].row \in Rows
  BY <1>1 DEF Jobs
<1>5. Exists(at[i].task) /\ tasks[at[i].task] \in Rows
  BY <1>3, <1>4 DEF Serves, Exists, IInv, Shapes
<1>. QED
  BY <1>1, <1>2, <1>3, <1>4, <1>5 DEF Posting

\* A row keeps its poster, and nobody else works on a quiet one.  What its
\* new status asks for was written, or not written, before.
LEMMA RowInv ==
  ASSUME IInv, NEW i \in Invocations, NEW t \in Tasks, t = at[i].task, Exists(t), NEW row \in Rows,
         row.poster = tasks[t].poster, NotOwn(row),
         \/ tasks' = [tasks EXCEPT ![t] = row] /\ late' = late \ {t}
         \/ t \notin quiet /\ UNCHANGED <<tasks, late>>,
         UNCHANGED <<quiet, wrote, paid>>,
         t \in quiet =>
           /\ \/ tasks[t].status \in {"open", "claimed", "submitted"}
              \/ tasks[t].status = "expired" /\ row.status = "expired"
           /\ row.status = "open" => row.worker = None
           /\ row.status \in {"submitted", "completed"} => row.author = row.worker
  PROVE  /\ tasks' \in [Tasks -> Rows \cup {None}] /\ late' \subseteq {u \in Tasks : Exists(u)'}
         /\ \A u \in Tasks \ {t} : tasks'[u] = tasks[u] /\ (u \in late' => u \in late)
         /\ Exists(t)' /\ tasks'[t].poster = tasks[t].poster /\ tasks'[t] \in Rows
         /\ t \in quiet => tasks'[t] = row
         /\ TaskOK(t)'
<1>1. TaskOK(t) /\ row # None
  BY NoneIsNoRow DEF IInv
<1>2. CASE tasks' = [tasks EXCEPT ![t] = row] /\ late' = late \ {t}
  <2>1. /\ tasks' \in [Tasks -> Rows \cup {None}] /\ tasks'[t] = row
        /\ \A u \in Tasks \ {t} : tasks'[u] = tasks[u]
        /\ t \notin late' /\ late' \subseteq late
    BY <1>2 DEF IInv, Shapes
  <2>2. late' \subseteq {u \in Tasks : Exists(u)'}
    BY <1>1, <2>1 DEF IInv, Shapes, Exists
  <2>3. ASSUME t \in quiet PROVE QuietTask(t)'
    <3>1. QuietTask(t) /\ row.status \in Statuses
      BY <1>1, <2>3 DEF TaskOK, Rows
    <3>2. CASE \A q \in Participants, kind \in {"pay", "fee", "refund"} : wrote[t][kind][q] = 0
      BY <2>1, <2>3, <3>2 DEF QuietTask
    <3>3. CASE tasks[t].status = "expired" /\ row.status = "expired"
      BY <2>1, <3>1, <3>3 DEF QuietTask
    <3>. QED
      BY <2>3, <3>1, <3>2, <3>3 DEF QuietTask
  <2>4. TaskOK(t)'
    BY <1>1, <2>1, <2>3 DEF TaskOK, Exists, NotOwn, ChargedTo
  <2>. QED
    BY <1>1, <2>1, <2>2, <2>4 DEF Exists
<1>3. CASE t \notin quiet /\ UNCHANGED <<tasks, late>>
  <2>1. TaskOK(t)'
    BY <1>1, <1>3 DEF TaskOK, Exists, NotOwn, ChargedTo
  <2>. QED
    BY <1>3, <2>1 DEF IInv, Shapes, Exists
<1>. QED
  BY <1>2, <1>3

LEMMA InsertInv ==
  ASSUME IInv, NEW i \in Invocations, PostInsert(i) PROVE IInv'
<1>1. pc[i] = "insert" /\ at[i] # None /\ at[i] \in Jobs
  BY DEF PostInsert, IInv, Held, Shapes
<1>2. Posting(i) /\ Posts(i) /\ todo[i] = <<>>
  BY <1>1 DEF IInv, JobOK, Serves, Held
<1>3. PICK t \in Tasks, row \in Rows : t = at[i].task /\ row = at[i].row
  BY <1>1 DEF Jobs
<1>4. PICK p \in Participants : p = at[i].agent
  BY <1>2 DEF Posts
<1>5. /\ ~Exists(t) /\ ChargedTo(t, p)
      /\ row.poster = p /\ row.worker = None /\ row.status = "open"
  <2>1. ~Exists(t) /\ ChargedTo(t, p)
    BY <1>2, <1>3, <1>4 DEF Posts
  <2>2. row = OpenRow(p, row.reward)
    BY <1>2, <1>3, <1>4 DEF Posts
  <2>3. row.poster = p /\ row.worker = None /\ row.status = "open"
    BY <2>2 DEF OpenRow
  <2>. QED
    BY <2>1, <2>3
<1>6. /\ tasks' = [tasks EXCEPT ![t] = row] /\ UNCHANGED <<quiet, late, credits, pow, wrote, paid>>
      /\ Forget(i)
  BY <1>3 DEF PostInsert
<1>7. /\ tasks' \in [Tasks -> Rows \cup {None}] /\ tasks'[t] = row /\ row # None
      /\ \A u \in Tasks \ {t} : tasks'[u] = tasks[u]
  BY <1>6, NoneIsNoRow DEF IInv, Shapes
<1>8. /\ pc' \in [Invocations -> Awaits] /\ at' \in [Invocations -> Jobs \cup {None}]
      /\ todo' \in [Invocations -> Seq(Changes)] /\ seen' \in [Invocations -> Int \cup {None}]
      /\ at'[i] = None /\ Held(i)' /\ JobOK(i)'
      /\ \A j \in Invocations \ {i} :
           pc'[j] = pc[j] /\ at'[j] = at[j] /\ todo'[j] = todo[j] /\ seen'[j] = seen[j]
  BY <1>6, Forgets
<1>9. t \notin late
  BY <1>5 DEF IInv, Shapes
<1>10. Shapes'
  BY <1>6, <1>7, <1>8 DEF IInv, Shapes, Exists
<1>11. TaskOK(t)'
  <2>1. \A q \in Participants, kind \in {"pay", "fee", "refund"} : wrote[t][kind][q] = 0
    BY <1>5 DEF IInv, TaskOK, Kinds
  <2>2. QuietTask(t)'
    BY <1>5, <1>6, <1>7, <2>1 DEF QuietTask
  <2>3. NotOwn(tasks[t])'
    BY <1>5, <1>7, BoardAssumption DEF NotOwn
  <2>4. ChargedTo(t, p)'
    BY <1>5, <1>6 DEF ChargedTo
  <2>. QED
    BY <1>5, <1>6, <1>7, <1>9, <2>1, <2>2, <2>3, <2>4 DEF TaskOK, Exists, ChargedTo
<1>. QED
  BY <1>1, <1>3, <1>5, <1>6, <1>7, <1>8, <1>10, <1>11, OneStep

\* A task is closed; its poster is to get the reward back.
LEMMA RefundInv ==
  ASSUME IInv, NEW i \in Invocations, CancelWrite(i) \/ RejectWrite(i) PROVE IInv'
<1>1. /\ pc[i] \in {"cancel", "reject"}
      /\ Write(i, [tasks[at[i].task] EXCEPT !.status = "expired"])
      /\ Then(i, <<Change(at[i].agent, at[i].row.reward, "refund")>>, "idle")
      /\ UNCHANGED <<quiet, credits, pow, wrote, paid>>
  BY DEF CancelWrite, RejectWrite
<1>2. /\ at[i] # None /\ at[i] \in Jobs /\ at[i].task \in Tasks /\ at[i].next # "insert"
      /\ Exists(at[i].task) /\ tasks[at[i].task] \in Rows /\ at[i].row \in Rows
      /\ Serves(i) /\ (at[i].task \in quiet => QuietJob(i))
  BY <1>1, Serving
<1>3. PICK t \in Tasks, old \in Rows : t = at[i].task /\ old = tasks[t]
  BY <1>2
<1>4. PICK row \in Rows : row = [old EXCEPT !.status = "expired"]
  <2>1. [old EXCEPT !.status = "expired"] \in Rows
    BY DEF Rows, Statuses
  <2>. QED
    BY <2>1
<1>5. row.poster = old.poster /\ row.worker = old.worker /\ row.status = "expired"
  BY <1>4 DEF Rows
<1>6. NotOwn(row)
  BY <1>2, <1>3, <1>5 DEF IInv, TaskOK, NotOwn
<1>7. \/ tasks' = [tasks EXCEPT ![t] = row] /\ late' = late \ {t}
      \/ t \notin quiet /\ UNCHANGED <<tasks, late>>
  BY <1>1, <1>3, <1>4 DEF Write
<1>8. t \in quiet => tasks[t].status \in {"open", "submitted", "expired"}
  BY <1>1, <1>2, <1>3 DEF QuietJob
<1>9. /\ tasks' \in [Tasks -> Rows \cup {None}] /\ late' \subseteq {u \in Tasks : Exists(u)'}
      /\ \A u \in Tasks \ {t} : tasks'[u] = tasks[u] /\ (u \in late' => u \in late)
      /\ Exists(t)' /\ tasks'[t].poster = tasks[t].poster /\ tasks'[t] \in Rows
      /\ t \in quiet => tasks'[t] = row
      /\ TaskOK(t)'
  BY <1>1, <1>2, <1>3, <1>5, <1>6, <1>7, <1>8, RowInv
<1>10. PICK c \in Changes : c = Change(at[i].agent, at[i].row.reward, "refund")
  <2>1. at[i].row.reward \in Int /\ at[i].agent \in Participants \cup {None}
    BY <1>2, FeeInt DEF Rows, Jobs
  <2>2. Change(at[i].agent, at[i].row.reward, "refund") \in Changes
    BY <2>1 DEF Change, Changes, Kinds
  <2>. QED
    BY <2>2
<1>11. <<c>> \in Seq(Changes) /\ c.kind = "refund" /\ "idle" \in Awaits
  BY <1>10 DEF Change, Awaits
<1>12. /\ pc' \in [Invocations -> Awaits] /\ at' \in [Invocations -> Jobs \cup {None}]
       /\ todo' \in [Invocations -> Seq(Changes)] /\ seen' \in [Invocations -> Int \cup {None}]
       /\ at'[i] # None /\ Held(i)' /\ pc'[i] = "adjust" /\ todo'[i] = <<c>>
       /\ at'[i].next = "idle" /\ at'[i].task = t /\ at'[i].row = at[i].row
       /\ \A j \in Invocations \ {i} :
            pc'[j] = pc[j] /\ at'[j] = at[j] /\ todo'[j] = todo[j] /\ seen'[j] = seen[j]
  BY <1>1, <1>2, <1>3, <1>10, <1>11, Thens
<1>13. Shapes'
  BY <1>1, <1>9, <1>12 DEF IInv, Shapes
<1>14. JobOK(i)'
  <2>1. Serves(i)'
    BY <1>2, <1>3, <1>9, <1>11, <1>12 DEF Serves, NotOwn
  <2>2. QuietJob(i)' \/ t \notin quiet
    BY <1>5, <1>9, <1>11, <1>12 DEF QuietJob
  <2>. QED
    BY <1>1, <1>12, <2>1, <2>2 DEF JobOK, Posting
<1>. QED
  BY <1>1, <1>2, <1>3, <1>9, <1>12, <1>13, <1>14, OneStep

LEMMA SubmitInv ==
  ASSUME IInv, NEW i \in Invocations, SubmitWrite(i) PROVE IInv'
<1>1. /\ pc[i] = "submit" /\ Forget(i) /\ UNCHANGED <<quiet, credits, pow, wrote, paid>>
      /\ Write(i, [tasks[at[i].task] EXCEPT !.status = "submitted", !.author = at[i].agent])
  BY DEF SubmitWrite
<1>2. /\ at[i] # None /\ at[i] \in Jobs /\ at[i].task \in Tasks /\ at[i].next # "insert"
      /\ Exists(at[i].task) /\ tasks[at[i].task] \in Rows
      /\ (at[i].task \in quiet => QuietJob(i))
  BY <1>1, Serving
<1>3. PICK t \in Tasks, old \in Rows, a \in Participants \cup {None} :
        t = at[i].task /\ old = tasks[t] /\ a = at[i].agent
  BY <1>2 DEF Jobs
<1>4. PICK row \in Rows : row = [old EXCEPT !.status = "submitted", !.author = a]
  <2>1. [old EXCEPT !.status = "submitted", !.author = a] \in Rows
    BY DEF Rows, Statuses
  <2>. QED
    BY <2>1
<1>5. /\ row.poster = old.poster /\ row.worker = old.worker /\ row.status = "submitted"
      /\ row.author = a
  BY <1>4 DEF Rows
<1>6. NotOwn(row)
  BY <1>2, <1>3, <1>5 DEF IInv, TaskOK, NotOwn
<1>7. \/ tasks' = [tasks EXCEPT ![t] = row] /\ late' = late \ {t}
      \/ t \notin quiet /\ UNCHANGED <<tasks, late>>
  BY <1>1, <1>3, <1>4 DEF Write
<1>8. t \in quiet => tasks[t].status = "claimed" /\ old.worker = a
  BY <1>1, <1>2, <1>3 DEF QuietJob
<1>9. /\ tasks' \in [Tasks -> Rows \cup {None}] /\ late' \subseteq {u \in Tasks : Exists(u)'}
      /\ \A u \in Tasks \ {t} : tasks'[u] = tasks[u] /\ (u \in late' => u \in late)
      /\ Exists(t)' /\ tasks'[t].poster = tasks[t].poster /\ TaskOK(t)'
  BY <1>1, <1>2, <1>3, <1>5, <1>6, <1>7, <1>8, RowInv
<1>10. /\ pc' \in [Invocations -> Awaits] /\ at' \in [Invocations -> Jobs \cup {None}]
       /\ todo' \in [Invocations -> Seq(Changes)] /\ seen' \in [Invocations -> Int \cup {None}]
       /\ at'[i] = None /\ Held(i)' /\ JobOK(i)'
       /\ \A j \in Invocations \ {i} :
            pc'[j] = pc[j] /\ at'[j] = at[j] /\ todo'[j] = todo[j] /\ seen'[j] = seen[j]
  BY <1>1, Forgets
<1>11. Shapes'
  BY <1>1, <1>9, <1>10 DEF IInv, Shapes
<1>. QED
  BY <1>1, <1>2, <1>3, <1>9, <1>10, <1>11, OneStep

\* The work is accepted; the worker, the fee and the referrer are to be paid.
LEMMA CompleteInv ==
  ASSUME IInv, NEW i \in Invocations, CompleteWrite(i) PROVE IInv'
<1>1. /\ pc[i] = "complete" /\ Then(i, Payout(at[i].row), "pow")
      /\ Write(i, [tasks[at[i].task] EXCEPT !.status = "completed"])
      /\ UNCHANGED <<quiet, credits, pow, wrote, paid>>
  BY DEF CompleteWrite
<1>2. /\ at[i] # None /\ at[i] \in Jobs /\ at[i].task \in Tasks /\ at[i].next # "insert"
      /\ Exists(at[i].task) /\ tasks[at[i].task] \in Rows /\ at[i].row \in Rows
      /\ Serves(i) /\ (at[i].task \in quiet => QuietJob(i))
  BY <1>1, Serving
<1>3. PICK t \in Tasks, old \in Rows, read \in Rows :
        t = at[i].task /\ old = tasks[t] /\ read = at[i].row
  BY <1>2
<1>4. PICK row \in Rows : row = [old EXCEPT !.status = "completed"]
  <2>1. [old EXCEPT !.status = "completed"] \in Rows
    BY DEF Rows, Statuses
  <2>. QED
    BY <2>1
<1>5. /\ row.poster = old.poster /\ row.worker = old.worker /\ row.status = "completed"
      /\ row.author = old.author
  BY <1>4 DEF Rows
<1>6. NotOwn(row)
  BY <1>2, <1>3, <1>5 DEF IInv, TaskOK, NotOwn
<1>7. \/ tasks' = [tasks EXCEPT ![t] = row] /\ late' = late \ {t}
      \/ t \notin quiet /\ UNCHANGED <<tasks, late>>
  BY <1>1, <1>3, <1>4 DEF Write
<1>8. t \in quiet => /\ tasks[t].status = "submitted" /\ old.author = old.worker
                     /\ read.worker = old.worker
                     /\ \A q \in Participants : wrote[t]["pay"][q] = 0
  BY <1>1, <1>2, <1>3 DEF QuietJob, IInv, TaskOK, QuietTask
<1>9. /\ tasks' \in [Tasks -> Rows \cup {None}] /\ late' \subseteq {u \in Tasks : Exists(u)'}
      /\ \A u \in Tasks \ {t} : tasks'[u] = tasks[u] /\ (u \in late' => u \in late)
      /\ Exists(t)' /\ tasks'[t].poster = tasks[t].poster /\ tasks'[t] \in Rows
      /\ t \in quiet => tasks'[t] = row
      /\ TaskOK(t)'
  BY <1>1, <1>2, <1>3, <1>5, <1>6, <1>7, <1>8, RowInv
<1>10. PICK changes \in Seq(Changes) :
         /\ changes = Payout(read) /\ changes # <<>>
         /\ changes[1].kind = "pay" /\ changes[1].who = read.worker
         /\ \A n \in DOMAIN changes : n # 1 => changes[n].kind \in {"fee", "mirror"}
  BY PayoutShape
<1>11. "pow" \in Awaits
  BY DEF Awaits
<1>12. /\ pc' \in [Invocations -> Awaits] /\ at' \in [Invocations -> Jobs \cup {None}]
       /\ todo' \in [Invocations -> Seq(Changes)] /\ seen' \in [Invocations -> Int \cup {None}]
       /\ at'[i] # None /\ Held(i)' /\ pc'[i] = "adjust" /\ todo'[i] = changes
       /\ at'[i].next = "pow" /\ at'[i].task = t /\ at'[i].row = read
       /\ \A j \in Invocations \ {i} :
            pc'[j] = pc[j] /\ at'[j] = at[j] /\ todo'[j] = todo[j] /\ seen'[j] = seen[j]
  BY <1>1, <1>2, <1>3, <1>10, <1>11, Thens
<1>13. Shapes'
  BY <1>1, <1>9, <1>12 DEF IInv, Shapes
<1>14. JobOK(i)'
  <2>1. Serves(i)'
    BY <1>2, <1>3, <1>9, <1>10, <1>12 DEF Serves, NotOwn
  <2>2. QuietJob(i)' \/ t \notin quiet
    BY <1>1, <1>5, <1>8, <1>9, <1>10, <1>12 DEF QuietJob
  <2>. QED
    BY <1>1, <1>12, <2>1, <2>2 DEF JobOK, Posting
<1>. QED
  BY <1>1, <1>2, <1>3, <1>9, <1>12, <1>13, <1>14, OneStep

LEMMA ClaimCheckInv ==
  ASSUME IInv, NEW i \in Invocations, ClaimCheck(i) PROVE IInv'
<1>1. /\ pc[i] = "claimant" /\ at[i].row.poster # at[i].agent /\ pc' = [pc EXCEPT ![i] = "claim"]
      /\ UNCHANGED <<quiet, tasks, late, credits, pow, wrote, paid, at, todo, seen>>
  BY DEF ClaimCheck, Goto
<1>2. /\ at[i] # None /\ at[i].task \in Tasks /\ at[i].next # "insert" /\ Exists(at[i].task)
      /\ Serves(i) /\ todo[i] = <<>> /\ (at[i].task \in quiet => QuietJob(i))
  BY <1>1, Serving
<1>3. PICK t \in Tasks : t = at[i].task
  BY <1>2
<1>4. /\ pc' \in [Invocations -> Awaits] /\ pc'[i] = "claim"
      /\ \A j \in Invocations \ {i} : pc'[j] = pc[j]
  BY <1>1 DEF IInv, Shapes, Awaits
<1>5. Shapes'
  BY <1>1, <1>4 DEF IInv, Shapes, Exists
<1>6. TaskOK(t)'
  BY <1>1 DEF IInv, TaskOK, Exists, NotOwn, ChargedTo, QuietTask
<1>7. Held(i)'
  BY <1>1, <1>2, <1>4 DEF Held
<1>8. JobOK(i)'
  <2>1. Serves(i)' /\ QuietJob(i)'
    BY <1>1, <1>2, <1>4 DEF Serves, QuietJob, Exists, NotOwn
  <2>. QED
    BY <1>1, <1>2, <2>1 DEF JobOK, Posting
<1>. QED
  BY <1>1, <1>2, <1>3, <1>4, <1>5, <1>6, <1>7, <1>8, OneStep DEF Exists

\* Whoever gets the claim is not the poster.
LEMMA ClaimInv ==
  ASSUME IInv, NEW i \in Invocations, ClaimWrite(i) PROVE IInv'
<1>1. /\ pc[i] = "claim" /\ Is(at[i].task, "open")
      /\ tasks' = [tasks EXCEPT ![at[i].task] =
                     [@ EXCEPT !.status = "claimed", !.worker = at[i].agent]]
      /\ late' = late \ {at[i].task}
      /\ Then(i, <<Change(at[i].agent, -CLAIM_COST, "claim")>>, "idle")
      /\ UNCHANGED <<quiet, credits, pow, wrote, paid>>
  BY DEF ClaimWrite
<1>2. /\ at[i] # None /\ at[i] \in Jobs /\ at[i].task \in Tasks /\ at[i].next # "insert"
      /\ Exists(at[i].task) /\ tasks[at[i].task] \in Rows /\ at[i].row \in Rows
      /\ Serves(i)
  BY <1>1, Serving
<1>3. PICK t \in Tasks, old \in Rows, a \in Participants \cup {None} :
        t = at[i].task /\ old = tasks[t] /\ a = at[i].agent
  BY <1>2 DEF Jobs
<1>4. PICK row \in Rows : row = [old EXCEPT !.status = "claimed", !.worker = a]
  <2>1. [old EXCEPT !.status = "claimed", !.worker = a] \in Rows
    BY DEF Rows, Statuses
  <2>. QED
    BY <2>1
<1>5. row.poster = old.poster /\ row.worker = a /\ row.status = "claimed"
  BY <1>4 DEF Rows
<1>6. NotOwn(row)
  BY <1>1, <1>2, <1>3, <1>5 DEF Serves, NotOwn
<1>7. tasks' = [tasks EXCEPT ![t] = row] /\ late' = late \ {t}
  BY <1>1, <1>3, <1>4 DEF IInv, Shapes
<1>8. tasks[t].status = "open"
  BY <1>1, <1>3 DEF Is
<1>9. /\ tasks' \in [Tasks -> Rows \cup {None}] /\ late' \subseteq {u \in Tasks : Exists(u)'}
      /\ \A u \in Tasks \ {t} : tasks'[u] = tasks[u] /\ (u \in late' => u \in late)
      /\ Exists(t)' /\ tasks'[t].poster = tasks[t].poster /\ TaskOK(t)'
  BY <1>1, <1>2, <1>3, <1>5, <1>6, <1>7, <1>8, RowInv
<1>10. PICK c \in Changes : c = Change(a, -CLAIM_COST, "claim")
  <2>1. Change(a, -CLAIM_COST, "claim") \in Changes
    BY DEF Change, Changes, Kinds, CLAIM_COST
  <2>. QED
    BY <2>1
<1>11. <<c>> \in Seq(Changes) /\ c.kind = "claim" /\ "idle" \in Awaits
  BY <1>10 DEF Change, Awaits
<1>12. /\ pc' \in [Invocations -> Awaits] /\ at' \in [Invocations -> Jobs \cup {None}]
       /\ todo' \in [Invocations -> Seq(Changes)] /\ seen' \in [Invocations -> Int \cup {None}]
       /\ at'[i] # None /\ Held(i)' /\ pc'[i] = "adjust" /\ todo'[i] = <<c>>
       /\ at'[i].next = "idle" /\ at'[i].task = t /\ at'[i].row = at[i].row
       /\ \A j \in Invocations \ {i} :
            pc'[j] = pc[j] /\ at'[j] = at[j] /\ todo'[j] = todo[j] /\ seen'[j] = seen[j]
  BY <1>1, <1>2, <1>3, <1>10, <1>11, Thens
<1>13. Shapes'
  BY <1>1, <1>9, <1>12 DEF IInv, Shapes
<1>14. JobOK(i)'
  <2>1. Serves(i)'
    BY <1>2, <1>3, <1>9, <1>11, <1>12 DEF Serves, NotOwn
  <2>2. QuietJob(i)'
    BY <1>11, <1>12 DEF QuietJob
  <2>. QED
    BY <1>12, <2>1, <2>2 DEF JobOK, Posting
<1>. QED
  BY <1>1, <1>2, <1>3, <1>9, <1>12, <1>13, <1>14, OneStep

LEMMA ReopenInv ==
  ASSUME IInv, NEW i \in Invocations, Reopen(i) PROVE IInv'
<1>1. /\ pc[i] = "reopen" /\ UNCHANGED <<quiet, credits, pow, wrote, paid>>
      /\ Write(i, [tasks[at[i].task] EXCEPT !.status = "open", !.worker = None])
  BY DEF Reopen
<1>2. /\ at[i] # None /\ at[i].task \in Tasks /\ at[i].next # "insert"
      /\ Exists(at[i].task) /\ tasks[at[i].task] \in Rows
      /\ Serves(i) /\ todo[i] = <<>> /\ (at[i].task \in quiet => QuietJob(i))
  BY <1>1, Serving
<1>3. PICK t \in Tasks, old \in Rows : t = at[i].task /\ old = tasks[t]
  BY <1>2
<1>4. PICK row \in Rows : row = [old EXCEPT !.status = "open", !.worker = None]
  <2>1. [old EXCEPT !.status = "open", !.worker = None] \in Rows
    BY DEF Rows, Statuses
  <2>. QED
    BY <2>1
<1>5. row.poster = old.poster /\ row.worker = None /\ row.status = "open"
  BY <1>4 DEF Rows
<1>6. NotOwn(row)
  BY <1>5, BoardAssumption DEF NotOwn
<1>7. \/ tasks' = [tasks EXCEPT ![t] = row] /\ late' = late \ {t}
      \/ t \notin quiet /\ UNCHANGED <<tasks, late>>
  BY <1>1, <1>3, <1>4 DEF Write
<1>8. t \in quiet => tasks[t].status = "claimed"
  BY <1>1, <1>2, <1>3 DEF QuietJob
<1>9. /\ tasks' \in [Tasks -> Rows \cup {None}] /\ late' \subseteq {u \in Tasks : Exists(u)'}
      /\ \A u \in Tasks \ {t} : tasks'[u] = tasks[u] /\ (u \in late' => u \in late)
      /\ Exists(t)' /\ tasks'[t].poster = tasks[t].poster /\ TaskOK(t)'
  BY <1>1, <1>2, <1>3, <1>5, <1>6, <1>7, <1>8, RowInv
<1>10. CASE Forget(i)
  <2>1. /\ pc' \in [Invocations -> Awaits] /\ at' \in [Invocations -> Jobs \cup {None}]
        /\ todo' \in [Invocations -> Seq(Changes)] /\ seen' \in [Invocations -> Int \cup {None}]
        /\ at'[i] = None /\ Held(i)' /\ JobOK(i)'
        /\ \A j \in Invocations \ {i} :
             pc'[j] = pc[j] /\ at'[j] = at[j] /\ todo'[j] = todo[j] /\ seen'[j] = seen[j]
    BY <1>10, Forgets
  <2>2. Shapes'
    BY <1>1, <1>9, <2>1 DEF IInv, Shapes
  <2>. QED
    BY <1>1, <1>2, <1>3, <1>9, <2>1, <2>2, OneStep
<1>11. CASE pc' = [pc EXCEPT ![i] = "claimant"] /\ UNCHANGED <<at, todo, seen>>
  <2>1. /\ pc' \in [Invocations -> Awaits] /\ pc'[i] = "claimant"
        /\ \A j \in Invocations \ {i} : pc'[j] = pc[j]
    BY <1>11 DEF IInv, Shapes, Awaits
  <2>2. Shapes'
    BY <1>1, <1>9, <1>11, <2>1 DEF IInv, Shapes
  <2>3. Held(i)'
    BY <1>2, <1>11, <2>1 DEF Held
  <2>4. JobOK(i)'
    <3>1. Serves(i)' /\ QuietJob(i)'
      BY <1>2, <1>3, <1>9, <1>11, <2>1 DEF Serves, QuietJob, NotOwn
    <3>. QED
      BY <1>2, <1>11, <3>1 DEF JobOK, Posting
  <2>. QED
    BY <1>1, <1>2, <1>3, <1>9, <1>11, <2>1, <2>2, <2>3, <2>4, OneStep
<1>. QED
  BY <1>1, <1>2, <1>10, <1>11 DEF Reopen, Serves, Goto

-----------------------------------------------------------------------------
(* The chain *)

LEMMA LinkInv ==
  ASSUME IInv, NEW i \in Invocations, PowLink(i) PROVE IInv'
<1>1. /\ pc[i] = "pow" /\ pc' = [pc EXCEPT ![i] = "bonus"]
      /\ pow' = [pow EXCEPT ![at[i].row.worker] = @ + 1]
      /\ UNCHANGED <<quiet, tasks, late, credits, wrote, paid, at, todo, seen>>
  BY DEF PowLink, Goto
<1>2. /\ at[i] # None /\ at[i].task \in Tasks /\ at[i].next # "insert" /\ Exists(at[i].task)
      /\ Serves(i) /\ todo[i] = <<>> /\ (at[i].task \in quiet => QuietJob(i))
  BY <1>1, Serving
<1>3. PICK t \in Tasks : t = at[i].task
  BY <1>2
<1>4. /\ pc' \in [Invocations -> Awaits] /\ pc'[i] = "bonus"
      /\ \A j \in Invocations \ {i} : pc'[j] = pc[j]
  BY <1>1 DEF IInv, Shapes, Awaits
<1>5. pow' \in [Participants -> Nat]
  <2>1. at[i].row.worker \in Participants
    BY <1>1, <1>2 DEF Serves
  <2>. QED
    BY <1>1, <2>1 DEF IInv, Shapes
<1>6. Shapes'
  BY <1>1, <1>4, <1>5 DEF IInv, Shapes, Exists
<1>7. TaskOK(t)'
  BY <1>1 DEF IInv, TaskOK, Exists, NotOwn, ChargedTo, QuietTask
<1>8. Held(i)'
  BY <1>1, <1>2, <1>4 DEF Held
<1>9. JobOK(i)'
  <2>1. Serves(i)' /\ QuietJob(i)'
    BY <1>1, <1>2, <1>4 DEF Serves, QuietJob, Exists, NotOwn
  <2>. QED
    BY <1>1, <1>2, <2>1 DEF JobOK, Posting
<1>. QED
  BY <1>1, <1>2, <1>3, <1>4, <1>6, <1>7, <1>8, <1>9, OneStep DEF Exists

LEMMA BonusInv ==
  ASSUME IInv, NEW i \in Invocations, PowBonus(i) PROVE IInv'
<1>1. pc[i] = "bonus" /\ UNCHANGED <<quiet, tasks, late, credits, pow, wrote, paid>>
  BY DEF PowBonus
<1>2. /\ at[i] # None /\ at[i].task \in Tasks /\ at[i].next # "insert" /\ Exists(at[i].task)
      /\ Serves(i)
  BY <1>1, Serving
<1>3. PICK t \in Tasks, who \in Participants : t = at[i].task /\ who = at[i].row.worker
  BY <1>1, <1>2 DEF Serves
<1>4. PICK length \in Nat : Then(i, BonusFor(who, length), "idle")
  BY <1>3 DEF PowBonus, IInv, Shapes
<1>5. PICK changes \in Seq(Changes) :
        /\ changes = BonusFor(who, length)
        /\ \A n \in DOMAIN changes : changes[n].kind \in {"bonus", "mirror"}
  BY BonusShape
<1>6. "idle" \in Awaits
  BY DEF Awaits
<1>7. /\ pc' \in [Invocations -> Awaits] /\ at' \in [Invocations -> Jobs \cup {None}]
      /\ todo' \in [Invocations -> Seq(Changes)] /\ seen' \in [Invocations -> Int \cup {None}]
      /\ at'[i] # None /\ Held(i)' /\ pc'[i] = "adjust" /\ todo'[i] = changes
      /\ at'[i].next = "idle" /\ at'[i].task = t /\ at'[i].row = at[i].row
      /\ \A j \in Invocations \ {i} :
           pc'[j] = pc[j] /\ at'[j] = at[j] /\ todo'[j] = todo[j] /\ seen'[j] = seen[j]
  BY <1>2, <1>3, <1>4, <1>5, <1>6, Thens
<1>8. Shapes'
  BY <1>1, <1>7 DEF IInv, Shapes, Exists
<1>9. TaskOK(t)'
  BY <1>1 DEF IInv, TaskOK, Exists, NotOwn, ChargedTo, QuietTask
<1>10. JobOK(i)'
  <2>1. Serves(i)'
    BY <1>1, <1>2, <1>3, <1>5, <1>7 DEF Serves, Exists, NotOwn
  <2>2. QuietJob(i)'
    BY <1>5, <1>7 DEF QuietJob
  <2>. QED
    BY <1>7, <2>1, <2>2 DEF JobOK, Posting
<1>. QED
  BY <1>1, <1>2, <1>3, <1>7, <1>8, <1>9, <1>10, OneStep DEF Exists

-----------------------------------------------------------------------------
(* Balances *)

\* An invocation that changes balances: the first change it owes, and the rest.
LEMMA Owing ==
  ASSUME IInv, NEW i \in Invocations, pc[i] \in {"adjust", "write"}
  PROVE  /\ at[i] # None /\ at[i] \in Jobs /\ at[i].task \in Tasks /\ at[i].row \in Rows
         /\ todo[i] \in Seq(Changes)
         /\ Posting(i) => Posts(i)
         /\ ~Posting(i) => Serves(i) /\ (at[i].task \in quiet => QuietJob(i))
         /\ todo[i] # <<>> =>
              /\ Head(todo[i]) = todo[i][1] /\ todo[i][1] \in Changes /\ 1 \in DOMAIN todo[i]
              /\ Tail(todo[i]) \in Seq(Changes)
              /\ \A n \in DOMAIN Tail(todo[i]) : /\ n + 1 \in DOMAIN todo[i] /\ n + 1 # 1
                                                 /\ Tail(todo[i])[n] = todo[i][n + 1]
<1>1. at[i] # None /\ at[i] \in Jobs /\ todo[i] \in Seq(Changes)
  BY DEF IInv, Held, Shapes
<1>2. at[i].task \in Tasks /\ at[i].row \in Rows
  BY <1>1 DEF Jobs
<1>3. /\ Posting(i) => Posts(i)
      /\ ~Posting(i) => Serves(i) /\ (at[i].task \in quiet => QuietJob(i))
  BY <1>1 DEF IInv, JobOK
<1>4. ASSUME NEW s \in Seq(Changes), s # <<>>
      PROVE  /\ Head(s) = s[1] /\ s[1] \in Changes /\ 1 \in DOMAIN s
             /\ Tail(s) \in Seq(Changes)
             /\ \A n \in DOMAIN Tail(s) : /\ n + 1 \in DOMAIN s /\ n + 1 # 1
                                          /\ Tail(s)[n] = s[n + 1]
  BY <1>4
<1>. QED
  BY <1>1, <1>2, <1>3, <1>4

LEMMA AdjustReadInv ==
  ASSUME IInv, NEW i \in Invocations, AdjustRead(i) PROVE IInv'
<1>1. /\ pc[i] = "adjust" /\ todo[i] # <<>> /\ Head(todo[i]).who \in Participants
      /\ seen' = [seen EXCEPT ![i] = credits[Head(todo[i]).who]]
      /\ pc' = [pc EXCEPT ![i] = "write"]
      /\ UNCHANGED <<quiet, tasks, late, credits, pow, wrote, paid, at, todo>>
  BY DEF AdjustRead, Goto
<1>2. /\ at[i] # None /\ at[i].task \in Tasks /\ Head(todo[i]) = todo[i][1]
      /\ Posting(i) => Posts(i)
      /\ ~Posting(i) => Serves(i) /\ (at[i].task \in quiet => QuietJob(i))
  BY <1>1, Owing
<1>3. PICK t \in Tasks : t = at[i].task
  BY <1>2
<1>4. credits[Head(todo[i]).who] \in Int
  BY <1>1 DEF IInv, Shapes
<1>5. /\ pc' \in [Invocations -> Awaits] /\ pc'[i] = "write"
      /\ seen' \in [Invocations -> Int \cup {None}] /\ seen'[i] \in Int
      /\ \A j \in Invocations \ {i} : pc'[j] = pc[j] /\ seen'[j] = seen[j]
  BY <1>1, <1>4 DEF IInv, Shapes, Awaits
<1>6. Shapes'
  BY <1>1, <1>5 DEF IInv, Shapes, Exists
<1>7. TaskOK(t)'
  BY <1>1 DEF IInv, TaskOK, Exists, NotOwn, ChargedTo, QuietTask
<1>8. Held(i)'
  BY <1>1, <1>2, <1>5 DEF Held
<1>9. JobOK(i)'
  <2>1. Posts(i) => Posts(i)'
    BY <1>1, <1>5 DEF Posts, Exists, ChargedTo
  <2>2. Serves(i) => Serves(i)'
    BY <1>1, <1>5 DEF Serves, Exists, NotOwn
  <2>3. QuietJob(i) => QuietJob(i)'
    BY <1>1, <1>5 DEF QuietJob
  <2>. QED
    BY <1>1, <1>2, <2>1, <2>2, <2>3 DEF JobOK, Posting
<1>. QED
  BY <1>1, <1>2, <1>3, <1>5, <1>6, <1>7, <1>8, <1>9, OneStep DEF Exists

\* One more balance written; what that was for.
LEMMA AdjustWriteInv ==
  ASSUME IInv, NEW i \in Invocations, AdjustWrite(i) PROVE IInv'
<1>1. pc[i] = "write"
  BY DEF AdjustWrite
<1>2. /\ at[i] # None /\ at[i] \in Jobs /\ at[i].task \in Tasks /\ at[i].row \in Rows
      /\ Posting(i) => Posts(i)
      /\ ~Posting(i) => Serves(i) /\ (at[i].task \in quiet => QuietJob(i))
  BY <1>1, Owing
<1>3. todo[i] # <<>> /\ seen[i] \in Int /\ todo[i][1].who \in Participants
  BY <1>1 DEF IInv, Held
<1>4. /\ Head(todo[i]) = todo[i][1] /\ todo[i][1] \in Changes /\ 1 \in DOMAIN todo[i]
      /\ todo[i] \in Seq(Changes) /\ Tail(todo[i]) \in Seq(Changes)
      /\ \A n \in DOMAIN Tail(todo[i]) : /\ n + 1 \in DOMAIN todo[i] /\ n + 1 # 1
                                         /\ Tail(todo[i])[n] = todo[i][n + 1]
  BY <1>1, <1>3, Owing
<1>5. PICK t \in Tasks, c \in Changes, rest \in Seq(Changes) :
        t = at[i].task /\ c = todo[i][1] /\ rest = Tail(todo[i])
  BY <1>2, <1>4
<1>6. c.who \in Participants /\ c.amount \in Int /\ c.kind \in Kinds \cup {"mirror", "bonus"}
  BY <1>3, <1>5 DEF Changes
<1>7. /\ credits' = [credits EXCEPT ![c.who] = seen[i] + c.amount]
      /\ wrote' = IF c.kind \in Kinds THEN [wrote EXCEPT ![t][c.kind][c.who] = @ + 1] ELSE wrote
      /\ todo' = [todo EXCEPT ![i] = rest] /\ seen' = [seen EXCEPT ![i] = None]
      /\ pc' = [pc EXCEPT ![i] = "adjust"]
      /\ UNCHANGED <<quiet, tasks, late, pow, at>>
  BY <1>4, <1>5 DEF AdjustWrite, Goto, IInv, Shapes
<1>8. credits' \in [Participants -> Int]
  BY <1>3, <1>6, <1>7 DEF IInv, Shapes
<1>9. /\ pc' \in [Invocations -> Awaits] /\ pc'[i] = "adjust"
      /\ todo' \in [Invocations -> Seq(Changes)] /\ todo'[i] = rest
      /\ seen' \in [Invocations -> Int \cup {None}]
      /\ \A j \in Invocations \ {i} : pc'[j] = pc[j] /\ todo'[j] = todo[j] /\ seen'[j] = seen[j]
  BY <1>7 DEF IInv, Shapes, Awaits
<1>10. wrote' \in [Tasks -> [Kinds -> [Participants -> Nat]]]
  <2>1. ASSUME c.kind \in Kinds
        PROVE  [wrote EXCEPT ![t][c.kind][c.who] = @ + 1]
                 \in [Tasks -> [Kinds -> [Participants -> Nat]]]
    BY <1>6, <2>1 DEF IInv, Shapes
  <2>. QED
    BY <1>7, <2>1 DEF IInv, Shapes
<1>11. \A u \in Tasks, kind \in Kinds, q \in Participants :
         wrote'[u][kind][q] = IF u = t /\ kind = c.kind /\ q = c.who THEN wrote[u][kind][q] + 1
                              ELSE wrote[u][kind][q]
  BY <1>6, <1>7 DEF IInv, Shapes
<1>12. Shapes'
  <2>1. paid' \in [of : [Tasks -> Nat], to : [Participants -> Nat]]
    <3>1. paid' = IF c.kind = "pay" THEN [of |-> [paid.of EXCEPT ![t] = @ + 1],
                                          to |-> [paid.to EXCEPT ![c.who] = @ + 1]]
                                    ELSE paid
      BY <1>4, <1>5 DEF AdjustWrite
    <3>2. /\ paid \in [of : [Tasks -> Nat], to : [Participants -> Nat]]
          /\ paid.of \in [Tasks -> Nat] /\ paid.to \in [Participants -> Nat]
      BY DEF IInv, Shapes
    <3>3. /\ [paid.of EXCEPT ![t] = @ + 1] \in [Tasks -> Nat]
          /\ [paid.to EXCEPT ![c.who] = @ + 1] \in [Participants -> Nat]
      BY <1>6, <3>2
    <3>. QED
      BY <3>1, <3>2, <3>3
  <2>. QED
    BY <1>7, <1>8, <1>9, <1>10, <2>1 DEF IInv, Shapes, Exists
<1>13. Held(i)'
  BY <1>2, <1>7, <1>9 DEF Held
<1>14. \A n \in DOMAIN rest : n + 1 \in DOMAIN todo[i] /\ n + 1 # 1 /\ rest[n] = todo[i][n + 1]
  BY <1>4, <1>5
<1>15. {"escrow", "pay", "fee", "refund"} \subseteq Kinds
  BY DEF Kinds
<1>16. /\ tasks' = tasks /\ late' = late /\ quiet' = quiet /\ at' = at /\ at'[i] = at[i]
       /\ \A u \in Tasks \ {t}, kind \in Kinds, q \in Participants :
            wrote'[u][kind][q] = wrote[u][kind][q]
       /\ \A j \in Invocations \ {i} :
            pc'[j] = pc[j] /\ at'[j] = at[j] /\ todo'[j] = todo[j] /\ seen'[j] = seen[j]
  BY <1>7, <1>9, <1>11
<1>17. Exists(t)' <=> Exists(t)
  BY <1>16 DEF Exists
<1>18. ASSUME TaskOK(t)', JobOK(i)' PROVE IInv'
  BY <1>2, <1>5, <1>12, <1>13, <1>16, <1>17, <1>18, OneStep
<1>19. CASE Posting(i)
  <2>1. PICK p \in Participants : p = at[i].agent
    BY <1>2, <1>19 DEF Posts
  <2>2. /\ ~Exists(t) /\ todo[i] = <<Change(p, -at[i].row.reward, "escrow")>>
        /\ \A q \in Participants : wrote[t]["escrow"][q] = 0
        /\ at[i].row = OpenRow(p, at[i].row.reward)
    BY <1>2, <1>3, <1>5, <1>19, <2>1 DEF Posts
  <2>3. c.kind = "escrow" /\ c.who = p /\ rest = <<>>
    BY <1>5, <2>2 DEF Change
  <2>4. ChargedTo(t, p)'
    BY <1>11, <1>15, <2>2, <2>3 DEF ChargedTo
  <2>5. Posting(i)' /\ Posts(i)'
    <3>1. at'[i].task = t /\ at'[i].agent = p /\ at'[i].row = OpenRow(p, at'[i].row.reward)
      BY <1>5, <1>16, <2>1, <2>2
    <3>2. pc'[i] = "adjust" /\ todo'[i] = <<>> /\ ~Exists(t)'
      BY <1>9, <1>17, <2>2, <2>3
    <3>3. Posts(i)'
      BY <2>4, <3>1, <3>2 DEF Posts
    <3>. QED
      BY <1>16, <1>19, <3>3 DEF Posting
  <2>6. TaskOK(t)'
    BY <1>7, <1>11, <2>2, <2>3 DEF IInv, TaskOK, Exists
  <2>. QED
    BY <1>18, <2>5, <2>6 DEF JobOK
<1>20. CASE ~Posting(i)
  <2>1. /\ Serves(i) /\ Exists(t) /\ tasks[t] \in Rows
        /\ c.kind # "escrow"
        /\ c.kind = "pay" => c.who = at[i].row.worker
        /\ at[i].row.poster = tasks[t].poster /\ NotOwn(at[i].row)
    BY <1>2, <1>4, <1>5, <1>20 DEF Serves, IInv, Shapes, Exists
  <2>2. \A n \in DOMAIN rest : rest[n].kind \notin {"escrow", "pay"}
    BY <1>14, <2>1 DEF Serves
  <2>3. at[i].next = "pow" /\ at[i].row.worker \notin Participants => FALSE
    BY <1>1, <1>3, <1>4, <1>5, <1>6, <2>1 DEF Serves
  <2>4. Serves(i)'
    <3>1. at'[i].task = t /\ at'[i].row = at[i].row /\ at'[i].next = at[i].next
      BY <1>5, <1>16
    <3>2. /\ Exists(t)' /\ at[i].row.poster = tasks'[t].poster /\ NotOwn(at[i].row)
          /\ at[i].next \in {"idle", "pow"}
      BY <1>1, <1>16, <1>17, <2>1 DEF Serves
    <3>3. \A n \in DOMAIN todo'[i] : todo'[i][n].kind \notin {"escrow", "pay"}
      BY <1>9, <2>2
    <3>4. pc'[i] = "adjust" /\ ~(at[i].next = "pow" /\ at[i].row.worker \notin Participants)
      BY <1>9, <2>3
    <3>. QED
      BY <3>1, <3>2, <3>3, <3>4 DEF Serves, NotOwn
  <2>5. t \in quiet => QuietJob(i)'
    <3>1. ASSUME t \in quiet PROVE QuietJob(i)'
      <4>1. QuietJob(i)
        BY <1>2, <1>5, <1>20, <3>1
      <4>2. \A n \in DOMAIN rest :
              /\ rest[n].kind \in {"pay", "fee"} => tasks[t].status = "completed"
              /\ rest[n].kind = "refund" => tasks[t].status = "expired"
        BY <1>5, <1>14, <4>1 DEF QuietJob
      <4>. QED
        BY <1>5, <1>7, <1>9, <2>2, <4>2 DEF QuietJob
    <3>. QED
      BY <3>1
  <2>6. JobOK(i)'
    BY <1>5, <1>7, <1>20, <2>4, <2>5 DEF JobOK, Posting
  <2>7. \A q \in Participants : wrote'[t]["pay"][q] > 0 => tasks[t].poster # q
    <3>1. \A q \in Participants : wrote[t]["pay"][q] > 0 => tasks[t].poster # q
      BY <2>1 DEF IInv, TaskOK
    <3>2. c.kind = "pay" => tasks[t].poster # c.who
      BY <1>6, <2>1 DEF NotOwn
    <3>. QED
      BY <1>11, <1>15, <3>1, <3>2
  <2>8. tasks[t].poster # None => ChargedTo(t, tasks[t].poster)'
    BY <1>7, <1>11, <1>15, <2>1 DEF IInv, TaskOK, ChargedTo
  <2>9. ASSUME t \in quiet PROVE QuietTask(t)'
    <3>1. QuietTask(t) /\ QuietJob(i)
      BY <1>2, <1>5, <1>20, <2>1, <2>9 DEF IInv, TaskOK
    <3>2. /\ c.kind \in {"pay", "fee"} => tasks[t].status = "completed"
          /\ c.kind = "refund" => tasks[t].status = "expired"
          /\ c.kind = "pay" => /\ at[i].row.worker = tasks[t].worker
                               /\ \A q \in Participants : wrote[t]["pay"][q] = 0
      BY <1>4, <1>5, <3>1 DEF QuietJob
    <3>3. CASE c.kind \notin {"pay", "fee", "refund"}
      <4>1. \A q \in Participants, kind \in {"pay", "fee", "refund"} :
              wrote'[t][kind][q] = wrote[t][kind][q]
        BY <1>11, <1>15, <3>3
      <4>. QED
        BY <1>7, <3>1, <4>1 DEF QuietTask
    <3>4. CASE c.kind = "pay"
      <4>1. \A q \in Participants : /\ wrote'[t]["pay"][q] = IF q = c.who THEN 1 ELSE 0
                                    /\ wrote'[t]["refund"][q] = wrote[t]["refund"][q]
        BY <1>11, <1>15, <3>2, <3>4
      <4>2. c.who = tasks[t].worker /\ tasks[t].status = "completed"
        BY <2>1, <3>2, <3>4
      <4>. QED
        BY <1>7, <3>1, <4>1, <4>2 DEF QuietTask
    <3>5. CASE c.kind = "fee"
      <4>1. \A q \in Participants : /\ wrote'[t]["pay"][q] = wrote[t]["pay"][q]
                                    /\ wrote'[t]["refund"][q] = wrote[t]["refund"][q]
        BY <1>11, <1>15, <3>5
      <4>. QED
        BY <1>7, <3>1, <3>2, <3>5, <4>1 DEF QuietTask
    <3>6. CASE c.kind = "refund"
      <4>1. \A q \in Participants : wrote'[t]["pay"][q] = wrote[t]["pay"][q]
        BY <1>11, <1>15, <3>6
      <4>. QED
        BY <1>7, <3>1, <3>2, <3>6, <4>1 DEF QuietTask
    <3>. QED
      BY <3>3, <3>4, <3>5, <3>6
  <2>10. TaskOK(t)'
    <3>1. NotOwn(tasks[t])' /\ (tasks[t].status = "open" => t \notin late)
      BY <1>7, <2>1 DEF IInv, TaskOK, NotOwn
    <3>2. Exists(t)' /\ tasks'[t] = tasks[t] /\ late' = late /\ quiet' = quiet
      BY <1>7, <2>1 DEF Exists
    <3>. QED
      BY <2>7, <2>8, <2>9, <3>1, <3>2 DEF TaskOK, ChargedTo
  <2>. QED
    BY <1>18, <2>6, <2>10
<1>. QED
  BY <1>19, <1>20

LEMMA MirrorSkippedInv ==
  ASSUME IInv, NEW i \in Invocations, MirrorSkipped(i) PROVE IInv'
<1>1. /\ pc[i] = "adjust" /\ todo[i] # <<>> /\ Head(todo[i]).kind = "mirror"
      /\ todo' = [todo EXCEPT ![i] = Tail(todo[i])]
      /\ UNCHANGED <<quiet, tasks, late, credits, pow, wrote, paid, pc, at, seen>>
  BY DEF MirrorSkipped, IInv, Shapes
<1>2. /\ at[i] # None /\ at[i].task \in Tasks
      /\ Posting(i) => Posts(i)
      /\ ~Posting(i) => Serves(i) /\ (at[i].task \in quiet => QuietJob(i))
      /\ Head(todo[i]) = todo[i][1] /\ Tail(todo[i]) \in Seq(Changes)
      /\ \A n \in DOMAIN Tail(todo[i]) : /\ n + 1 \in DOMAIN todo[i] /\ n + 1 # 1
                                         /\ Tail(todo[i])[n] = todo[i][n + 1]
  BY <1>1, Owing
<1>3. PICK t \in Tasks, rest \in Seq(Changes) : t = at[i].task /\ rest = Tail(todo[i])
  BY <1>2
<1>4. /\ todo' \in [Invocations -> Seq(Changes)] /\ todo'[i] = rest
      /\ \A j \in Invocations \ {i} : todo'[j] = todo[j]
  BY <1>1, <1>3 DEF IInv, Shapes
<1>5. Shapes'
  BY <1>1, <1>4 DEF IInv, Shapes, Exists
<1>6. TaskOK(t)'
  BY <1>1 DEF IInv, TaskOK, Exists, NotOwn, ChargedTo, QuietTask
<1>7. Held(i)'
  BY <1>1, <1>2 DEF Held
<1>8. ~Posting(i)
  <2>. SUFFICES ASSUME Posting(i) PROVE FALSE
    OBVIOUS
  <2>1. todo[i] = <<Change(at[i].agent, -at[i].row.reward, "escrow")>>
    BY <1>1, <1>2 DEF Posts
  <2>. QED
    BY <1>1, <2>1 DEF Change
<1>9. Serves(i) /\ (t \in quiet => QuietJob(i))
  BY <1>2, <1>3, <1>8
<1>10. \A n \in DOMAIN rest : n + 1 \in DOMAIN todo[i] /\ n + 1 # 1 /\ rest[n] = todo[i][n + 1]
  BY <1>2, <1>3
<1>11. JobOK(i)'
  <2>1. \A n \in DOMAIN rest : rest[n].kind \notin {"escrow", "pay"}
    BY <1>9, <1>10 DEF Serves
  <2>2. ~(at[i].next = "pow" /\ at[i].row.worker \notin Participants)
    BY <1>1, <1>2, <1>9 DEF Serves
  <2>3. Serves(i)'
    BY <1>1, <1>4, <1>9, <2>1, <2>2 DEF Serves, Exists, NotOwn
  <2>4. ASSUME t \in quiet PROVE QuietJob(i)'
    <3>1. \A n \in DOMAIN rest :
            /\ rest[n].kind \in {"pay", "fee"} => tasks[t].status = "completed"
            /\ rest[n].kind = "refund" => tasks[t].status = "expired"
      BY <1>3, <1>9, <1>10, <2>4 DEF QuietJob
    <3>. QED
      BY <1>1, <1>3, <1>4, <2>1, <3>1 DEF QuietJob
  <2>. QED
    BY <1>1, <1>3, <1>8, <2>3, <2>4 DEF JobOK, Posting
<1>. QED
  BY <1>1, <1>2, <1>3, <1>4, <1>5, <1>6, <1>7, <1>11, OneStep DEF Exists

LEMMA AdjustedInv ==
  ASSUME IInv, NEW i \in Invocations, Adjusted(i) PROVE IInv'
<1>1. /\ pc[i] = "adjust" /\ todo[i] = <<>>
      /\ UNCHANGED <<quiet, tasks, late, credits, pow, wrote, paid>>
  BY DEF Adjusted
<1>2. /\ at[i] # None /\ at[i] \in Jobs /\ at[i].task \in Tasks
      /\ Posting(i) => Posts(i)
      /\ ~Posting(i) => Serves(i) /\ (at[i].task \in quiet => QuietJob(i))
  BY <1>1, Owing
<1>3. PICK t \in Tasks : t = at[i].task
  BY <1>2
<1>4. TaskOK(t)'
  BY <1>1 DEF IInv, TaskOK, Exists, NotOwn, ChargedTo, QuietTask
<1>5. CASE at[i].next = "idle"
  <2>1. Forget(i)
    BY <1>5 DEF Adjusted
  <2>2. /\ pc' \in [Invocations -> Awaits] /\ at' \in [Invocations -> Jobs \cup {None}]
        /\ todo' \in [Invocations -> Seq(Changes)] /\ seen' \in [Invocations -> Int \cup {None}]
        /\ at'[i] = None /\ Held(i)' /\ JobOK(i)'
        /\ \A j \in Invocations \ {i} :
             pc'[j] = pc[j] /\ at'[j] = at[j] /\ todo'[j] = todo[j] /\ seen'[j] = seen[j]
    BY <2>1, Forgets
  <2>3. Shapes'
    BY <1>1, <2>2 DEF IInv, Shapes, Exists
  <2>. QED
    BY <1>1, <1>2, <1>3, <1>4, <2>2, <2>3, OneStep DEF Exists
<1>6. CASE at[i].next # "idle"
  <2>1. pc' = [pc EXCEPT ![i] = at[i].next] /\ UNCHANGED <<at, todo, seen>>
    BY <1>6 DEF Adjusted, Goto
  <2>2. at[i].next \in {"insert", "pow"}
    BY <1>1, <1>2, <1>6 DEF Serves, Posting
  <2>3. /\ pc' \in [Invocations -> Awaits] /\ pc'[i] = at[i].next
        /\ \A j \in Invocations \ {i} : pc'[j] = pc[j]
    BY <2>1, <2>2 DEF IInv, Shapes, Awaits
  <2>4. Shapes'
    BY <1>1, <2>1, <2>3 DEF IInv, Shapes, Exists
  <2>5. Held(i)'
    BY <1>1, <1>2, <2>1, <2>2, <2>3 DEF Held
  <2>6. CASE Posting(i)
    <3>1. Posts(i)'
      BY <1>1, <1>2, <2>1, <2>3, <2>6 DEF Posts, Posting, Exists, ChargedTo
    <3>2. JobOK(i)'
      BY <2>1, <2>6, <3>1 DEF JobOK, Posting
    <3>. QED
      BY <1>1, <1>2, <1>3, <1>4, <2>1, <2>3, <2>4, <2>5, <3>2, OneStep DEF Exists
  <2>7. CASE ~Posting(i)
    <3>1. at[i].next = "pow" /\ Serves(i)
      BY <1>2, <2>2, <2>7 DEF Posting
    <3>2. at[i].row.worker \in Participants
      BY <1>1, <3>1 DEF Serves
    <3>3. Serves(i)' /\ QuietJob(i)'
      BY <1>1, <2>1, <2>3, <3>1, <3>2 DEF Serves, QuietJob, Exists, NotOwn
    <3>4. JobOK(i)'
      BY <2>1, <2>7, <3>3 DEF JobOK, Posting
    <3>. QED
      BY <1>1, <1>2, <1>3, <1>4, <2>1, <2>3, <2>4, <2>5, <3>4, OneStep DEF Exists
  <2>. QED
    BY <2>6, <2>7
<1>. QED
  BY <1>5, <1>6

-----------------------------------------------------------------------------
(* Failures, time and the next step *)

LEMMA FailsInv ==
  ASSUME IInv, NEW i \in Invocations, Fails(i) PROVE IInv'
<1>1. /\ pc[i] # "idle" /\ Forget(i)
      /\ UNCHANGED <<quiet, tasks, late, credits, pow, wrote, paid>>
  BY DEF Fails
<1>2. at[i] # None /\ at[i].task \in Tasks
  BY <1>1 DEF IInv, Held, Shapes, Jobs
<1>3. PICK t \in Tasks : t = at[i].task
  BY <1>2
<1>4. TaskOK(t)'
  BY <1>1 DEF IInv, TaskOK, Exists, NotOwn, ChargedTo, QuietTask
<1>5. /\ pc' \in [Invocations -> Awaits] /\ at' \in [Invocations -> Jobs \cup {None}]
      /\ todo' \in [Invocations -> Seq(Changes)] /\ seen' \in [Invocations -> Int \cup {None}]
      /\ at'[i] = None /\ Held(i)' /\ JobOK(i)'
      /\ \A j \in Invocations \ {i} :
           pc'[j] = pc[j] /\ at'[j] = at[j] /\ todo'[j] = todo[j] /\ seen'[j] = seen[j]
  BY <1>1, Forgets
<1>6. Shapes'
  BY <1>1, <1>5 DEF IInv, Shapes, Exists
<1>. QED
  BY <1>1, <1>2, <1>3, <1>4, <1>5, <1>6, OneStep DEF Exists

\* All but the clock as it was.
LEMMA SameInv ==
  ASSUME IInv, UNCHANGED <<quiet, tasks, credits, pow, wrote, paid, pc, at, todo, seen>>,
         late' \subseteq late \cup {u \in Tasks : Exists(u) /\ tasks[u].status # "open"}
  PROVE  IInv'
<1>1. Shapes'
  BY DEF IInv, Shapes, Exists
<1>2. Alone'
  BY DEF IInv, Alone, Posting
<1>3. ASSUME NEW i \in Invocations PROVE Held(i)' /\ JobOK(i)'
  <2>1. Held(i)'
    BY DEF IInv, Held
  <2>2. JobOK(i)'
    BY DEF IInv, JobOK, Posting, Posts, Serves, QuietJob, Exists, NotOwn, ChargedTo
  <2>. QED
    BY <2>1, <2>2
<1>4. ASSUME NEW t \in Tasks PROVE TaskOK(t)'
  BY DEF IInv, TaskOK, Exists, NotOwn, ChargedTo, QuietTask
<1>. QED
  BY <1>1, <1>2, <1>3, <1>4 DEF IInv

LEMMA TimePassesInv ==
  ASSUME IInv, NEW t \in Tasks, TimePasses(t) PROVE IInv'
<1>1. Exists(t) /\ tasks[t].status # "open" /\ late' = late \cup {t}
  BY DEF TimePasses, Is
<1>2. UNCHANGED <<quiet, tasks, credits, pow, wrote, paid, pc, at, todo, seen>>
  BY DEF TimePasses
<1>. QED
  BY <1>1, <1>2, SameInv

LEMMA StepInv == ASSUME IInv, [Next]_vars PROVE IInv'
<1>1. ASSUME NEW i \in Invocations, Call(i) PROVE IInv'
  <2>1. ASSUME NEW t \in Tasks, NEW p \in Callers, NEW r \in Rewards, Post(i, t, p, r)
        PROVE  IInv'
    BY <2>1, PostInv
  <2>. QED
    BY <1>1, <2>1, CallsInv DEF Call
<1>2. ASSUME NEW i \in Invocations, Continue(i) PROVE IInv'
  BY <1>2, AdjustReadInv, AdjustWriteInv, MirrorSkippedInv, AdjustedInv, InsertInv, RefundInv,
     ClaimCheckInv, ClaimInv, ReopenInv, SubmitInv, CompleteInv, LinkInv, BonusInv, FailsInv
     DEF Continue
<1>3. ASSUME NEW t \in Tasks, TimePasses(t) PROVE IInv'
  BY <1>3, TimePassesInv
<1>4. ASSUME UNCHANGED vars PROVE IInv'
  <2>1. /\ UNCHANGED <<quiet, tasks, credits, pow, wrote, paid, pc, at, todo, seen>>
        /\ late' = late
    BY <1>4 DEF vars
  <2>. QED
    BY <2>1, SameInv
<1>. QED
  BY <1>1, <1>2, <1>3, <1>4 DEF Next

-----------------------------------------------------------------------------
(* Payments and what follows them *)

NoPay(i) == \A n \in DOMAIN todo[i] : todo[i][n].kind # "pay"

\* Paid the worker of a task, and a link of his chain is still to come.
OwesLink(i, p) ==
  /\ at[i] # None /\ at[i].row.worker = p
  /\ \/ pc[i] = "pow"
     \/ pc[i] \in {"adjust", "write"} /\ at[i].next = "pow" /\ NoPay(i)

\* Paid the worker of a task, and the fee is still to come.
OwesFee(i, t) ==
  /\ at[i] # None /\ at[i].task = t
  /\ NoPay(i) /\ \E n \in DOMAIN todo[i] : todo[i][n].kind = "fee"

LinkOwers(p) == {i \in Invocations : OwesLink(i, p)}
FeeOwers(t) == {i \in Invocations : OwesFee(i, t)}

\* The fee comes right after the pay.
FeeFollows(i) ==
  \A n \in DOMAIN todo[i] : todo[i][n].kind = "fee" =>
    n = 1 \/ (n = 2 /\ todo[i][1].kind = "pay")

Debts ==
  /\ \A i \in Invocations : FeeFollows(i)
  /\ \A p \in Participants : pow[p] + Cardinality(LinkOwers(p)) <= paid.to[p]
  /\ \A t \in Tasks : wrote[t]["fee"][Treasury] + Cardinality(FeeOwers(t)) <= paid.of[t]

\* A set of invocations that gains at most one of them, gains none, or loses one.
LEMMA Counted ==
  ASSUME NEW A \in SUBSET Invocations, NEW B \in SUBSET Invocations, NEW i
  PROVE  /\ Cardinality(A) \in Nat /\ Cardinality(B) \in Nat
         /\ B \subseteq A => Cardinality(B) <= Cardinality(A)
         /\ B \subseteq A \cup {i} => Cardinality(B) <= Cardinality(A) + 1
         /\ B \subseteq A \ {i} /\ i \in A => Cardinality(B) + 1 <= Cardinality(A)
<1>1. IsFiniteSet(A) /\ IsFiniteSet(B)
  BY BoardAssumption, FS_Subset
<1>2. Cardinality(A) \in Nat /\ Cardinality(B) \in Nat
  BY <1>1, FS_CardinalityType
<1>3. B \subseteq A => Cardinality(B) <= Cardinality(A)
  BY <1>1, FS_Subset
<1>4. ASSUME B \subseteq A \cup {i} PROVE Cardinality(B) <= Cardinality(A) + 1
  <2>1. /\ IsFiniteSet(A \cup {i})
        /\ Cardinality(A \cup {i}) = IF i \in A THEN Cardinality(A) ELSE Cardinality(A) + 1
    BY <1>1, FS_AddElement
  <2>2. Cardinality(B) <= Cardinality(A \cup {i})
    BY <1>4, <2>1, FS_Subset
  <2>. QED
    BY <1>2, <2>1, <2>2
<1>5. ASSUME B \subseteq A \ {i}, i \in A PROVE Cardinality(B) + 1 <= Cardinality(A)
  <2>1. IsFiniteSet(A \ {i}) /\ Cardinality(A \ {i}) = Cardinality(A) - 1
    BY <1>1, <1>5, FS_RemoveElement
  <2>2. Cardinality(B) <= Cardinality(A \ {i})
    BY <1>5, <2>1, FS_Subset
  <2>. QED
    BY <1>2, <2>1, <2>2
<1>. QED
  BY <1>2, <1>3, <1>4, <1>5

\* Invocations a step leaves alone owe what they owed.
LEMMA OthersOwe ==
  ASSUME NEW i \in Invocations,
         \A j \in Invocations \ {i} : pc'[j] = pc[j] /\ at'[j] = at[j] /\ todo'[j] = todo[j]
  PROVE  /\ \A j \in Invocations \ {i} : FeeFollows(j) => FeeFollows(j)'
         /\ \A p \in Participants : LinkOwers(p)' \ {i} = LinkOwers(p) \ {i}
         /\ \A t \in Tasks : FeeOwers(t)' \ {i} = FeeOwers(t) \ {i}
<1>1. ASSUME NEW j \in Invocations \ {i}
      PROVE  /\ FeeFollows(j) => FeeFollows(j)'
             /\ \A p \in Participants : OwesLink(j, p)' <=> OwesLink(j, p)
             /\ \A t \in Tasks : OwesFee(j, t)' <=> OwesFee(j, t)
  BY DEF FeeFollows, OwesLink, OwesFee, NoPay
<1>. QED
  BY <1>1 DEF LinkOwers, FeeOwers

\* Most steps write no payment, fee or link and make no debt.
LEMMA NoDebt ==
  ASSUME IInv, Debts, NEW i \in Invocations, UNCHANGED <<wrote, pow, paid>>,
         \A j \in Invocations \ {i} : pc'[j] = pc[j] /\ at'[j] = at[j] /\ todo'[j] = todo[j],
         FeeFollows(i)',
         \A p \in Participants : OwesLink(i, p)' => OwesLink(i, p),
         \A t \in Tasks : OwesFee(i, t)' => OwesFee(i, t)
  PROVE  Debts'
<1>1. \A j \in Invocations : FeeFollows(j)'
  BY OthersOwe DEF Debts
<1>2. ASSUME NEW p \in Participants
      PROVE  pow'[p] + Cardinality(LinkOwers(p))' <= paid'.to[p]
  <2>1. LinkOwers(p)' \subseteq LinkOwers(p) /\ LinkOwers(p) \subseteq Invocations
    BY OthersOwe DEF LinkOwers
  <2>2. PICK A \in SUBSET Invocations, B \in SUBSET Invocations :
          A = LinkOwers(p) /\ B = LinkOwers(p)' /\ B \subseteq A
    BY <2>1
  <2>3. /\ Cardinality(A) \in Nat /\ Cardinality(B) \in Nat
        /\ Cardinality(B) <= Cardinality(A)
    BY <2>2, Counted
  <2>4. pow[p] \in Nat /\ paid.to[p] \in Nat /\ pow[p] + Cardinality(A) <= paid.to[p]
    BY <2>2 DEF IInv, Shapes, Debts
  <2>. QED
    BY <2>2, <2>3, <2>4
<1>3. ASSUME NEW t \in Tasks
      PROVE  wrote'[t]["fee"][Treasury] + Cardinality(FeeOwers(t))' <= paid'.of[t]
  <2>1. FeeOwers(t)' \subseteq FeeOwers(t) /\ FeeOwers(t) \subseteq Invocations
    BY OthersOwe DEF FeeOwers
  <2>2. PICK A \in SUBSET Invocations, B \in SUBSET Invocations :
          A = FeeOwers(t) /\ B = FeeOwers(t)' /\ B \subseteq A
    BY <2>1
  <2>3. /\ Cardinality(A) \in Nat /\ Cardinality(B) \in Nat
        /\ Cardinality(B) <= Cardinality(A)
    BY <2>2, Counted
  <2>4. /\ wrote[t]["fee"][Treasury] \in Nat /\ paid.of[t] \in Nat
        /\ wrote[t]["fee"][Treasury] + Cardinality(A) <= paid.of[t]
    BY <2>2, BoardAssumption DEF IInv, Shapes, Debts, Kinds
  <2>. QED
    BY <2>2, <2>3, <2>4
<1>. QED
  BY <1>1, <1>2, <1>3 DEF Debts

\* A step that leaves the invocation nothing to change, and no link to make.
LEMMA Settles ==
  ASSUME IInv, Debts, NEW i \in Invocations, UNCHANGED <<wrote, pow, paid>>,
         \A j \in Invocations \ {i} : pc'[j] = pc[j] /\ at'[j] = at[j] /\ todo'[j] = todo[j],
         todo'[i] = <<>>, at'[i] = None \/ pc'[i] \notin {"adjust", "write", "pow"}
  PROVE  Debts'
<1>1. FeeFollows(i)' /\ \A t \in Tasks : ~OwesFee(i, t)'
  BY DEF FeeFollows, OwesFee
<1>2. \A p \in Participants : ~OwesLink(i, p)'
  BY DEF OwesLink
<1>. QED
  BY <1>1, <1>2, NoDebt

\* A step after which the invocation owes changes that make no payment.
LEMMA Charges ==
  ASSUME IInv, Debts, NEW i \in Invocations, UNCHANGED <<wrote, pow, paid>>,
         \A j \in Invocations \ {i} : pc'[j] = pc[j] /\ at'[j] = at[j] /\ todo'[j] = todo[j],
         \A n \in DOMAIN todo'[i] : todo'[i][n].kind \notin {"pay", "fee"},
         at'[i].next # "pow", pc'[i] # "pow"
  PROVE  Debts'
<1>1. FeeFollows(i)' /\ \A t \in Tasks : ~OwesFee(i, t)'
  BY DEF FeeFollows, OwesFee
<1>2. \A p \in Participants : ~OwesLink(i, p)'
  BY DEF OwesLink
<1>. QED
  BY <1>1, <1>2, NoDebt

LEMMA InitDebts == ASSUME Init PROVE Debts
<1>1. \A p \in Participants : pow[p] = 0 /\ paid.to[p] = 0
  BY DEF Init
<1>2. \A t \in Tasks : wrote[t]["fee"][Treasury] = 0 /\ paid.of[t] = 0
  BY BoardAssumption DEF Init, Kinds
<1>3. \A i \in Invocations : at[i] = None /\ todo[i] = <<>>
  BY DEF Init
<1>4. /\ \A p \in Participants : LinkOwers(p) = {}
      /\ \A t \in Tasks : FeeOwers(t) = {}
      /\ \A i \in Invocations : FeeFollows(i)
  BY <1>3 DEF LinkOwers, FeeOwers, OwesLink, OwesFee, FeeFollows
<1>5. /\ \A p \in Participants : Cardinality(LinkOwers(p)) = 0
      /\ \A t \in Tasks : Cardinality(FeeOwers(t)) = 0
  BY <1>4, FS_EmptySet
<1>. QED
  BY <1>1, <1>2, <1>4, <1>5 DEF Debts

LEMMA CallDebts ==
  ASSUME IInv, Debts, NEW i \in Invocations, Call(i) PROVE Debts'
<1>1. pc[i] = "idle" /\ at[i] = None /\ todo[i] = <<>>
  BY DEF Call, Post, Cancel, Claim, Submit, Get, Approve, Reject, Enter, IInv, Held
<1>2. CASE \E t \in Tasks, p \in Callers, r \in Rewards : Post(i, t, p, r)
  <2>1. PICK t \in Tasks, p \in Callers, r \in Rewards : Post(i, t, p, r)
    BY <1>2
  <2>2. PICK c \in Changes : c = Change(p, -r, "escrow")
    <3>1. Change(p, -r, "escrow") \in Changes
      BY BoardAssumption, FeeInt DEF Change, Changes, Kinds
    <3>. QED
      BY <3>1
  <2>3. c.kind = "escrow"
    BY <2>2 DEF Change
  <2>4. /\ UNCHANGED <<wrote, pow, paid>> /\ pc'[i] = "adjust" /\ todo'[i] = <<c>>
        /\ at'[i].next = "insert"
        /\ \A j \in Invocations \ {i} :
             pc'[j] = pc[j] /\ at'[j] = at[j] /\ todo'[j] = todo[j]
    BY <2>1, <2>2 DEF Post, Enter, Goto, IInv, Shapes
  <2>. QED
    BY <2>3, <2>4, Charges
<1>3. CASE ~\E t \in Tasks, p \in Callers, r \in Rewards : Post(i, t, p, r)
  <2>1. PICK t \in Tasks, a \in Callers \cup {None} :
          \/ Cancel(i, t, a) \/ Claim(i, t, a) \/ Submit(i, t, a) \/ Get(i, t)
          \/ Approve(i, t, a) \/ Reject(i, t, a)
    BY <1>3 DEF Call
  <2>2. /\ UNCHANGED <<wrote, pow, paid, todo>>
        /\ \A j \in Invocations \ {i} : at'[j] = at[j]
    BY <2>1 DEF Cancel, Claim, Submit, Get, Approve, Reject, Enter, IInv, Shapes
  <2>3. \E await \in {"cancel", "claimant", "reopen", "submit", "complete", "reject"} :
          pc' = [pc EXCEPT ![i] = await]
    BY <2>1 DEF Cancel, Claim, Submit, Get, Approve, Reject, Goto
  <2>4. /\ pc'[i] \notin {"adjust", "write", "pow"} /\ todo'[i] = <<>>
        /\ \A j \in Invocations \ {i} : pc'[j] = pc[j] /\ todo'[j] = todo[j]
    BY <1>1, <2>2, <2>3 DEF IInv, Shapes
  <2>. QED
    BY <2>2, <2>4, Settles
<1>. QED
  BY <1>2, <1>3

\* Forgetting a task forgets its debts.
LEMMA ForgetDebts ==
  ASSUME IInv, Debts, NEW i \in Invocations, Forget(i), UNCHANGED <<wrote, pow, paid>>
  PROVE  Debts'
<1>1. /\ at'[i] = None /\ todo'[i] = <<>>
      /\ \A j \in Invocations \ {i} : pc'[j] = pc[j] /\ at'[j] = at[j] /\ todo'[j] = todo[j]
  BY DEF Forget, Goto, IInv, Shapes
<1>. QED
  BY <1>1, Settles

\* The handlers' own writes: what they owe next, if anything.
LEMMA WriteDebts ==
  ASSUME IInv, Debts, NEW i \in Invocations,
         \/ CancelWrite(i) \/ RejectWrite(i) \/ ClaimWrite(i) \/ CompleteWrite(i) \/ PowBonus(i)
  PROVE  Debts'
<1>1. pc[i] \in {"cancel", "reject", "claim", "complete", "bonus"} /\ UNCHANGED <<wrote, pow, paid>>
  BY DEF CancelWrite, RejectWrite, ClaimWrite, CompleteWrite, PowBonus
<1>2. PICK job \in Jobs : job = at[i] /\ job # None
  BY <1>1 DEF IInv, Held, Shapes
<1>3. /\ job.row \in Rows /\ job.row.reward \in Int
      /\ job.agent \in Participants \cup {None} /\ job.row.worker \in Participants \cup {None}
  BY <1>2, FeeInt DEF Jobs, Rows
<1>4. {"idle", "pow"} \subseteq Awaits
  BY DEF Awaits
<1>5. ASSUME NEW changes \in Seq(Changes), Then(i, changes, "idle"),
             \A n \in DOMAIN changes : changes[n].kind \notin {"pay", "fee"}
      PROVE  Debts'
  <2>1. /\ at'[i].next = "idle" /\ pc'[i] = "adjust" /\ todo'[i] = changes
        /\ \A j \in Invocations \ {i} :
             pc'[j] = pc[j] /\ at'[j] = at[j] /\ todo'[j] = todo[j]
    BY <1>2, <1>4, <1>5, Thens
  <2>. QED
    BY <1>1, <1>5, <2>1, Charges
<1>6. CASE CancelWrite(i) \/ RejectWrite(i)
  <2>1. PICK c \in Changes : c = Change(job.agent, job.row.reward, "refund") /\ c.kind = "refund"
    <3>1. /\ Change(job.agent, job.row.reward, "refund") \in Changes
          /\ Change(job.agent, job.row.reward, "refund").kind = "refund"
      BY <1>3 DEF Change, Changes, Kinds
    <3>. QED
      BY <3>1
  <2>2. Then(i, <<c>>, "idle")
    BY <1>2, <1>6, <2>1 DEF CancelWrite, RejectWrite
  <2>3. <<c>> \in Seq(Changes) /\ \A n \in DOMAIN <<c>> : <<c>>[n].kind \notin {"pay", "fee"}
    BY <2>1
  <2>. QED
    BY <1>5, <2>2, <2>3
<1>7. CASE ClaimWrite(i)
  <2>1. PICK c \in Changes : c = Change(job.agent, -CLAIM_COST, "claim") /\ c.kind = "claim"
    <3>1. /\ Change(job.agent, -CLAIM_COST, "claim") \in Changes
          /\ Change(job.agent, -CLAIM_COST, "claim").kind = "claim"
      BY <1>3 DEF Change, Changes, Kinds, CLAIM_COST
    <3>. QED
      BY <3>1
  <2>2. Then(i, <<c>>, "idle")
    BY <1>2, <1>7, <2>1 DEF ClaimWrite
  <2>3. <<c>> \in Seq(Changes) /\ \A n \in DOMAIN <<c>> : <<c>>[n].kind \notin {"pay", "fee"}
    BY <2>1
  <2>. QED
    BY <1>5, <2>2, <2>3
<1>8. CASE CompleteWrite(i)
  <2>1. PICK changes \in Seq(Changes) :
          /\ changes = Payout(job.row) /\ 1 \in DOMAIN changes /\ changes[1].kind = "pay"
          /\ \A n \in DOMAIN changes : changes[n].kind = "fee" => n = 2
    <3>1. /\ Payout(job.row) \in Seq(Changes) /\ Payout(job.row) # <<>>
          /\ Payout(job.row)[1].kind = "pay"
          /\ \A n \in DOMAIN Payout(job.row) : n > 2 => Payout(job.row)[n].kind = "mirror"
      BY <1>3, PayoutShape
    <3>2. \A s \in Seq(Changes) : s # <<>> => 1 \in DOMAIN s
      OBVIOUS
    <3>3. \A s \in Seq(Changes) : \A n \in DOMAIN s : n \in Nat \ {0}
      OBVIOUS
    <3>4. PICK changes \in Seq(Changes) : changes = Payout(job.row)
      BY <3>1
    <3>5. /\ 1 \in DOMAIN changes /\ changes[1].kind = "pay"
          /\ \A n \in DOMAIN changes : n \in Nat \ {0} /\ (n > 2 => changes[n].kind = "mirror")
      BY <3>1, <3>2, <3>3, <3>4
    <3>6. ASSUME NEW n \in DOMAIN changes, changes[n].kind = "fee" PROVE n = 2
      <4>1. n \in Nat \ {0} /\ ~(n > 2) /\ n # 1
        BY <3>5, <3>6
      <4>. QED
        BY <4>1
    <3>. QED
      BY <3>4, <3>5, <3>6
  <2>2. Then(i, changes, "pow")
    BY <1>2, <1>8, <2>1 DEF CompleteWrite
  <2>3. /\ pc'[i] = "adjust" /\ todo'[i] = changes
        /\ \A j \in Invocations \ {i} :
             pc'[j] = pc[j] /\ at'[j] = at[j] /\ todo'[j] = todo[j]
    BY <1>2, <1>4, <2>2, Thens
  <2>4. FeeFollows(i)'
    BY <2>1, <2>3 DEF FeeFollows
  <2>5. ~NoPay(i)'
    BY <2>1, <2>3 DEF NoPay
  <2>6. /\ \A p \in Participants : ~OwesLink(i, p)'
        /\ \A t \in Tasks : ~OwesFee(i, t)'
    BY <2>3, <2>5 DEF OwesLink, OwesFee
  <2>. QED
    BY <1>1, <2>3, <2>4, <2>6, NoDebt
<1>9. CASE PowBonus(i)
  <2>1. job.row.worker \in Participants
    <3>1. ~Posting(i)
      BY <1>2, <1>9 DEF PowBonus, IInv, JobOK, Posts
    <3>2. Serves(i)
      BY <1>2, <3>1 DEF IInv, JobOK
    <3>. QED
      BY <1>2, <1>9, <3>2 DEF PowBonus, Serves
  <2>2. PICK length \in Nat : Then(i, BonusFor(job.row.worker, length), "idle")
    BY <1>2, <1>9, <2>1 DEF PowBonus, IInv, Shapes
  <2>. QED
    BY <1>5, <2>1, <2>2, BonusShape
<1>. QED
  BY <1>6, <1>7, <1>8, <1>9

LEMMA PassDebts ==
  ASSUME IInv, Debts, NEW i \in Invocations,
         \/ AdjustRead(i) \/ Adjusted(i) \/ PostInsert(i) \/ ClaimCheck(i) \/ Reopen(i)
         \/ SubmitWrite(i) \/ Fails(i)
  PROVE  Debts'
<1>1. UNCHANGED <<wrote, pow, paid>>
  BY DEF AdjustRead, Adjusted, PostInsert, ClaimCheck, Reopen, SubmitWrite, Fails
<1>2. CASE Forget(i)
  BY <1>1, <1>2, ForgetDebts
<1>3. CASE AdjustRead(i)
  <2>1. /\ pc[i] = "adjust" /\ pc'[i] = "write" /\ UNCHANGED <<at, todo>>
        /\ \A j \in Invocations \ {i} : pc'[j] = pc[j]
    BY <1>3 DEF AdjustRead, Goto, IInv, Shapes
  <2>2. FeeFollows(i)' /\ NoPay(i)' = NoPay(i)
    BY <2>1 DEF FeeFollows, NoPay, Debts
  <2>3. /\ \A p \in Participants : OwesLink(i, p)' => OwesLink(i, p)
        /\ \A t \in Tasks : OwesFee(i, t)' => OwesFee(i, t)
    BY <2>1, <2>2 DEF OwesLink, OwesFee
  <2>. QED
    BY <1>1, <2>1, <2>2, <2>3, NoDebt
<1>4. CASE Adjusted(i) /\ ~Forget(i)
  <2>1. /\ pc[i] = "adjust" /\ todo[i] = <<>> /\ pc' = [pc EXCEPT ![i] = at[i].next]
        /\ UNCHANGED <<at, todo>>
    BY <1>4 DEF Adjusted, Goto
  <2>2. pc'[i] = at[i].next /\ \A j \in Invocations \ {i} : pc'[j] = pc[j]
    BY <2>1 DEF IInv, Shapes
  <2>3. at[i].next \notin {"adjust", "write"}
    <3>1. at[i] # None /\ JobOK(i)
      BY <2>1 DEF IInv, Held
    <3>. QED
      BY <2>1, <3>1 DEF JobOK, Posting, Serves
  <2>4. FeeFollows(i)' /\ NoPay(i)
    BY <2>1 DEF FeeFollows, NoPay
  <2>5. \A p \in Participants : OwesLink(i, p)' => OwesLink(i, p)
    BY <2>1, <2>2, <2>3, <2>4 DEF OwesLink
  <2>6. \A t \in Tasks : OwesFee(i, t)' => OwesFee(i, t)
    BY <2>1 DEF OwesFee
  <2>. QED
    BY <1>1, <2>1, <2>2, <2>4, <2>5, <2>6, NoDebt
<1>5. CASE ClaimCheck(i) \/ (Reopen(i) /\ ~Forget(i))
  <2>1. /\ pc[i] \in {"claimant", "reopen"} /\ todo[i] = <<>> /\ UNCHANGED <<at, todo>>
        /\ pc' = [pc EXCEPT ![i] = IF pc[i] = "reopen" THEN at[i].next ELSE "claim"]
    BY <1>5 DEF ClaimCheck, Reopen, Goto, IInv, Held
  <2>2. pc[i] = "reopen" => at[i].next \in {"idle", "claimant"}
    <3>1. at[i] # None /\ JobOK(i)
      BY <2>1 DEF IInv, Held
    <3>. QED
      BY <3>1 DEF JobOK, Posting, Posts, Serves
  <2>3. /\ pc'[i] \notin {"adjust", "write", "pow"}
        /\ \A j \in Invocations \ {i} : pc'[j] = pc[j]
    BY <2>1, <2>2 DEF IInv, Shapes
  <2>. QED
    BY <1>1, <2>1, <2>3, Settles
<1>. QED
  BY <1>2, <1>3, <1>4, <1>5 DEF PostInsert, SubmitWrite, Fails

\* What is left after the first change, when that was no payment, owes no more
\* than the whole; and a fee is not left over.
LEMMA RestOwes ==
  ASSUME IInv, Debts, NEW i \in Invocations, pc[i] \in {"adjust", "write"}, todo[i] # <<>>,
         at' = at, pc'[i] = "adjust", todo'[i] = Tail(todo[i])
  PROVE  /\ FeeFollows(i)'
         /\ todo[i][1].kind # "pay" =>
              /\ \A p \in Participants : OwesLink(i, p)' => OwesLink(i, p)
              /\ \A t \in Tasks : ~OwesFee(i, t)'
         /\ todo[i][1].kind = "fee" => OwesFee(i, at[i].task)
         /\ \A p \in Participants : OwesLink(i, p)' => at[i].row.worker = p
         /\ \A t \in Tasks : OwesFee(i, t)' => at[i].task = t
<1>1. /\ todo[i] \in Seq(Changes) /\ at[i] # None /\ 1 \in DOMAIN todo[i]
      /\ \A n \in DOMAIN Tail(todo[i]) : /\ n + 1 \in DOMAIN todo[i] /\ n + 1 # 1
                                         /\ Tail(todo[i])[n] = todo[i][n + 1]
      /\ ~Posting(i) => Serves(i)
      /\ Posting(i) => Posts(i)
  BY Owing
<1>2. PICK all \in Seq(Changes), rest \in Seq(Changes) : all = todo[i] /\ rest = Tail(todo[i])
  BY Owing
<1>3. /\ todo'[i] = rest /\ 1 \in DOMAIN all /\ DOMAIN rest \subseteq Nat \ {0}
      /\ DOMAIN all \subseteq Nat \ {0}
      /\ \A n \in DOMAIN rest : n + 1 \in DOMAIN all /\ rest[n] = all[n + 1]
  BY <1>1, <1>2
<1>4. \A n \in DOMAIN all : all[n].kind = "fee" => n = 1 \/ (n = 2 /\ all[1].kind = "pay")
  BY <1>2 DEF Debts, FeeFollows
<1>5. \A n \in DOMAIN all : all[n].kind = "pay" => n = 1
  <2>1. CASE Posting(i)
    <3>1. all = <<Change(at[i].agent, -at[i].row.reward, "escrow")>>
      BY <1>1, <1>2, <2>1 DEF Posts
    <3>. QED
      BY <3>1 DEF Change
  <2>2. CASE ~Posting(i)
    BY <1>1, <1>2, <2>2 DEF Serves
  <2>. QED
    BY <2>1, <2>2
<1>6. \A n \in DOMAIN rest : rest[n].kind = "fee" => n = 1 /\ all[1].kind = "pay"
  BY <1>3, <1>4
<1>7. FeeFollows(i)'
  BY <1>3, <1>6 DEF FeeFollows
<1>8. ASSUME all[1].kind # "pay"
      PROVE  /\ \A p \in Participants : OwesLink(i, p)' => OwesLink(i, p)
             /\ \A t \in Tasks : ~OwesFee(i, t)'
  <2>1. NoPay(i)
    BY <1>2, <1>5, <1>8 DEF NoPay
  <2>2. \A p \in Participants : OwesLink(i, p)' => OwesLink(i, p)
    BY <2>1 DEF OwesLink
  <2>3. \A t \in Tasks : ~OwesFee(i, t)'
    BY <1>3, <1>6, <1>8 DEF OwesFee
  <2>. QED
    BY <2>2, <2>3
<1>9. ASSUME all[1].kind = "fee" PROVE OwesFee(i, at[i].task)
  BY <1>1, <1>2, <1>3, <1>5, <1>9 DEF OwesFee, NoPay
<1>10. /\ \A p \in Participants : OwesLink(i, p)' => at[i].row.worker = p
       /\ \A t \in Tasks : OwesFee(i, t)' => at[i].task = t
  BY DEF OwesLink, OwesFee
<1>. QED
  BY <1>2, <1>7, <1>8, <1>9, <1>10

LEMMA MirrorDebts ==
  ASSUME IInv, Debts, NEW i \in Invocations, MirrorSkipped(i) PROVE Debts'
<1>1. /\ pc[i] = "adjust" /\ todo[i] # <<>> /\ Head(todo[i]).kind = "mirror"
      /\ UNCHANGED <<wrote, pow, paid, pc, at>> /\ todo'[i] = Tail(todo[i])
      /\ \A j \in Invocations \ {i} : todo'[j] = todo[j]
  BY DEF MirrorSkipped, IInv, Shapes
<1>2. todo[i][1].kind = "mirror"
  BY <1>1, Owing
<1>3. /\ FeeFollows(i)'
      /\ \A p \in Participants : OwesLink(i, p)' => OwesLink(i, p)
      /\ \A t \in Tasks : ~OwesFee(i, t)'
  BY <1>1, <1>2, RestOwes
<1>. QED
  BY <1>1, <1>3, NoDebt

\* The link a payment owed.
LEMMA LinkDebts ==
  ASSUME IInv, Debts, NEW i \in Invocations, PowLink(i) PROVE Debts'
<1>1. /\ pc[i] = "pow" /\ pc'[i] = "bonus" /\ UNCHANGED <<wrote, paid, at, todo>>
      /\ \A j \in Invocations \ {i} : pc'[j] = pc[j]
      /\ pow' = [pow EXCEPT ![at[i].row.worker] = @ + 1]
  BY DEF PowLink, Goto, IInv, Shapes
<1>2. at[i] # None /\ at[i].row.worker \in Participants
  <2>1. at[i] # None /\ JobOK(i)
    BY <1>1 DEF IInv, Held
  <2>. QED
    BY <1>1, <2>1 DEF JobOK, Posts, Serves
<1>3. PICK who \in Participants : who = at[i].row.worker
  BY <1>2
<1>4. FeeFollows(i)' /\ (\A t \in Tasks : OwesFee(i, t)' => OwesFee(i, t))
  BY <1>1 DEF FeeFollows, OwesFee, NoPay, Debts
<1>5. /\ i \in LinkOwers(who) /\ (\A p \in Participants : i \notin LinkOwers(p)')
  BY <1>1, <1>2, <1>3 DEF LinkOwers, OwesLink
<1>6. \A j \in Invocations : FeeFollows(j)'
  BY <1>1, <1>4, OthersOwe DEF Debts
<1>7. ASSUME NEW p \in Participants
      PROVE  pow'[p] + Cardinality(LinkOwers(p))' <= paid'.to[p]
  <2>1. /\ LinkOwers(p)' \ {i} = LinkOwers(p) \ {i}
        /\ LinkOwers(p) \subseteq Invocations /\ LinkOwers(p)' \subseteq Invocations
    BY <1>1, OthersOwe DEF LinkOwers
  <2>2. PICK A \in SUBSET Invocations, B \in SUBSET Invocations :
          A = LinkOwers(p) /\ B = LinkOwers(p)' /\ B \subseteq A \ {i}
    BY <1>5, <2>1
  <2>3. /\ Cardinality(A) \in Nat /\ Cardinality(B) \in Nat
        /\ Cardinality(B) <= Cardinality(A)
        /\ i \in A => Cardinality(B) + 1 <= Cardinality(A)
    BY <2>2, Counted
  <2>4. pow[p] \in Nat /\ paid.to[p] \in Nat /\ pow[p] + Cardinality(A) <= paid.to[p]
    BY <2>2 DEF IInv, Shapes, Debts
  <2>5. pow'[p] = IF p = who THEN pow[p] + 1 ELSE pow[p]
    BY <1>1, <1>3 DEF IInv, Shapes
  <2>. QED
    BY <1>1, <1>5, <2>2, <2>3, <2>4, <2>5
<1>8. ASSUME NEW t \in Tasks
      PROVE  wrote'[t]["fee"][Treasury] + Cardinality(FeeOwers(t))' <= paid'.of[t]
  <2>1. /\ FeeOwers(t)' \subseteq FeeOwers(t)
        /\ FeeOwers(t) \subseteq Invocations /\ FeeOwers(t)' \subseteq Invocations
    BY <1>1, <1>4, OthersOwe DEF FeeOwers
  <2>2. PICK A \in SUBSET Invocations, B \in SUBSET Invocations :
          A = FeeOwers(t) /\ B = FeeOwers(t)' /\ B \subseteq A
    BY <2>1
  <2>3. /\ Cardinality(A) \in Nat /\ Cardinality(B) \in Nat
        /\ Cardinality(B) <= Cardinality(A)
    BY <2>2, Counted
  <2>4. /\ wrote[t]["fee"][Treasury] \in Nat /\ paid.of[t] \in Nat
        /\ wrote[t]["fee"][Treasury] + Cardinality(A) <= paid.of[t]
    BY <2>2, BoardAssumption DEF IInv, Shapes, Debts, Kinds
  <2>. QED
    BY <1>1, <2>2, <2>3, <2>4
<1>. QED
  BY <1>6, <1>7, <1>8 DEF Debts

\* A payment makes both debts, a fee settles one.
LEMMA BalanceDebts ==
  ASSUME IInv, Debts, NEW i \in Invocations, AdjustWrite(i) PROVE Debts'
<1>1. /\ pc[i] = "write" /\ at[i] # None /\ at[i].task \in Tasks /\ todo[i] # <<>>
      /\ Head(todo[i]) = todo[i][1] /\ todo[i][1] \in Changes /\ 1 \in DOMAIN todo[i]
      /\ todo[i][1].who \in Participants
      /\ ~Posting(i) => Serves(i)
      /\ Posting(i) => Posts(i)
  BY Owing DEF AdjustWrite, IInv, Held
<1>2. PICK t \in Tasks, c \in Changes : t = at[i].task /\ c = todo[i][1]
  BY <1>1
<1>3. /\ UNCHANGED <<pow, at>> /\ pc'[i] = "adjust" /\ todo'[i] = Tail(todo[i])
      /\ \A j \in Invocations \ {i} : pc'[j] = pc[j] /\ todo'[j] = todo[j]
  BY DEF AdjustWrite, Goto, IInv, Shapes
<1>4. wrote' = IF c.kind \in Kinds THEN [wrote EXCEPT ![t][c.kind][c.who] = @ + 1] ELSE wrote
  BY <1>1, <1>2 DEF AdjustWrite
<1>5. paid' = IF c.kind = "pay" THEN [of |-> [paid.of EXCEPT ![t] = @ + 1],
                                      to |-> [paid.to EXCEPT ![c.who] = @ + 1]]
                                ELSE paid
  BY <1>1, <1>2 DEF AdjustWrite
<1>6. c.who \in Participants /\ {"pay", "fee"} \subseteq Kinds /\ Treasury \in Participants
  BY <1>1, <1>2, BoardAssumption DEF Kinds
<1>7. paid.of \in [Tasks -> Nat] /\ paid.to \in [Participants -> Nat]
  BY DEF IInv, Shapes
<1>8. /\ \A u \in Tasks :
           paid'.of[u] = IF c.kind = "pay" /\ u = t THEN paid.of[u] + 1 ELSE paid.of[u]
      /\ \A p \in Participants :
           paid'.to[p] = IF c.kind = "pay" /\ p = c.who THEN paid.to[p] + 1 ELSE paid.to[p]
  BY <1>5, <1>6, <1>7
<1>9. ASSUME NEW u \in Tasks
      PROVE  wrote'[u]["fee"][Treasury] <= IF c.kind = "fee" /\ u = t
                                             THEN wrote[u]["fee"][Treasury] + 1
                                             ELSE wrote[u]["fee"][Treasury]
  <2>. PICK w \in [Tasks -> [Kinds -> [Participants -> Nat]]] : w = wrote
    BY DEF IInv, Shapes
  <2>1. /\ c.kind \notin Kinds => wrote'[u]["fee"][Treasury] = w[u]["fee"][Treasury]
        /\ c.kind \in Kinds => wrote'[u]["fee"][Treasury] =
             IF u = t /\ c.kind = "fee" /\ c.who = Treasury THEN w[u]["fee"][Treasury] + 1
                                                           ELSE w[u]["fee"][Treasury]
    BY <1>4, <1>6
  <2>2. wrote[u]["fee"][Treasury] \in Nat
    BY <1>6 DEF IInv, Shapes
  <2>. QED
    BY <1>6, <2>1, <2>2
<1>10. /\ FeeFollows(i)'
       /\ c.kind # "pay" =>
            /\ \A p \in Participants : OwesLink(i, p)' => OwesLink(i, p)
            /\ \A u \in Tasks : ~OwesFee(i, u)'
       /\ c.kind = "fee" => OwesFee(i, t)
       /\ \A p \in Participants : OwesLink(i, p)' => at[i].row.worker = p
       /\ \A u \in Tasks : OwesFee(i, u)' => u = t
  BY <1>1, <1>2, <1>3, RestOwes
<1>11. c.kind = "pay" => c.who = at[i].row.worker
  <2>1. CASE Posting(i)
    <3>1. todo[i] = <<Change(at[i].agent, -at[i].row.reward, "escrow")>>
      BY <1>1, <2>1 DEF Posts
    <3>. QED
      BY <1>2, <3>1 DEF Change
  <2>2. CASE ~Posting(i)
    BY <1>1, <1>2, <2>2 DEF Serves
  <2>. QED
    BY <2>1, <2>2
<1>12. \A j \in Invocations : FeeFollows(j)'
  BY <1>3, <1>10, OthersOwe DEF Debts
<1>13. ASSUME NEW p \in Participants
       PROVE  pow'[p] + Cardinality(LinkOwers(p))' <= paid'.to[p]
  <2>1. /\ LinkOwers(p)' \ {i} = LinkOwers(p) \ {i}
        /\ LinkOwers(p) \subseteq Invocations /\ LinkOwers(p)' \subseteq Invocations
        /\ i \in LinkOwers(p)' => OwesLink(i, p)'
        /\ OwesLink(i, p) => i \in LinkOwers(p)
    BY <1>3, OthersOwe DEF LinkOwers
  <2>2. PICK A \in SUBSET Invocations, B \in SUBSET Invocations :
          A = LinkOwers(p) /\ B = LinkOwers(p)'
    BY <2>1
  <2>3. /\ B \subseteq A \cup {i}
        /\ ~(c.kind = "pay" /\ p = c.who) => B \subseteq A
    BY <1>10, <1>11, <2>1, <2>2
  <2>4. /\ Cardinality(A) \in Nat /\ Cardinality(B) \in Nat
        /\ Cardinality(B) <= Cardinality(A) + 1
        /\ ~(c.kind = "pay" /\ p = c.who) => Cardinality(B) <= Cardinality(A)
    BY <2>3, Counted
  <2>5. pow[p] \in Nat /\ paid.to[p] \in Nat /\ pow[p] + Cardinality(A) <= paid.to[p]
    BY <2>2 DEF IInv, Shapes, Debts
  <2>. QED
    BY <1>3, <1>8, <2>2, <2>4, <2>5
<1>14. ASSUME NEW u \in Tasks
       PROVE  wrote'[u]["fee"][Treasury] + Cardinality(FeeOwers(u))' <= paid'.of[u]
  <2>1. /\ FeeOwers(u)' \ {i} = FeeOwers(u) \ {i}
        /\ FeeOwers(u) \subseteq Invocations /\ FeeOwers(u)' \subseteq Invocations
        /\ i \in FeeOwers(u)' => OwesFee(i, u)'
        /\ OwesFee(i, u) => i \in FeeOwers(u)
    BY <1>3, OthersOwe DEF FeeOwers
  <2>2. PICK A \in SUBSET Invocations, B \in SUBSET Invocations :
          A = FeeOwers(u) /\ B = FeeOwers(u)'
    BY <2>1
  <2>3. /\ B \subseteq A \cup {i}
        /\ ~(c.kind = "pay" /\ u = t) => B \subseteq A
        /\ c.kind = "fee" /\ u = t => B \subseteq A \ {i} /\ i \in A
    BY <1>10, <2>1, <2>2
  <2>4. /\ Cardinality(A) \in Nat /\ Cardinality(B) \in Nat
        /\ Cardinality(B) <= Cardinality(A) + 1
        /\ ~(c.kind = "pay" /\ u = t) => Cardinality(B) <= Cardinality(A)
        /\ c.kind = "fee" /\ u = t => Cardinality(B) + 1 <= Cardinality(A)
    BY <2>3, Counted
  <2>5. /\ wrote[u]["fee"][Treasury] \in Nat /\ paid.of[u] \in Nat
        /\ wrote[u]["fee"][Treasury] + Cardinality(A) <= paid.of[u]
    BY <2>2, BoardAssumption DEF IInv, Shapes, Debts, Kinds
  <2>6. wrote'[u]["fee"][Treasury] \in Nat
    BY <1>4, <1>6, <2>5 DEF IInv, Shapes
  <2>. QED
    BY <1>8, <1>9, <2>2, <2>4, <2>5, <2>6
<1>. QED
  BY <1>12, <1>13, <1>14 DEF Debts

LEMMA StepDebts == ASSUME IInv, Debts, [Next]_vars PROVE Debts'
<1>1. ASSUME NEW i \in Invocations, Call(i) PROVE Debts'
  BY <1>1, CallDebts
<1>2. ASSUME NEW i \in Invocations, Continue(i) PROVE Debts'
  BY <1>2, BalanceDebts, MirrorDebts, LinkDebts, WriteDebts, PassDebts DEF Continue
<1>3. ASSUME UNCHANGED <<wrote, pow, paid, pc, at, todo>> PROVE Debts'
  <2>1. ASSUME NEW i \in Invocations
        PROVE  /\ FeeFollows(i)'
               /\ \A p \in Participants : OwesLink(i, p)' <=> OwesLink(i, p)
               /\ \A t \in Tasks : OwesFee(i, t)' <=> OwesFee(i, t)
    BY <1>3 DEF Debts, FeeFollows, OwesLink, OwesFee, NoPay
  <2>2. /\ \A p \in Participants : LinkOwers(p)' = LinkOwers(p)
        /\ \A t \in Tasks : FeeOwers(t)' = FeeOwers(t)
    BY <2>1 DEF LinkOwers, FeeOwers
  <2>. QED
    BY <1>3, <2>1, <2>2 DEF Debts
<1>4. ASSUME NEW t \in Tasks, TimePasses(t) PROVE Debts'
  BY <1>3, <1>4 DEF TimePasses
<1>5. ASSUME UNCHANGED vars PROVE Debts'
  BY <1>3, <1>5 DEF vars
<1>. QED
  BY <1>1, <1>2, <1>4, <1>5 DEF Next

LEMMA DebtsArePaid ==
  ASSUME IInv, Debts
  PROVE  /\ ChainIsPaidWork
         /\ \A t \in Tasks : wrote[t]["fee"][Treasury] <= paid.of[t]
<1>1. ASSUME NEW p \in Participants PROVE pow[p] <= paid.to[p]
  <2>1. PICK A \in SUBSET Invocations : A = LinkOwers(p)
    BY DEF LinkOwers
  <2>2. /\ Cardinality(A) \in Nat /\ pow[p] \in Nat /\ paid.to[p] \in Nat
        /\ pow[p] + Cardinality(A) <= paid.to[p]
    BY <2>1, Counted DEF Debts, IInv, Shapes
  <2>. QED
    BY <2>2
<1>2. ASSUME NEW t \in Tasks PROVE wrote[t]["fee"][Treasury] <= paid.of[t]
  <2>1. PICK A \in SUBSET Invocations : A = FeeOwers(t)
    BY DEF FeeOwers
  <2>2. Cardinality(A) \in Nat
    BY Counted
  <2>3. wrote[t]["fee"][Treasury] \in Nat /\ paid.of[t] \in Nat
    BY BoardAssumption DEF IInv, Shapes, Kinds
  <2>4. wrote[t]["fee"][Treasury] + Cardinality(A) <= paid.of[t]
    BY <2>1 DEF Debts
  <2>. QED
    BY <2>2, <2>3, <2>4
<1>. QED
  BY <1>1, <1>2 DEF ChainIsPaidWork

-----------------------------------------------------------------------------
(* Theorems *)

\* The tables, and what each handler keeps in memory between two awaits, stay
\* rows, jobs and numbers, whatever calls overlap, fail or find a row expired.
THEOREM BoardTypes == Spec => []TypeOK
<1>1. Init => IInv
  BY InitInv
<1>2. IInv /\ [Next]_vars => IInv'
  BY StepInv
<1>3. IInv => TypeOK
  BY InvTypes
<1>. QED
  BY <1>1, <1>2, <1>3, PTL DEF Spec

\* claimTask refuses a poster his own task and payoutSubmittedTask pays the
\* worker it read: nobody is paid for a task of his own, however many calls
\* overlap, and a quiet task's payment goes to whoever did the work.
THEOREM WorkIsOwn == Spec => []PaidForOwnWork
<1>1. Init => IInv
  BY InitInv
<1>2. IInv /\ [Next]_vars => IInv'
  BY StepInv
<1>3. IInv => PaidForOwnWork
  BY InvOwnWork
<1>. QED
  BY <1>1, <1>2, <1>3, PTL DEF Spec

\* postTask charges before it inserts: a posted task was charged to its poster,
\* once, and a quiet one's escrow is whole until it is completed or expired.
THEOREM EscrowIsHeld == Spec => []EscrowHeld
<1>1. Init => IInv
  BY InitInv
<1>2. IInv /\ [Next]_vars => IInv'
  BY StepInv
<1>3. IInv => EscrowHeld
  BY InvEscrow
<1>. QED
  BY <1>1, <1>2, <1>3, PTL DEF Spec

\* Approval, auto-approval, rejection, cancellation and a failure at any await:
\* a quiet task's reward is paid once, to one worker, and never refunded as
\* well; and payoutSubmittedTask takes no fee without a payment.
THEOREM RewardsArePaidOnce == Spec => []PaidOnce
<1>1. Init => IInv /\ Debts
  BY InitInv, InitDebts
<1>2. IInv /\ Debts /\ [Next]_vars => (IInv /\ Debts)'
  BY StepInv, StepDebts
<1>3. IInv /\ Debts => PaidOnce
  BY InvRewardOnce, DebtsArePaid DEF PaidOnce
<1>. QED
  BY <1>1, <1>2, <1>3, PTL DEF Spec

\* payoutSubmittedTask extends a proof-of-work chain after it paid: no chain is
\* longer than the payments its owner got, however many payouts overlap.
THEOREM ChainsArePaidWork == Spec => []ChainIsPaidWork
<1>1. Init => IInv /\ Debts
  BY InitInv, InitDebts
<1>2. IInv /\ Debts /\ [Next]_vars => (IInv /\ Debts)'
  BY StepInv, StepDebts
<1>3. IInv /\ Debts => ChainIsPaidWork
  BY DebtsArePaid
<1>. QED
  BY <1>1, <1>2, <1>3, PTL DEF Spec

=============================================================================
