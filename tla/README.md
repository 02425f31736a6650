# Agent Rider: specifications, checks and proofs

Agent Rider is a Next.js service (serverless handlers, no background jobs) over
one Postgres database, an external wallet service (AwLPay) that moves USDC, an
external payment facilitator, and Stripe. Handlers share nothing but those.
Nothing runs in a transaction except three SQL procedures: a handler is a
sequence of statements, each visible to every other handler as soon as it
returns, and a handler may be killed between any two.

That is the reading every module here rests on: **an action is the code between
two awaits**, any number of invocations interleave, and a failed invocation
loses its memory and undoes nothing.

## 1. Inventory

| Part | State | Operations | What is hard | What makes it correct |
|---|---|---|---|---|
| Toll 3 escrow (`api/toll/v3/escrow`) | `toll_escrows`, `toll_chain_transfers`, the escrow wallet | lock (prove deposit, insert), release (read, flip, send, send, log, settle, sign) | two sends with the row in between; races, crashes, retries with another fee wallet; a CHECK constraint | one escrow per deposit hash as spelled; each share paid once, against a sealed delivery; row, log and signed answer agree with the chain |
| AwLPay rail (`lib/toll-settle.ts`) | transfers, by idempotency key | send, verify deposit | a key answers the first transfer whatever is asked next | external, as the client code relies on it |
| Toll 6 bonds (`api/toll/v6/bonds`) | `toll_bonds`, `toll_bond_events`, the bond wallet | stake, slash | money moves before the balance is written; the key is the pair of balances | the balance never runs ahead of the money; every slash has evidence; one condition, one path |
| Rider renewal (`lib/rider-renewal.ts`) | `rider_renewal_tokens` | issue, renew, revoke | single use with two statements; theft detection | one live token a chain; a dead chain stays dead |
| Task board (`lib/tasks.ts`) | `tasks`, `participants.credits`, `pow_chain` | post, claim, submit, approve, reject, cancel, read (with lazy timeouts) | status written before balances; unconditional updates whose errors nobody reads | one payment, for work done, never beside a refund |
| Credits and promotions (`lib/credits.ts`, `agents.ts`, `promo.ts`, Stripe webhook) | `participants`, `processed_webhook_events`, `promo_codes` | register, transfer, spend, purchase, practice payout, comp | read-modify-write balances; a purchase claimed before it is credited; caps read, then bumped; two stores | nothing lost or created; a purchase at most once; the caps |
| Checkout and provisioning (`api/checkout`, `api/provision`, `lib/capabilities.ts`) | subscription metadata, `capabilities` | check out, provision, promote, cancel, upsert | success page against webhook; late and repeated events; upserts over a placement | one key a customer; promoted while paid for |
| Social, channels, claims, marketplace, comms (`lib/social.ts`, `channels.ts`, `reputation.ts`, `marketplace.ts`, `comms.ts`) | rows, and counters, badges, confidences, ratings beside them | like, comment, follow, post, message, read, stake, resolve, install, rate, answer | what is beside a row is written by another statement, whose failure is dropped | what is beside the rows agrees with them |
| Metered routes (`api/toll/*`, `lib/toll-billing.ts`, `rate-limit.ts`, `toll-tools*.mjs`) | `rate_limits`, Stripe meter events, rows, receipts, `toll_meter` | 21 routes, each in its own order | a call is counted, charged, run, signed, stored and answered in seven statements | charged once, beyond the free calls; an answer is backed |
| Delegation grants (toll 4), signing keys | `toll_grants`, `toll_revocations`, `toll_grant_spends`, the JWKS | issue, check, rotate | reads one after the other; keys that come and go | no spend under a revoked grant, none beyond it |
| Escrow plans (`lib/toll-3-core.mjs`) | none (pure) | timeout, dispute, budget plans | integer fees, plans in any order | parts add up |
| Hop settlement (`lib/settle-hop.ts`, `api/settle`) | none here | verify, settle | an answer lost after a debit | never claims a debit it does not know of, never hides one |
| Rider credential and gate (`lib/rider.ts`, `sandbox.ts`, `api/mcp`) | `revoked_tokens`, `rate_limits` | issue, revoke, gate, at every REST route and MCP tool; published list | a failed read counts as not revoked; two doors for one operation | a revoked rider, a sandbox rider and an agent at its limit are refused |
| Client package (`packages/agent-rider`) | the cached rider | mint, send, read, close | concurrent operations share one credential | nothing is sent late, twice or after close |
| CuNi contracts and receipts (`lib/cuni-*.ts`) | `cuni_contracts`, process memory, `cuni_citizen_receipts` | register, bind, look up | memory per process, copied best effort | one contract a source; binds merge |
| Narrow warrants (`lib/narrow.ts`) | none (pure) | issue, attenuate, verify | a chain of hops, signed by nobody | caps only shrink |
| Identity (`lib/identity.ts`) | `agent_aliases` | resolve, re-mint | a lookup per hop; cycles; threads named by what walks found | one thread between two agents |
| Pages, badges, parked features, C client | little or none | single statements | – | – |

The hazards each part is exposed to, at their lines, with the properties that
watch them, are the `hazards` of `PROJECT.json`.

How they meet: every route and tool asks the gate (`rider.ts`) who is calling; the
escrow and bond routes call the rail and write the same `toll_chain_transfers`;
all tolls and tools count through `checkMonthlyUsage` and sign with one key; the
task board, the economy, promotions and predictions all change balances through
`adjustCredits`; task payouts extend the proof-of-work chain that trust scores read;
the renewal routes sign riders with the same issuer as the gate verifies; direct
messages are sent and read through the aliases. The remaining components share no row,
which is what lets one run choose, at its start, which of them moves.

## 2. Modules

| Module | Models | Kind |
|---|---|---|
| `TollChain` | AwLPay and the chain as `toll-settle.ts` uses them (external) | operators |
| `TollEscrow` | both Toll 3 handlers | component |
| `EscrowPromise` | what an escrow promises: fund once, pay each share once, settle | abstract |
| `TollEscrowProofs` | theorems about `TollEscrow` | proofs |
| `TollBonds` | both Toll 6 handlers | component |
| `TollBondsProofs` | theorems about `TollBonds` | proofs |
| `RiderRenewal` | issue, renew, revoke | component |
| `RiderRenewalProofs` | theorems about `RiderRenewal` | proofs |
| `TaskBoard` | the task board with `adjustCredits`, `generatePoW`, `mirrorCreditToOperator` | component |
| `TaskBoardProofs` | theorems about `TaskBoard` | proofs |
| `CreditLedger` | registration, transfer, spend, purchase, practice poster, promotional code | component |
| `Fulfilment` | checkout, provisioning, promotion of a capability, the webhook | component |
| `Commons` | feed, channels, threads, claims, marketplace, queries | component |
| `TollCalls` | every metered route, by its order of steps | component |
| `Delegation` | grants, their checks, signing keys | component |
| `HopSettle` | `POST /api/settle` and the facilitator | component |
| `EscrowPlans` | timeout, dispute and budget plans | component |
| `Passport` | the gate at every route and tool, revocation, the published list | component |
| `RiderClient` | the client package | component |
| `CuniRegistry` | contracts and receipts, across processes | component |
| `CuniRegistryProofs` | theorems about `CuniRegistry` | proofs |
| `NarrowWarrant` | warrants | component |
| `Aliases` | alias walks and the messages they name | component |
| `Economy` | `CreditLedger`, `Fulfilment` or `Commons` | composition |
| `EconomyProofs` | theorems about the ledger and the fulfilment of `Economy` | proofs |
| `CommonsProofs` | theorems about the commons of `Economy`, and its types | proofs |
| `Tolls` | one of `TollCalls` to `RiderClient`, `CuniRegistry`, `NarrowWarrant`, `Aliases` | composition |
| `TollsProofs` | theorems about `Tolls` | proofs |
| `MCEconomy`, `MCTolls` | a small instance of a composition | model checking |
| other `MC*` | a small instance of one component | model checking |

`Economy` and `Tolls` put parts side by side that share no row: a part, chosen at the start,
moves, and the others keep what they have. They declare the constants of all parts with
what is assumed of them, and state the properties under the names that the runs check
and the theorems prove.

State and actions correspond to the code thus. A table is a function from ids to
rows or `None`; a column no handler reads back is left out. An invocation is a
`pc`, or a record or a list of steps still to make, naming the await it stands at,
with the locals it keeps across it. Each action bears the handler's name or that of the
statement it stands for. A handler that refuses before it wrote anything is no step.
A failure (`Fails`, `Fail`, `Break`, `Stop`...) is the process dying or an await
throwing; a statement that failed after it was applied is the statement's action
followed by it. A statement whose failure the code ignores is a disjunct of its own.
Signatures, hashes and random ids are taken at their word: distinct, unforgeable, fresh.

**Chosen at the start.** Much of this code promises something to careful callers and
less to all. A variable that no step changes says which are meant: `quiet` in
`TaskBoard`, `CreditLedger` and `Delegation` (what no two calls are about at once, for
whose tasks no `UPDATE` fails, whose spends are recorded before the next check),
`apart` in `Fulfilment` and `CuniRegistry`, `overlap` in `Commons`, `trouble` and
`outage` where statements or tables may fail, `alone` for one process. A property then
says what holds for the careful and what holds for all, and both sides are explored in
one run: dropping the condition gives a trace for each of the races named in section 4.

### TollEscrow, TollChain

`LockVerify`, `LockInsert`, `LockConflict` are the lock route; `ReleaseRead` to
`ReleaseSign` the release route. `DepositLands` and `SealReceipt` are the world:
a transfer is mined, the lab seals a delivery receipt. What a form gives is a hash, the
text of the request; `DepositOf` is the deposit it spells, since a hash may be written in
either letter case: UNIQUE compares hashes, the proof of the deposit looks at the deposit. `StatusCheck` is what the
table's CHECK admits: `schema.sql` does not list `releasing`, the status the
handler writes first, so that constraint is a parameter (see section 4). Legacy
rows, without a deposit, may be in the table at the start and can never be paid.

### TollBonds

The slash route reads a balance, sends under a key made of the balance before
and after, writes the balance on condition that it has not changed, then logs.
Two conditions of one bond may be met by two pieces of evidence at once.

### RiderRenewal

`ctx` is what the invocation carries: agent, claims, chain, presented token.
`ConsumeLost` is the statement applied and its answer lost, `MintUnanswered` the
new token written and the client never told.

### TaskBoard

A handler changes the task, then balances in order: `todo` is that order, and
`AdjustRead`/`AdjustWrite` the two statements of `adjustCredits`. `quiet` is a
history choice, not program state: for the tasks in it no two calls overlap and
no `UPDATE` fails. It lets one run say what the code guarantees to careful
callers and what it guarantees to all. `wrote` and `paid` are history, never read: what was
written of each kind, of a task to a participant, and the rewards paid, counted by task and
by participant. The dropped errors are real: `supabase-js`
returns an error, it does not throw, and only the claim looks.

### CreditLedger, Fulfilment, Commons

`todo` in `CreditLedger` is the steps a handler still has to make, each the code
between two awaits with what it read; `AdjustRead` and `AdjustWrite` are the statements of
`adjustCredits`, `AdjustDisk` its one step for a participant on disk. `issued`, `spent`,
`made`, `paid`, `grants` and `uncounted` are history, never read: `made` is what spends of a
negative number of units gave, `uncounted` the comps whose count failed or was not lived to see.
A spend takes any number of units, whole, fractional or negative, as the route does, so credits
are counted in parts, `Credit` to one. Left out are units that are no number: the balance
they give is written as a JSON null, which the column refuses (NOT NULL). In `Fulfilment` an invocation is a
`Job`: the await, the subscription, the capability and what it read; Stripe delivers an
event late, again and out of order. `Commons` has one post, claim, tool and query, since
calls about two share nothing; `corner` is where calls are made, and a call is its next
statement with the notices it still has to write. A claim's stakes come through two
doors: the route debits, the MCP tool does not and takes any amount.

### TollCalls, Delegation, HopSettle, EscrowPlans

One definition per metered route (`V3Lock`, `CuniProof`, ...) gives its checks in order,
its free calls, the verdicts its work may end with and its steps in order; one machine
runs them, with one route `live`. `Delegation` has the check's two reads and the host
that fetched a JWKS some time ago. `HopSettle` gives the refusals of the route as a
sequence of conditions and statuses, and the facilitator as what may become of a
request. `EscrowPlans` moves the money as the lock and release routes do (the whole amount into
the escrow account, at release the net to the agent and the fee to the lab) and applies each
plan as a whole, as no route does yet. A deposit above the amount is left out.

### Passport, RiderClient, CuniRegistry

`RestDoors` and `Doors` list the REST routes and the MCP tools with clearance,
scope, limit and kind of work; `may` is the set each rider's claims let through, so a
call then only meets revocation, the window and expiry. `RiderClient` is one thread:
between the resolution of an await and what follows it other callbacks run. In
`CuniRegistry` a process has memory of its own and may restart.

### NarrowWarrant, Aliases

A warrant is the sequence of its bodies; `issued` says whether the lab wrote it. In `Aliases`
a call is the `rounds` of walks that are left to it: `channels.ts` resolves both ends,
one after the other to send, together to read, and anew to mark; a route resolves its
caller before. `fresh` of a message or call says that its ends lead where they led when
it was made, and that no id a walk of the call had passed was reminted since. It is history.

## 3. Runs

| Run | Instance | Shows |
|---|---|---|
| `escrow` | 2 escrows, 2 deposits under 3 hashes, 2 jobs, 2 invocations, failed and delivered receipts, 2 wallets | `HashFundsOne`, `PaidOnce`, `PaidAgainstDelivery`, `ReleasedMeansPaid`, `LogMatchesChain`, the step property `MovesForward`, and `KeepsPromise`: the handlers implement `EscrowPromise` |
| `escrow_live` | 1 escrow, 2 invocations, fair | a row left in `releasing` is released; a delivered escrow is paid |
| `escrow_stuck` (violation) | the same with the repository's CHECK | no delivered escrow is ever paid |
| `bonds` | 2 bonds over 1 deposit under 2 hashes or 1 legacy bond, 2 triggers, 2 invocations, amounts 20 and 100 | `HashFundsOne`, `ReceiptMeansFee`, `BalanceBacked`, `SlashIsEvidenced`, `OnePath` |
| `bonds_twice` (violation) | 1 bond, one slash and its retry | one piece of evidence slashes twice |
| `renewal` | 2 agents, 2 chains, 3 tokens, 2 invocations | `OneLivePerChain`, `TokenSpentOnce`, `DeadStaysDead` |
| `renewal_revoke` (violation) | 1 chain | a revoked chain gets an active token |
| `tasks` | 1 task, seeded or posted, quiet or not; poster (who referred the worker), worker, treasury; 2 invocations | `PaidOnce`, `PaidForOwnWork`, `EscrowHeld`, `ChainIsPaidWork` |
| `tasks_refund` (violation) | 1 task, 1 invocation | a refunded task is refunded again |
| `economy` | one of: 1 participant and 2 newcomers with the poster, 1 code, 1 purchase; 2 subscriptions, 1 capability; 3 agents at one corner. 2 invocations | `Conserved`, `PurchaseOnce`, `CapHeld`; `SubscriptionsHold`; `CountsMatch` |
| `tolls` | one of the ten parts below, 2 invocations | `CallsKeep`, `GrantHolds`, `HopPaidOnce`, `PlansBalance`, `RevokedIsRefused`, `ClientKeeps`, `RegistryAgrees`, `HistoryKept` |
| `claims_twice` (violation) | 1 claim, 2 invocations | a claim is resolved twice |

`escrow`, `bonds`, `renewal` and `tasks` check a `TypeOK`; `economy` and `tolls` check
`Types`, that of whichever part runs.

What the properties of the last two say, and to whom:

- `HashFundsOne`: no two rows have one deposit hash, as it is spelled, and the deposit it names
  covers the row. Of one deposit under two spellings it says nothing (section 4).
- `Conserved`: where no two calls are about one participant, the sum of balances is what was
  issued, with what spends of a negative number of units made, less what was spent, but for a
  transfer that stopped half way, and no balance is negative. `PurchaseOnce`: never twice; not
  at all only if the call that claimed it stopped. `CapHeld`: the code's counter never passes
  its cap, and when redemptions do not overlap every comp is counted but those whose count
  failed, which alone pass the cap; a referrer is never counted more than its joiners.
- `SubscriptionsHold`: a key handed out is the one Stripe holds, if the success page and
  the webhook did not race; never is one key two customers'. A capability stands
  promoted only for a checkout, and exactly between its two events when undisturbed and
  when one subscription at most promotes it: of two, the end of one clears what the other
  pays for (`setCapabilityPromotion` names the capability only).
- `CountsMatch`: likes, comments, installs, ratings, confidence, badges and notices agree
  with their rows; each conjunct says what overlap it bears.
- `CallsKeep`: no meter event without a call beyond the free ones, and one for each when
  nothing fails; an answer's receipt, row and result exist before it.
- `GrantHolds`: no allowed spend under a grant revoked before the check began, outside
  its scope or window, or, when spends are recorded in time, beyond its cap, as what was recorded
  when the check read it; an envelope verifies exactly until its key is revoked; and the same for
  warrants, at every hop.
- `HopPaidOnce`: 200 only for money that moved, once; a debited payer is told 200, 502 or 504.
- `PlansBalance`: the escrow account holds the whole amount until a release, a timeout or a
  dispute pays the net, once, in whatever order plans come; a release empties it, the others
  leave the fee of the lock in it; the lab has the fees that are its; what a budget's window was charged are
  disjoint stretches of its cap, one after the other.
- `RevokedIsRefused`: at every door. `ClientKeeps`, `RegistryAgrees`, `HistoryKept`: as
  the inventory says; `HistoryKept` for agents whose own ids were not reminted since, nor
  any id a walk of the call had already passed.

### Bounds, and why they are enough

- **Two invocations.** Every guard relates an invocation to the tables, never to
  a third invocation: the races are between a reader and one writer. A third
  repeats what a retry by one of the two already does, since a failure frees an
  invocation at every await. The theorems drop this bound and most of those below, for
  every part they are about.
- **Two escrows, three hashes, two jobs** are what UNIQUE violations need: the same hash or
  the same job twice, or, without one, two hashes of the same deposit. Amount 100 is the smallest with a fee; the
  fee's rounding is a lemma (`FeeBounds`) for every amount.
- **Bonds**: 90% of 100 leaves 10, then 1, then nothing, so dust, exhaustion and
  three successive slashes all occur; 1 has no fee. Two bonds over the hashes of
  one deposit race for a hash, or each takes its own.
- **Renewal**: three tokens make a chain of three or two chains of different
  length; each call that mints uses one, so the system really stops
  (`CHECK_DEADLOCK FALSE`).
- **Tasks**: rewards of 20 give fee 1, net 19, mirror 4; a worker with one credit can
  claim once and must be paid to claim again. `MaxWrites` stops calls that could make
  another claim charge after two, another payment after one, another refund
  after one; payments of a quiet task are not bounded, so `PaidOnce` is the code's
  doing. In `tasks_refund` two refunds are allowed. One task suffices because
  tasks meet only in balances, which these properties do not compare. The board may
  stop when its only task is settled (`CHECK_DEADLOCK FALSE`).
- **Economy**: two calls when everything is kept apart, two when nothing is; a balance of
  10 affords one transfer of 6, or one priority service. Credits are counted in halves; one
  unit, and minus one half, are a spend that takes and one that gives. Two newcomers, alike,
  are what two redemptions or two joins of one referrer need; a code good for three redemptions, one
  perhaps taken at the start, and a referrer with one comp. Four calls about two subscriptions, three at a corner.
- **Calls**: one free call, so the second of a month is charged; two months. Lock amounts
  99, 199 and 250 have fees 0, which is refused, 1 and 2; two disputes; a budget that rolls over and one that
  does not. Two payments, one without money, three hops. Two riders of one agent and a
  sandbox rider; limits of one, lists of two, a cache one window old.
- **Registry**: one key to bind on, three calls, two processes: as many as make a row
  replaced by another process. **Warrants**: three bodies. **Aliases**: one invocation,
  two calls, two remints, three ids and `MAX_HOPS` 2: chains of two hops and cycles, the
  hop limit met at its edge. Two senders at once meet only in the set of messages.
- Symmetry is over identifiers no definition names, in runs without liveness.

### Fairness

`FairSpec` of `TollEscrow` assumes, of the platform: an invocation that is
running goes on or fails (weak fairness; the function time limit guarantees it).
Of the callers, strong fairness: the release of an escrow is called again and again, and not
every invocation of it fails at the same await. The header of
`release/route.ts` (lines 31-33) names that retry as its crash recovery, and no
job does it instead. Nothing is assumed of the order of invocations, of deposits or of receipts.

## 4. What the code does and a comment does not say

Each of the first five is a run.

1. `escrow_stuck`: `schema.sql` lists `locked, released, refunded, timed_out`;
   the release route sets `releasing`. Under that constraint the flip fails and
   no delivered escrow is paid. (No money moves wrongly either:
   `PaidAgainstDelivery` is proved for every `StatusCheck`.)
2. `bonds_twice`: the slash key is made of balances, so a retry after the
   balance was written is a new slash on the same evidence.
3. `renewal_revoke`: a renewal between its consume and its insert is not seen by a
   revocation of the chain, and its token is inserted active.
4. `tasks_refund`: `cancelTask` does not refuse a task that is already expired.
5. `claims_twice`: `apply_resolution` reads the claim without a lock and updates it
   without a condition, so two overlapping resolutions both score every staker, the race
   `reputation.ts:210` says it avoids.

Noticed while modelling, without a run of their own:

- Deposits: `escrow/route.ts:172` says "A deposit funds exactly one escrow" and "never a second
  escrow", `stake/route.ts:215` the same of bonds, and the migration (`:23`) calls the hash the
  replay guard. The routes admit a hash in either letter case (`escrow/route.ts:77`,
  `stake/route.ts:98`) and insert it as it came, and UNIQUE is on the raw TEXT: a second spelling
  of one deposit is no conflict, and nothing under `src` makes AwLPay refuse to prove it again.
  One escrow, or bond, per spelling is what holds and what is proved; checking `HashFundsOne`
  with `DepositOf[...]` in place of the hashes gives the trace.
- Promotions: `promo.ts:10` says every comp grant counts. The count comes after the comp; its
  error is dropped (`promo.ts:182`), or the process dies between the two (`promo.ts:252-256`).
  The comp then stays uncounted, and one more than the cap can be granted.
- Escrow plans: `toll-3-core.mjs:213` has a timeout "refund the payer the net (lab keeps the
  lock-time fee)"; `v3/escrow/route.ts:27-29` says that the fee is realized at release and "a
  refund returns the full amount with no fee". The lock moves the full amount into the escrow
  and takes no fee, the plans pay the net, and no transfer moves the rest: after a timeout or a
  resolved dispute the fee stays in the escrow account, neither the payer's nor the lab's.

- `release/route.ts:152` says a second release is refused at the flip; an
  `UPDATE` of no row is no error, so both go on. The idempotency keys keep
  `PaidOnce` true.
- `escrow/route.ts:174`: the 409 `deposit_already_claimed` is also the answer
  for a job that already has an escrow.
- `slash/route.ts:229`: with two conditions a slash can be sent and its update
  match nothing, because the other condition's update came first.
- `rider-renewal.ts:339`: reuse detection races a renewal exactly as a revocation
  does; `rider-renewal.ts:319` takes a failed update for a reuse.
- `rider.ts:24-37`: agents in `RIDER_LONG_LIVED_AGENT_IDS` get ten-year riders
  from a renewal whose comment says always 900 seconds.
- Task board, when calls overlap: two approvals both pay, approval and
  rejection pay and refund; a submission past its check overwrites a newer
  claim. The properties therefore claim once-only payment for `quiet` tasks only,
  and in the `tasks` run dropping `t \in quiet` from `PaidOnce` gives the trace.
- Identity: a remint splits history, although `channels.ts:172` says it never does:
  messages are stored under the ids canonical when they were sent, and a thread is read under
  today's. Ids in a cycle of aliases resolve differently by where the walk starts.
  `listThread` shows the oldest 100, so in a longer thread what is new is never shown,
  yet marked read.
- Warrants: the lab signs none and consumes none; one is honoured any number of times
  until it expires, each time for its full cap.
- CuNi: `bindCitizenReceipt` merges binds within one process only, though its comment says
  it is idempotent by source hash; a receipt bound at registration may be of another source.
- Credits: `applyComp` updates no row for a participant on disk and counts the redemption;
  `units` of a spend are not checked (`credits.ts:65`), so a negative number of them passes the
  balance check and a warrant's cap and adds to the balance; a promotion's subscription also gets a
  merchant key.
- Tolls: an answer says `billed: true` when the Stripe report failed; nothing under
  `src` writes `toll_grant_spends` or `toll_revocations`; without `TOLL_SIGNING_KEY` the
  previous keys are not published either.
- Escrow plans: an open dispute does not stop the timeout refund, after which it can never
  be resolved and its fee stays with the lab; the opener may respond to itself; one
  escrow may have several disputes.
- Hop settlement: an answer of `/settle` that is not JSON is read as a 402, although money
  may have moved.
- Doors: MCP `issue_rider` and `purchase_credits` have no limit where REST has one; the
  sandbox rule of `sandbox.ts:117` ("MCP/REST") is not asked by REST routes but
  `/api/settle`, nor by MCP `resolve_claim`; `/api/rider/verify` and MCP `verify_rider`
  do not look at revocations; `/api/rider/revoke` answers `revoked: true` if its upsert
  failed; revoking a rider leaves its renewal chain alive.
- Claims: a stake is taken on a claim already resolved, and staking again replaces the
  amount while the debits add up. MCP `stake_claim` lets a stake be negative, and
  `apply_resolution` clamps a winner at 100 and a loser at 0 only: a winner who staked a
  negative amount may fall below 0 and a loser rise above 100.
- Bonds: when a stake failed before its fee, no handler ever sends it.

## 5. What is proved

Each proof module proves what it says for every value of the constants that its
assumptions admit. An assumption is an `ASSUME` of the module the theorems are about,
evaluated by every run of it. `Tolls` and `Economy` compose parts, so the theorems about
the parts they choose from are theorems about the composition, in `TollsProofs`,
`EconomyProofs` and `CommonsProofs`, and state the very formulas the runs `tolls` and
`economy` check. `CuniRegistry` is proved about on its own, with the conditions on
its constants as a hypothesis, `Constants`; `TollsProofs` cites those theorems
through `INSTANCE` and discharges the hypothesis from the assumptions of `Tolls`.

Each argument is an inductive invariant, `IInv`. What makes it one is, nearly
everywhere, a fact about what an invocation remembers across an await and why it is still worth
something when it goes on.

### TollEscrowProofs

For every set of escrows, invocations, deposits, hashes (however many name one deposit), jobs,
agents, amounts and wallets, and for every `StatusCheck` that admits `locked` and
`released`. Assumptions: `EscrowAssumption` and `NoneIsNoRow` of `TollEscrow`
(amounts positive, `None` outside the data). Built in layers, each using those below:

1. `TypeInv`: types, and `Located`, which local is set at which await. -> `TypeCorrect`.
2. `Forward`: rows only move `locked -> releasing -> released` on fixed terms,
   transfers stay. It is a step relation, so every later layer can use it to carry
   facts about a row across any step. -> `ForwardOnly`.
3. `FundsInv`: `HashFundsOne` with `FormProven` (a form waiting to be
   inserted was proven); needed since the proof of the deposit and the insert
   are two steps. -> `OneEscrowPerHash`.
4. `Justified`: an invocation past the read holds a real, delivered escrow,
   past `flip` one no longer `locked`. This is what the stale read is worth.
5. `SentInv`: every transfer is the exact share of a delivered escrow, and one per
   idempotency key. -> `OnlyDeliveredIsPaid`, `NeverPaidTwice`.
6. `Progress`: what an invocation remembers of its sends is on the chain, hence
   what it writes to the row and signs is. -> `ReleasedIsPaid`,
   `LogIsTrue` (of `ReleasedMeansPaid` and `LogMatchesChain`).
7. The conjunction (`IInv`) makes each step a step or a stutter of
   `EscrowPromise` under `phaseOf`, `fundingOf`, `chain`. -> `KeepsThePromise`.

### TollBondsProofs

For any bonds, deposits, hashes, invocations, wallets and offers. `BondAssumption`: the offers are
what `validateConditions` admits, and the condition keys are finitely many, as they are in
`TRIGGER_ATTESTATION`; `NoneIsNoRecord`.

- `Proving`, `Staking`: a form proved against the chain stays proved; a row inserted by an
  invocation is its own and its event and fee stand where the await says.
  -> `HashFundsOneBond`, `ReceiptsMeanFees`.
- `Slashing`: what a slash computed before it sends stays true: its evidence is sealed,
  its amount the condition's share of the balance it read, and that balance
  one the bond was staked with or a sent slash has left (`Reached`). -> `SlashesAreEvidenced`,
  `BalancesAreBacked`, `BondTypes` (no balance falls below zero).
- `KeySendsOnce` and `SlashStarts`: a key is sent once and names both balances, and every
  slash starts where another ended. With one condition the share is a function of the
  balance, so a balance has one successor and the sent slashes are a path: `PathIsOne`
  derives it from the invariant without a step of its own. -> `SlashesAreOnePath`.

### RiderRenewalProofs

For any agents, chains, tokens and invocations; `RenewalAssumption`, `NoneIsNoRow`.
`Redeeming`: an invocation past its read holds a row of the chain it names. `FreshChain`: one
about to start a chain has it to itself. `Spent`: one about to mint has taken the turn of the
token it holds, which nobody else has or ever had. Then a chain has one live
token or one invocation about to write one, never both: the `consume` that takes the first away
is what makes the second. -> `RowsAreRows`, `TokenBuysOneRider`, `ChainIsALine`, and from the same invariant
the step property `DeadChainsStayDead`. That a revocation reaches a renewal under way is what
`renewal_revoke` refutes, and the theorem does not claim it.

### TaskBoardProofs

For any tasks, participants, rewards in 5..500, referrers, balances and bounds of `MaxWrites`,
and finitely many invocations at once (they are counted below); `BoardAssumption`, `NoneIsNoRow`,
`NoneIsNoJob`. The longest of the proofs, because a handler carries its job through up to
seven awaits.

- `Held`, `Shapes`: which local is set at which await. -> `BoardTypes`.
- `Posts`, `Serves`: until its row is inserted a task is known to the call that posts it alone;
  from then on a row keeps its poster, and whoever claims it is not he. So what a
  handler read of both is good at every later await. -> `WorkIsOwn`.
- `Alone`, `QuietJob`, `QuietTask`: a quiet task has at most one handler; what is written of
  such a task follows from its status and from what that handler's `todo` still holds. ->
  `EscrowIsHeld`, and of `PaidOnce` the part about quiet tasks (`RewardOnce`).
- `Debts`, on top of these and for every task: links of a chain, and fees of a task, that are written
  or owed by some invocation are at most the payments made. The overlap of payouts makes this a count, of
  sets of invocations: each step moves at most one of them in or out. ->
  `RewardsArePaidOnce`, `ChainsArePaidWork`.

### CuniRegistryProofs

For any processes, workers, sources and keys; `Constants`. `ToldTheRow`: a contract's row
never changes and everyone is told what it says. `MemoryFirst`: in one process that never restarts
the database is behind memory, never ahead, so nothing read back undoes a bind. `OneWrite`: where calls are
apart, they differ by the one write under way. -> `RegistryTypes`, `RegistryIsIdempotent`.

### TollsProofs

One section for each part, about any number of callers, rows and invocations; a part that
does not move keeps its state, so its invariant holds from the start to the end
(`Composition`). `RegistryIsIdempotent` carries the theorem above over.

- `HopsPaidOnce`, for any payments, callers, amounts and calls. `HopsPassed`: a call beyond
  the gates has a live rider and an authorization. `AskedFor`: a request at the facilitator
  stands for a call that still waits or for one whose caller was told not to assume
  anything. `OneDone`: the chain takes an authorization once, so no payment makes two calls
  done. `Accounted`: a debit is known to one call or admitted to by a 502 or 504.
- `ClientIsSafe`; `ClientConstants`: a rider is refreshed before its end. `ClientRidersEnd`:
  the client counts a lifetime from when it asked, so it never believes a rider longer than
  the service does. `ClientWaits`: an operation waits only for an issue under way.
  `ClientCarriedOnce`: how often an operation was carried out follows from where it is.
- `GrantsAndWarrantsHold`; `GrantConstants`. `OnlyShrinks` relates every two hops of a
  warrant while the code compares neighbours: kept by a hop because narrowing is
  transitive through the last one, and for a chain somebody else wrote by induction along
  it, from its second body on. `KidsPublished`: while the
  lab signs, a kid that is not revoked is published. `ChecksSeeRevocations`: a check past its first
  read knows of every revocation older than itself. `OneAtATime`: where spends are recorded before
  the next check, a grant has one check in flight or one verdict unspent.
- `PlansAddUp`; `PlanConstants`. `EscrowBooks`: the escrow account holds the whole amount exactly
  while the row is locked, nothing after a release, the fee after anything else; the lab has the
  fees that are its. `OneDecides`: of an escrow's disputes one at most
  is resolved, and none while the row is locked. `BudgetHeld`: the stretches charged in a
  window lie one after the other below the cap.
- `RevokedRidersStop`; `RiderConstants`. `DryDoor`: a door that does more
  than read asks for a scope no sandbox rider has. `RevokedIsListed`: the list is of those cancelled.
  `WindowsKept`: the calls counted in a window are as many as its counter says at most. `LateIsTurnedBack`:
  a call that began after the cancellation is not past the gate. `CopyIsOld`, `VerdictsAreOld`: an
  offline verifier's copy lags by its age, and so do its verdicts.
- `HistoryIsKept`; `AliasConstants`. `Leads` is what a walk computes, an induction on its hops;
  a remint changes where an id leads only if the chain passes it (`Passes`, `Goes`).
  The first attempt failed for a good reason: a call whose walk has passed an id that is
  then reminted names a thread no chain leads to any more. Such calls are now not `fresh`.
- `CallsAreKept`; `CallConstants`. The 21 routes have 21 orders of steps; `Ordered` is what
  they share: one charge at most, right after the only count, work before
  signature, the answer last. `GoodToll`: what a call on its way has done is there.
  `Owing` and `Uncounted` are the invocations about to report and about to count. Then,
  where nothing fails, reports and `Owing` add up to the sum over payers and months of the calls beyond the free
  ones, and never exceed it where something does.
- `TypesHold`, of whichever part runs. What was not needed before: `CountedBegan` and
  `UseBegan`, a counter and the calls that have still to count are no more than the calls that
  began, each counted once, by one agent or payer, in one window or month; `ListedOnce`, a rider comes on the
  revocation list once, with the answer to its holder; `WalksGo`, a walk is where it has been,
  short of `MAX_HOPS`; `RowsNamed`, what is stored, metered and answered names a call that began.

### EconomyProofs

- `SubscriptionsStand`; `FulfilmentConstants`. `JobsApart`: of two jobs about
  one thing none is kept apart. `KeysStand`: a key is minted once, and a job about to mint one for a
  subscription kept apart finds none there. `PlacementsStand`: a placement, or a write of one under way,
  carries what the claimed events so far say. The attempt found that two subscriptions promoting one capability break it: the property now says so.
- `PurchasesCreditedOnce`; `LedgerConstants`: participants and invocations are finite, no
  balance starts below zero, prices are above it. `Ordered`, `Placed`: what
  the handlers' step orders share, and whom the steps a call has left may touch. `EventsOnce`:
  an event is unclaimed, or with the one call that credits it, or credited, or dropped.
- `CapsHold`. `QuietAlone`, `CodeAlone`: calls about a quiet participant, or the quiet code, do not
  overlap. `CompsCounted`, `Newcomers`, `ReferralsCounted`: a counter lags behind its rows by
  the bumps still to come and those that failed, and of a quiet referrer one at most is to come.
- `CreditsConserved`. `Books`: the sum over participants of balances, with what the calls
  under way still have to add or take, is what was issued or made less what was spent, up to the transfers
  that stopped half way. `Sound`: what an adjustment read is still the balance, and a charge is
  covered by it or, below zero, adds to it. `Budgeted`: a warrant's spends are within it.

### CommonsProofs

- `CountsAgree`; `CommonsConstants` (agents and workers are finite, the author is not alone,
  the route's stakes and the ratings are numbers, a rating is above zero) and `NoneIsNoCall`. `CommonsInv` has a
  part for each thing kept beside a row; nearly all say that it lags by the calls which wrote the
  row and not yet the rest. `CallsApart`: what `overlap` promises of the calls in flight.
  `FeedKept`: each counter and the calls about to count make the rows; with one call of an agent at a
  time, exactly. `ChannelsKept`: a notice owed was told, or a call still has to tell it.
  `ThreadsKept`: what a reader is about to mark it was shown; a badge, or one about to be
  given, stands for an unread message until the reader retires its badges. `ClaimsKept`: a stake
  by the route is debited before it is written; one call at a time, the running sum of a
  call is over the stakes it has weighed, and the claim is applied once. `MarketKept`: an
  install is counted or about to be; a rating and the one a call is about to add make the
  sum. `QueriesKept`: an answer has its status or a call is about to set it. An
  interrupted call takes a term away, so where `trouble` is on only the inequalities remain.
- `TypesStand`, for all three parts. An invocation of the ledger is about somebody as long as
  it has steps left (`BusyIsNotIdle`), so no step writes a row of `None`. `KeysCount`: keys are
  numbered from one as they are minted, and only what a promotion names is ever claimed. That
  counters of likes and comments, installs and ratings stay below what was begun follows from
  `FeedKept` and `MarketKept`: a call counts once, and the calls about to count are left over.

The library's induction theorems take an operator and cannot be instantiated here. The least
number principle is first order: a set of numbers, or of the sizes of finite sets, has a
smallest element because `<` is well-founded on it (`NatLessThanWellFounded`). `EveryNat`
and `EverySubset` say so, and give what the sums over finite sets (`SumEdit`: one term changed)
and the walks along chains need.

### Only model-checked

- Out of the prover's reach: liveness under fairness (`Recovers`, `DeliveredIsPaid`) and
  `ENABLED`.

## 6. Not modelled

The usage counters in the escrow and bond modules (they are in `TollCalls`), ledger rows
(read by the history page only), HTTP validation and wording, cryptography, the codecs and
the draw of the tool routes. Whole parts left out: badges and the passport page
(single-statement reads), the AMP adapter, host attestation and file share (parked; shape
checks over one request), the CuNi studio pass (a predicate over one request), the CDDG
planes behind their gate (a simulation without callers' state), the chat gate and
the host's chat routes but for the messages they send, the C client, pages and
discovery documents. Components of which something is left out are `partly` in
`PROJECT.json`, with what it is. The bond routes neither release a bond nor export its audit trail,
so there is nothing of that to model.

## 7. Plan

Modelled and checked: all of section 1 but its last row. Proved: every invariant that a
run checks, the type invariants among them. What is left is an abstract ledger, whose sum changes only by purchases,
charges and emissions, for `CreditLedger` to implement in its quiet behaviours.

To run a check: `tlc -workers 2 -config TaskBoard.cfg MCTaskBoard.tla`; to check the proofs:
`tlapm M.tla` for each of the eight modules `*Proofs.tla`.
