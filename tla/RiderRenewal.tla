----------------------------- MODULE RiderRenewal -----------------------------
(***************************************************************************)
(* Renewal tokens: the issue, renew and revoke handlers, run by any number *)
(* of concurrent serverless invocations over rider_renewal_tokens.  An     *)
(* action is the code between two awaits; an invocation may fail at any    *)
(* await, with the statement it was waiting for applied or not.            *)
(*                                                                         *)
(* A token is its hash; who presents one must hold it, and a holder may    *)
(* present it any number of times.  Left out: rate limits, attestation and *)
(* the checks of an API key, all of which come before the first write.     *)
(***************************************************************************)
EXTENDS Naturals, FiniteSets

CONSTANTS
  Agents,       \* agent_id
  LongLived,    \* RIDER_LONG_LIVED_AGENT_IDS
  Claims,       \* level, scopes and operator of a rider
  Tokens,       \* renewal tokens, random and fresh
  Chains,       \* chain_id, random and fresh
  Invocations,  \* concurrent handler invocations
  None

ASSUME RenewalAssumption ==
  /\ LongLived \subseteq Agents
  /\ None \notin Tokens \cup Chains

VARIABLES
  rows,      \* rider_renewal_tokens, None where no row has that hash
  expired,   \* tokens whose expires_at has passed
  held,      \* tokens some caller was answered
  riders,    \* riders some caller was answered
  pc,        \* await each invocation stands at
  ctx        \* what it holds: the agent, claims and chain, the token presented

vars == <<rows, expired, held, riders, pc, ctx>>

-----------------------------------------------------------------------------
(* Rows and riders *)

Ttl == {"15m", "10y"}

\* issueRider's default, ttlForAgent.
RiderTtl(a) == IF a \in LongLived THEN "10y" ELSE "15m"

\* revoke_reason says by which of the two ways a row was revoked.
Status == {"active", "used", "holder_revoke", "reuse_detected"}
Revoked == {"holder_revoke", "reuse_detected"}
Live == {"active", "used"}

Row == [agent : Agents, claims : Claims, chain : Chains, status : Status]
Context == [agent : Agents, claims : Claims, chain : Chains, via : Tokens \cup {None}]
Rider == [agent : Agents, claims : Claims, ttl : Ttl,
          via : Tokens \cup {None}, with : Tokens \cup {None}]

\* None is no value of the data.
ASSUME NoneIsNoRow == None \notin Row \cup Context

Exists(t) == rows[t] # None
Is(t, status) == Exists(t) /\ rows[t].status = status
OnChain(t, c) == Exists(t) /\ rows[t].chain = c

\* The rider answered for a presented token, beside the next one.
RiderFrom(c, next) ==
  [agent |-> c.agent, claims |-> c.claims, ttl |-> RiderTtl(c.agent),
   via |-> c.via, with |-> next]

\* Mutant: the next row is inserted with a status of its own.
MintedUsed(t, c) ==
  [rows EXCEPT ![t] = [agent |-> c.agent, claims |-> c.claims,
                       chain |-> c.chain, status |-> "minted"]]

\* mintRenewalToken: an active row of the chain it is given.
Minted(t, c) ==
  [rows EXCEPT ![t] = [agent |-> c.agent, claims |-> c.claims,
                       chain |-> c.chain, status |-> "active"]]

\* UPDATE ... WHERE status IN ('active', 'used').
RevokedRows(S, reason) ==
  [t \in Tokens |-> IF t \in S /\ Exists(t) /\ rows[t].status \in Live
                      THEN [rows[t] EXCEPT !.status = reason] ELSE rows[t]]

-----------------------------------------------------------------------------
Init ==
  /\ rows = [t \in Tokens |-> None]
  /\ expired = {} /\ held = {} /\ riders = {}
  /\ pc = [i \in Invocations |-> "idle"]
  /\ ctx = [i \in Invocations |-> None]

\* The environment: a token reaches its expires_at.
Expires(t) ==
  /\ Exists(t)
  /\ t \notin expired
  /\ expired' = expired \cup {t}
  /\ UNCHANGED <<rows, held, riders, pc, ctx>>

\* The invocation's answer leaves and its memory goes.
Forget(i) ==
  /\ pc' = [pc EXCEPT ![i] = "idle"]
  /\ ctx' = [ctx EXCEPT ![i] = None]

Goto(i, await, c) ==
  /\ pc' = [pc EXCEPT ![i] = await]
  /\ ctx' = [ctx EXCEPT ![i] = c]

\* Killed, timed out, or answering 5xx: what was written stays.
Fails(i) ==
  /\ pc[i] # "idle"
  /\ Forget(i)
  /\ UNCHANGED <<rows, expired, held, riders>>

-----------------------------------------------------------------------------
(* POST /api/rider/issue *)

\* Authenticated and signed: a chain nobody else has.
Issue(i, a, k, c) ==
  /\ pc[i] = "idle"
  /\ \A t \in Tokens : ~OnChain(t, c)
  /\ \A j \in Invocations : ctx[j] # None => ctx[j].chain # c
  /\ Goto(i, "issue", [agent |-> a, claims |-> k, chain |-> c, via |-> None])
  /\ UNCHANGED <<rows, expired, held, riders>>

IssueMint(i, t) ==
  /\ pc[i] = "issue"
  /\ ~Exists(t)
  /\ rows' = Minted(t, ctx[i])
  /\ held' = held \cup {t}
  /\ riders' = riders \cup {RiderFrom(ctx[i], t)}
  /\ Forget(i)
  /\ UNCHANGED expired

\* tryMintRenewalToken: the rider is answered without a token.
IssueMintRefused(i) ==
  /\ pc[i] = "issue"
  /\ riders' = riders \cup {RiderFrom(ctx[i], None)}
  /\ Forget(i)
  /\ UNCHANGED <<rows, expired, held>>

-----------------------------------------------------------------------------
(* POST /api/rider/renew *)

Presented(t) ==
  [agent |-> rows[t].agent, claims |-> rows[t].claims,
   chain |-> rows[t].chain, via |-> t]

\* findRow: a used token is a reuse, whatever else is wrong with it.
RenewReused(i, t) ==
  /\ pc[i] = "idle"
  /\ t \in held
  /\ Is(t, "used")
  /\ Goto(i, "burn", Presented(t))
  /\ UNCHANGED <<rows, expired, held, riders>>

\* Mutant: a used token that has not expired is exchanged again.
RenewReadUsed(i, t) ==
  /\ pc[i] = "idle"
  /\ t \in held
  /\ Is(t, "active") \/ Is(t, "used")
  /\ t \notin expired
  /\ Goto(i, IF Is(t, "active") THEN "consume" ELSE "mint", Presented(t))
  /\ UNCHANGED <<rows, expired, held, riders>>

\* findRow: not used, not revoked, not expired, and the right agent.
RenewRead(i, t) ==
  /\ pc[i] = "idle"
  /\ t \in held
  /\ Is(t, "active")
  /\ t \notin expired
  /\ Goto(i, "consume", Presented(t))
  /\ UNCHANGED <<rows, expired, held, riders>>

\* Mutant: UPDATE ... WHERE token_hash = t, whatever its status.
ConsumeAlways(i) ==
  LET t == ctx[i].via IN
  /\ pc[i] = "consume"
  /\ rows' = [rows EXCEPT ![t].status = "used"]
  /\ Goto(i, "mint", ctx[i])
  /\ UNCHANGED <<expired, held, riders>>

\* consumeRow: UPDATE ... WHERE token_hash = t AND status = 'active'.
Consume(i) ==
  LET t == ctx[i].via IN
  /\ pc[i] = "consume"
  /\ Is(t, "active")
  /\ rows' = [rows EXCEPT ![t].status = "used"]
  /\ Goto(i, "mint", ctx[i])
  /\ UNCHANGED <<expired, held, riders>>

\* Mutant: a renewal that lost the race is given a rider all the same.
ConsumeLostRetried(i) ==
  /\ pc[i] = "consume"
  /\ ~Is(ctx[i].via, "active")
  /\ Goto(i, "mint", ctx[i])
  /\ UNCHANGED <<rows, expired, held, riders>>

\* consumeRow matched no row.
ConsumeLost(i) ==
  /\ pc[i] = "consume"
  /\ ~Is(ctx[i].via, "active")
  /\ Goto(i, "burn", ctx[i])
  /\ UNCHANGED <<rows, expired, held, riders>>

\* consumeRow drops the error: a failed UPDATE looks like no row.
ConsumeError(i) ==
  LET t == ctx[i].via IN
  /\ pc[i] = "consume"
  /\ Is(t, "active")
  /\ \/ rows' = [rows EXCEPT ![t].status = "used"]
     \/ UNCHANGED rows
  /\ Goto(i, "burn", ctx[i])
  /\ UNCHANGED <<expired, held, riders>>

\* issueRider, then mintRenewalToken on the same chain, then the answer.
RenewMint(i, t) ==
  /\ pc[i] = "mint"
  /\ ~Exists(t)
  /\ rows' = Minted(t, ctx[i])
  /\ held' = held \cup {t}
  /\ riders' = riders \cup {RiderFrom(ctx[i], t)}
  /\ Forget(i)
  /\ UNCHANGED expired

\* The row is written and nobody is answered it, by either handler.
MintUnanswered(i, t) ==
  /\ pc[i] \in {"issue", "mint"}
  /\ ~Exists(t)
  /\ rows' = Minted(t, ctx[i])
  /\ Forget(i)
  /\ UNCHANGED <<expired, held, riders>>

\* revokeAgentRenewalTokens: every chain of the agent, then 403 token_reused.
Burn(i) ==
  /\ pc[i] = "burn"
  /\ rows' = RevokedRows({t \in Tokens : Exists(t) /\ rows[t].agent = ctx[i].agent},
                         "reuse_detected")
  /\ Forget(i)
  /\ UNCHANGED <<expired, held, riders>>

-----------------------------------------------------------------------------
(* POST /api/rider/renew/revoke *)

\* findRow: any row will do, whatever its status.
RevokeRead(i, t) ==
  /\ pc[i] = "idle"
  /\ t \in held
  /\ Goto(i, "revoke", Presented(t))
  /\ UNCHANGED <<rows, expired, held, riders>>

\* revokeRenewalChain.
RevokeChain(i) ==
  /\ pc[i] = "revoke"
  /\ rows' = RevokedRows({t \in Tokens : OnChain(t, ctx[i].chain)}, "holder_revoke")
  /\ Forget(i)
  /\ UNCHANGED <<expired, held, riders>>

-----------------------------------------------------------------------------
Step(i) ==
  \/ \E a \in Agents, k \in Claims, c \in Chains : Issue(i, a, k, c)
  \/ \E t \in Tokens : IssueMint(i, t)
  \/ IssueMintRefused(i)
  \/ \E t \in Tokens : RenewReused(i, t)
  \/ \E t \in Tokens : RenewRead(i, t)
  \/ Consume(i)
  \/ ConsumeLost(i)
  \/ ConsumeError(i)
  \/ \E t \in Tokens : RenewMint(i, t)
  \/ \E t \in Tokens : MintUnanswered(i, t)
  \/ Burn(i)
  \/ \E t \in Tokens : RevokeRead(i, t)
  \/ RevokeChain(i)
  \/ Fails(i)

Next ==
  \/ \E i \in Invocations : Step(i)
  \/ \E t \in Tokens : Expires(t)

Spec == Init /\ [][Next]_vars

-----------------------------------------------------------------------------
(* Properties *)

\* Every variable has its type, and an invocation away from idle has a context.
TypeOK ==
  /\ rows \in [Tokens -> Row \cup {None}]
  /\ expired \subseteq Tokens
  /\ held \subseteq {t \in Tokens : Exists(t)}
  /\ riders \subseteq Rider
  /\ pc \in [Invocations -> {"idle", "issue", "consume", "mint", "burn", "revoke"}]
  /\ ctx \in [Invocations -> Context \cup {None}]
  /\ \A i \in Invocations : pc[i] = "idle" <=> ctx[i] = None

\* What keeps chain c alive: its active rows and the renewals about to write one.
LiveRows(c) == {t \in Tokens : OnChain(t, c) /\ rows[t].status = "active"}
LiveMints(c) == {i \in Invocations : pc[i] \in {"issue", "mint"} /\ ctx[i].chain = c}

\* A rotation chain is a single line: it has one active token or one renewal
\* about to write one, never two, however many invocations redeem the same
\* token at once (consumeRow's single-use update).
OneLivePerChain ==
  \A c \in Chains :
    /\ \A t, u \in LiveRows(c) : t = u
    /\ \A i, j \in LiveMints(c) : i = j
    /\ LiveRows(c) = {} \/ LiveMints(c) = {}

\* A token buys at most one rider, and a token that bought one is not active
\* again: the rotation of redeemRenewalToken.
TokenSpentOnce ==
  \A r \in riders : r.via # None =>
    /\ rows[r.via].status # "active"
    /\ \A q \in riders : q.via = r.via => q = r

Dead(c) == (\E t \in Tokens : OnChain(t, c)) /\ LiveRows(c) \cup LiveMints(c) = {}

\* Once a chain has no active token and no renewal under way it stays so: what
\* a revocation or a reuse kills cannot be renewed again, by anybody.
DeadStaysDead == [][\A c \in Chains : Dead(c) => Dead(c)']_vars

-----------------------------------------------------------------------------
(* What a comment says and the code does not do *)

\* "Revocation: POST /api/rider/renew/revoke kills a token's whole chain."
RevokeKillsChain ==
  \A t, u \in Tokens :
    (Is(t, "holder_revoke") /\ OnChain(u, rows[t].chain)) => ~Is(u, "active")
=============================================================================
