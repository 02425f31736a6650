------------------------- MODULE RiderRenewalProofs -------------------------
(***************************************************************************)
(* Renewal for every number of agents, chains, tokens and invocations.     *)
(* Argument: an invocation that redeems a token holds a row of the chain   *)
(* it names (Redeeming), one that starts a chain has it to itself          *)
(* (FreshChain), and one about to mint has taken the token's only turn     *)
(* (Spent).  So a chain has at most one thing that keeps it alive, and     *)
(* nothing starts a chain again once it has rows and none of these.        *)
(***************************************************************************)
EXTENDS RiderRenewal, TLAPS

Redeeming ==
  \A i \in Invocations : pc[i] \in {"consume", "mint"} =>
    ctx[i].via \in Tokens /\ OnChain(ctx[i].via, ctx[i].chain)

FreshChain ==
  \A i \in Invocations : pc[i] = "issue" =>
    /\ ctx[i].via = None
    /\ \A t \in Tokens : ~OnChain(t, ctx[i].chain)
    /\ \A j \in Invocations \ {i} : ctx[j] # None => ctx[j].chain # ctx[i].chain

Spent ==
  /\ \A i \in Invocations : pc[i] = "mint" =>
       /\ rows[ctx[i].via].status # "active"
       /\ \A r \in riders : r.via # ctx[i].via
       /\ \A j \in Invocations \ {i} : pc[j] = "mint" => ctx[j].via # ctx[i].via
  /\ \A r \in riders : r.via # None => Exists(r.via)

IInv == TypeOK /\ Redeeming /\ FreshChain /\ Spent /\ TokenSpentOnce /\ OneLivePerChain

-----------------------------------------------------------------------------
(* Types *)

\* What a row becomes is a row, and a row no step takes away.
LEMMA MintedRow ==
  ASSUME TypeOK, NEW t \in Tokens, NEW c \in Context
  PROVE  /\ Minted(t, c) \in [Tokens -> Row \cup {None}]
         /\ Minted(t, c)[t] = [agent |-> c.agent, claims |-> c.claims,
                               chain |-> c.chain, status |-> "active"]
         /\ Minted(t, c)[t] # None
         /\ \A u \in Tokens \ {t} : Minted(t, c)[u] = rows[u]
<1>1. [agent |-> c.agent, claims |-> c.claims, chain |-> c.chain, status |-> "active"] \in Row
  BY DEF Context, Row, Status
<1>. QED
  BY <1>1, NoneIsNoRow DEF Minted, TypeOK

\* A change of status alone.
LEMMA StatusRow ==
  ASSUME TypeOK, NEW t \in Tokens, Exists(t), NEW s \in Status
  PROVE  /\ [rows[t] EXCEPT !.status = s] \in Row
         /\ [rows[t] EXCEPT !.status = s] # None
         /\ [rows[t] EXCEPT !.status = s].agent = rows[t].agent
         /\ [rows[t] EXCEPT !.status = s].claims = rows[t].claims
         /\ [rows[t] EXCEPT !.status = s].chain = rows[t].chain
         /\ [rows[t] EXCEPT !.status = s].status = s
<1>1. rows[t] \in Row
  BY DEF TypeOK, Exists
<1>. QED
  BY <1>1, NoneIsNoRow DEF Row

\* A revocation takes rows out of use and changes nothing else.
LEMMA RevokedFacts ==
  ASSUME TypeOK, NEW S, NEW reason \in Revoked
  PROVE  /\ RevokedRows(S, reason) \in [Tokens -> Row \cup {None}]
         /\ \A t \in Tokens :
              \/ RevokedRows(S, reason)[t] = rows[t]
              \/ /\ Exists(t) /\ RevokedRows(S, reason)[t] # None
                 /\ RevokedRows(S, reason)[t].chain = rows[t].chain
                 /\ RevokedRows(S, reason)[t].status \in Revoked
<1>1. reason \in Status
  BY DEF Status, Revoked
<1>2. ASSUME NEW t \in Tokens, Exists(t)
      PROVE  /\ [rows[t] EXCEPT !.status = reason] \in Row
             /\ [rows[t] EXCEPT !.status = reason] # None
             /\ [rows[t] EXCEPT !.status = reason].chain = rows[t].chain
             /\ [rows[t] EXCEPT !.status = reason].status = reason
  BY <1>1, <1>2, StatusRow
<1>. QED
  BY <1>2 DEF RevokedRows, TypeOK

\* What a caller presents is of its row.
LEMMA PresentedFacts ==
  ASSUME TypeOK, NEW t \in held
  PROVE  /\ t \in Tokens /\ Exists(t)
         /\ Presented(t) \in Context
         /\ Presented(t).via = t /\ Presented(t).chain = rows[t].chain
<1>1. t \in Tokens /\ rows[t] \in Row /\ Exists(t)
  BY DEF TypeOK, Exists
<1>. QED
  BY <1>1 DEF Presented, Context, Row

\* The rider a redeemed context answers.
LEMMA RiderFacts ==
  ASSUME NEW c \in Context, NEW t \in Tokens \cup {None}
  PROVE  RiderFrom(c, t) \in Rider /\ RiderFrom(c, t).via = c.via
BY DEF RiderFrom, Context, Rider, RiderTtl, Ttl

LEMMA InitInv == Init => IInv
BY DEF Init, IInv, TypeOK, Redeeming, FreshChain, Spent, TokenSpentOnce, OneLivePerChain,
       LiveRows, LiveMints, OnChain, Exists

-----------------------------------------------------------------------------
(* How a step changes invocations and rows *)

\* The invocation that moves, and where to.
Moves(i, await, c) ==
  /\ pc' = [pc EXCEPT ![i] = await]
  /\ ctx' = [ctx EXCEPT ![i] = c]

LEMMA MoveTypes ==
  ASSUME TypeOK, NEW i \in Invocations,
         NEW await \in {"idle", "issue", "consume", "mint", "burn", "revoke"},
         NEW c \in Context \cup {None}, await = "idle" <=> c = None, Moves(i, await, c)
  PROVE  /\ pc' \in [Invocations -> {"idle", "issue", "consume", "mint", "burn", "revoke"}]
         /\ ctx' \in [Invocations -> Context \cup {None}]
         /\ pc'[i] = await /\ ctx'[i] = c
         /\ \A j \in Invocations \ {i} : pc'[j] = pc[j] /\ ctx'[j] = ctx[j]
         /\ \A j \in Invocations : pc'[j] = "idle" <=> ctx'[j] = None
BY DEF TypeOK, Moves

\* No row disappears or changes its chain, and one that is not active does
\* not become so.
RowsKept ==
  \A t \in Tokens : Exists(t) =>
    /\ rows'[t] # None /\ rows'[t].chain = rows[t].chain
    /\ rows[t].status # "active" => rows'[t].status # "active"

\* A step without a new row: rows may leave use, an invocation goes on.
Quietly(i, await, c) ==
  /\ Moves(i, await, c)
  /\ RowsKept
  /\ rows' \in [Tokens -> Row \cup {None}]
  /\ \A t \in Tokens : ~Exists(t) => rows'[t] = None
  /\ UNCHANGED held

LEMMA QuietTypes ==
  ASSUME TypeOK, NEW i \in Invocations,
         NEW await \in {"idle", "issue", "consume", "mint", "burn", "revoke"},
         NEW c \in Context \cup {None}, await = "idle" <=> c = None,
         Quietly(i, await, c), riders' \subseteq Rider, expired' \subseteq Tokens
  PROVE  TypeOK'
<1>1. held' \subseteq {t \in Tokens : rows'[t] # None}
  BY DEF TypeOK, Quietly, RowsKept, Exists
<1>. QED
  BY <1>1, MoveTypes DEF Quietly, TypeOK, Exists

-----------------------------------------------------------------------------
(* Steps that make no row *)

KeepsDead == \A c \in Chains : Dead(c) => Dead(c)'

\* Only the riders of a fresh chain are new, and those name no token.
NoRenewal == riders \subseteq riders' /\ \A r \in riders' : r \in riders \/ r.via = None

\* What no step of a row touches: the rows tokens and riders refer to.
LEMMA QuietSpent ==
  ASSUME IInv, RowsKept, NoRenewal, riders' \subseteq Rider
  PROVE  TokenSpentOnce' /\ (\A r \in riders' : r.via # None => Exists(r.via)')
<1>1. \A r \in riders : r.via \in Tokens \cup {None}
  BY DEF IInv, TypeOK, Rider
<1>2. ASSUME NEW r \in riders', r.via # None
      PROVE  r \in riders /\ r.via \in Tokens /\ Exists(r.via)
  BY <1>1, <1>2 DEF NoRenewal, IInv, Spent
<1>3. ASSUME NEW r \in riders', r.via # None
      PROVE  /\ rows'[r.via] # None /\ rows'[r.via].status # "active"
             /\ \A q \in riders' : q.via = r.via => q = r
  <2>1. rows[r.via].status # "active" /\ \A q \in riders : q.via = r.via => q = r
    BY <1>2, <1>3 DEF IInv, TokenSpentOnce
  <2>. QED
    BY <1>2, <1>3, <2>1 DEF RowsKept, NoRenewal
<1>. QED
  BY <1>3 DEF TokenSpentOnce, Exists

\* An invocation that ends, or waits to read, consume or revoke rows that are
\* there, opens nothing.
LEMMA QuietInv ==
  ASSUME IInv, NEW i \in Invocations, NEW await \in {"idle", "consume", "burn", "revoke"},
         NEW c \in Context \cup {None}, await = "idle" <=> c = None,
         c = None \/ c = ctx[i] \/ (\E t \in Tokens : OnChain(t, c.chain)),
         await = "consume" => c.via \in Tokens /\ OnChain(c.via, c.chain),
         Quietly(i, await, c), NoRenewal, riders' \subseteq Rider, expired' \subseteq Tokens
  PROVE  IInv' /\ KeepsDead
<1>1. TypeOK'
  BY QuietTypes DEF IInv
<1>2. /\ pc'[i] = await /\ ctx'[i] = c
      /\ \A j \in Invocations \ {i} : pc'[j] = pc[j] /\ ctx'[j] = ctx[j]
  BY MoveTypes DEF IInv, Quietly
<1>3. /\ \A t \in Tokens : Exists(t) => Exists(t)' /\ rows'[t].chain = rows[t].chain
      /\ \A t \in Tokens : Exists(t)' => Exists(t)
      /\ \A t \in Tokens : Exists(t) /\ rows[t].status # "active" => rows'[t].status # "active"
  BY DEF Quietly, RowsKept, Exists
<1>4. \A t \in Tokens : \A d : OnChain(t, d)' <=> OnChain(t, d)
  BY <1>3 DEF OnChain
<1>5. Redeeming'
  BY <1>2, <1>4 DEF IInv, Redeeming
<1>6. FreshChain'
  <2>. SUFFICES ASSUME NEW j \in Invocations, pc'[j] = "issue"
                PROVE  /\ ctx'[j].via = None
                       /\ \A t \in Tokens : ~OnChain(t, ctx[j].chain)'
                       /\ \A k \in Invocations \ {j} :
                            ctx'[k] # None => ctx'[k].chain # ctx'[j].chain
    BY DEF FreshChain
  <2>1. j # i /\ pc[j] = "issue" /\ ctx'[j] = ctx[j]
    BY <1>2
  <2>2. /\ ctx[j].via = None
        /\ \A t \in Tokens : ~OnChain(t, ctx[j].chain)
        /\ \A k \in Invocations \ {j} : ctx[k] # None => ctx[k].chain # ctx[j].chain
    BY <2>1 DEF IInv, FreshChain
  <2>3. ctx'[i] # None => ctx'[i].chain # ctx[j].chain
    BY <1>2, <2>1, <2>2
  <2>. QED
    BY <1>2, <1>4, <2>1, <2>2, <2>3
<1>7. Spent'
  <2>1. ASSUME NEW j \in Invocations, pc'[j] = "mint"
        PROVE  /\ rows'[ctx'[j].via].status # "active"
               /\ \A r \in riders' : r.via # ctx'[j].via
               /\ \A k \in Invocations \ {j} : pc'[k] = "mint" => ctx'[k].via # ctx'[j].via
    <3>1. j # i /\ pc[j] = "mint" /\ ctx'[j] = ctx[j]
      BY <1>2, <2>1
    <3>2. ctx[j].via \in Tokens /\ Exists(ctx[j].via)
      BY <3>1 DEF IInv, Redeeming, OnChain
    <3>3. /\ rows[ctx[j].via].status # "active"
          /\ \A r \in riders : r.via # ctx[j].via
          /\ \A k \in Invocations \ {j} : pc[k] = "mint" => ctx[k].via # ctx[j].via
      BY <3>1 DEF IInv, Spent
    <3>4. ctx[j].via # None
      BY <3>2, RenewalAssumption
    <3>. QED
      BY <1>2, <1>3, <3>1, <3>2, <3>3, <3>4 DEF NoRenewal
  <2>. QED
    BY <2>1, QuietSpent DEF Spent, Quietly
<1>8. TokenSpentOnce'
  BY QuietSpent DEF Quietly
<1>9. \A d \in Chains : LiveRows(d)' \subseteq LiveRows(d) /\ LiveMints(d)' \subseteq LiveMints(d)
  BY <1>2, <1>3, <1>4 DEF LiveRows, LiveMints, OnChain
<1>10. OneLivePerChain'
  BY <1>9 DEF IInv, OneLivePerChain
<1>11. KeepsDead
  BY <1>4, <1>9 DEF KeepsDead, Dead
<1>. QED
  BY <1>1, <1>5, <1>6, <1>7, <1>8, <1>10, <1>11 DEF IInv

-----------------------------------------------------------------------------
(* The two steps that keep a chain alive *)

\* An issue takes a chain that has nothing.
LEMMA IssueInv ==
  ASSUME IInv, NEW i \in Invocations, NEW a \in Agents, NEW k \in Claims, NEW c \in Chains,
         Issue(i, a, k, c)
  PROVE  IInv' /\ KeepsDead
<1>. DEFINE new == [agent |-> a, claims |-> k, chain |-> c, via |-> None]
<1>1. new \in Context /\ new # None /\ new.via = None /\ new.chain = c
  BY NoneIsNoRow DEF Context
<1>. HIDE DEF new
<1>2. /\ pc[i] = "idle" /\ Moves(i, "issue", new)
      /\ \A t \in Tokens : ~OnChain(t, c)
      /\ \A j \in Invocations : ctx[j] # None => ctx[j].chain # c
      /\ UNCHANGED <<rows, expired, held, riders>>
  BY DEF Issue, Goto, Moves, new
<1>3. /\ pc'[i] = "issue" /\ ctx'[i] = new
      /\ \A j \in Invocations \ {i} : pc'[j] = pc[j] /\ ctx'[j] = ctx[j]
  BY <1>1, <1>2, MoveTypes DEF IInv
<1>4. Quietly(i, "issue", new)
  BY <1>2 DEF Quietly, RowsKept, Exists, IInv, TypeOK
<1>5. TypeOK'
  BY <1>1, <1>2, <1>4, QuietTypes DEF IInv, TypeOK
<1>6. \A t \in Tokens : \A d : OnChain(t, d)' <=> OnChain(t, d)
  BY <1>2 DEF OnChain, Exists
<1>7. Redeeming'
  BY <1>3, <1>6 DEF IInv, Redeeming
<1>8. ASSUME NEW j \in Invocations, pc'[j] = "issue"
      PROVE  /\ ctx'[j].via = None
             /\ \A t \in Tokens : ~OnChain(t, ctx[j].chain)'
             /\ \A l \in Invocations \ {j} : ctx'[l] # None => ctx'[l].chain # ctx'[j].chain
  <2>1. CASE j = i
    BY <1>1, <1>2, <1>3, <1>6, <2>1 DEF OnChain, Exists
  <2>2. CASE j # i
    <3>1. pc[j] = "issue" /\ ctx'[j] = ctx[j]
      BY <1>3, <1>8, <2>2
    <3>2. /\ ctx[j].via = None /\ ctx[j] # None
          /\ \A t \in Tokens : ~OnChain(t, ctx[j].chain)
          /\ \A l \in Invocations \ {j} : ctx[l] # None => ctx[l].chain # ctx[j].chain
      BY <3>1 DEF IInv, FreshChain, TypeOK
    <3>. QED
      BY <1>1, <1>2, <1>3, <1>6, <3>1, <3>2 DEF OnChain, Exists
  <2>. QED
    BY <2>1, <2>2
<1>9. FreshChain'
  BY <1>8 DEF FreshChain, OnChain, Exists
<1>10. Spent'
  BY <1>2, <1>3 DEF IInv, Spent, Exists
<1>11. TokenSpentOnce'
  BY <1>2 DEF IInv, TokenSpentOnce
<1>12. /\ \A d \in Chains : LiveRows(d)' = LiveRows(d)
       /\ \A d \in Chains \ {c} : LiveMints(d)' = LiveMints(d)
       /\ LiveRows(c) = {} /\ LiveMints(c)' = {i}
  <2>1. \A d \in Chains : LiveRows(d)' = LiveRows(d)
    BY <1>2 DEF LiveRows, OnChain, Exists
  <2>2. LiveRows(c) = {}
    BY <1>2 DEF LiveRows
  <2>3. \A j \in Invocations \ {i} : pc[j] # "idle" => ctx[j].chain # c
    BY <1>2 DEF IInv, TypeOK
  <2>4. LiveMints(c)' = {i}
    BY <1>1, <1>3, <2>3 DEF LiveMints
  <2>5. \A d \in Chains \ {c} : LiveMints(d)' = LiveMints(d)
    BY <1>1, <1>2, <1>3 DEF LiveMints
  <2>. QED
    BY <2>1, <2>2, <2>4, <2>5
<1>13. OneLivePerChain'
  BY <1>12 DEF IInv, OneLivePerChain
<1>14. KeepsDead
  BY <1>2, <1>6, <1>12 DEF KeepsDead, Dead
<1>. QED
  BY <1>5, <1>7, <1>9, <1>10, <1>11, <1>13, <1>14 DEF IInv

\* A redeemed token leaves its chain to the redeemer: no other row of the
\* chain was active, and nobody was minting on it.
LEMMA ConsumeInv ==
  ASSUME IInv, NEW i \in Invocations, Consume(i)
  PROVE  IInv' /\ KeepsDead
<1>0. /\ ctx[i].via \in Tokens /\ OnChain(ctx[i].via, ctx[i].chain)
      /\ ctx[i] \in Context /\ ctx[i] # None /\ ctx[i].chain \in Chains
  BY DEF Consume, IInv, Redeeming, TypeOK, Context
<1>. PICK t \in Tokens, c \in Chains : t = ctx[i].via /\ c = ctx[i].chain
  BY <1>0
<1>1. /\ pc[i] = "consume" /\ Is(t, "active") /\ Moves(i, "mint", ctx[i])
      /\ rows' = [rows EXCEPT ![t].status = "used"]
      /\ UNCHANGED <<expired, held, riders>>
  BY DEF Consume, Goto, Moves
<1>2. /\ OnChain(t, c) /\ Exists(t) /\ rows[t].status = "active"
      /\ ctx[i] \in Context /\ ctx[i] # None
  BY <1>0, <1>1 DEF Is
<1>3. /\ pc'[i] = "mint" /\ ctx'[i] = ctx[i]
      /\ \A j \in Invocations \ {i} : pc'[j] = pc[j] /\ ctx'[j] = ctx[j]
  BY <1>1, <1>2, MoveTypes DEF IInv
<1>4. /\ rows'[t] \in Row /\ rows'[t] # None
      /\ rows'[t].chain = rows[t].chain /\ rows'[t].status = "used"
      /\ \A u \in Tokens \ {t} : rows'[u] = rows[u]
      /\ rows' \in [Tokens -> Row \cup {None}]
  <2>1. "used" \in Status
    BY DEF Status
  <2>2. [rows[t] EXCEPT !.status = "used"] \in Row
    BY <1>2, <2>1, StatusRow DEF IInv
  <2>. QED
    BY <1>1, <1>2, <2>1, <2>2, StatusRow DEF IInv, TypeOK
<1>5. Quietly(i, "mint", ctx[i])
  BY <1>1, <1>2, <1>4 DEF Quietly, RowsKept, Exists
<1>6. TypeOK'
  BY <1>1, <1>2, <1>5, QuietTypes DEF IInv, TypeOK
<1>7. \A u \in Tokens : \A d : OnChain(u, d)' <=> OnChain(u, d)
  BY <1>2, <1>4 DEF OnChain, Exists
<1>8. Redeeming'
  BY <1>1, <1>2, <1>3, <1>7 DEF IInv, Redeeming
<1>9. FreshChain'
  BY <1>3, <1>7, <1>2 DEF IInv, FreshChain, OnChain, Exists
<1>10. \A r \in riders : r.via # t
  BY <1>2, RenewalAssumption DEF IInv, TokenSpentOnce
<1>11. \A j \in Invocations : pc[j] = "mint" => ctx[j].via # t
  BY <1>2 DEF IInv, Spent
<1>12. ASSUME NEW j \in Invocations, pc'[j] = "mint"
       PROVE  /\ rows'[ctx'[j].via].status # "active"
              /\ \A r \in riders' : r.via # ctx'[j].via
              /\ \A k \in Invocations \ {j} : pc'[k] = "mint" => ctx'[k].via # ctx'[j].via
  <2>1. CASE j = i
    BY <1>1, <1>3, <1>4, <1>10, <1>11, <2>1
  <2>2. CASE j # i
    <3>1. pc[j] = "mint" /\ ctx'[j] = ctx[j] /\ ctx[j].via # t /\ ctx[j].via \in Tokens
      BY <1>3, <1>11, <1>12, <2>2 DEF IInv, Redeeming
    <3>2. /\ rows[ctx[j].via].status # "active"
          /\ \A r \in riders : r.via # ctx[j].via
          /\ \A k \in Invocations \ {j} : pc[k] = "mint" => ctx[k].via # ctx[j].via
      BY <3>1 DEF IInv, Spent
    <3>. QED
      BY <1>1, <1>3, <1>4, <3>1, <3>2
  <2>. QED
    BY <2>1, <2>2
<1>13. NoRenewal /\ riders' \subseteq Rider
  BY <1>1 DEF NoRenewal, IInv, TypeOK
<1>14. Spent' /\ TokenSpentOnce'
  BY <1>5, <1>12, <1>13, QuietSpent DEF Spent, Quietly
<1>15. /\ LiveRows(c) = {t} /\ LiveMints(c) = {}
       /\ LiveRows(c)' = {} /\ LiveMints(c)' = {i}
       /\ \A d \in Chains \ {c} : LiveRows(d)' = LiveRows(d) /\ LiveMints(d)' = LiveMints(d)
  <2>1. t \in LiveRows(c)
    BY <1>2 DEF LiveRows
  <2>2. LiveRows(c) = {t} /\ LiveMints(c) = {}
    BY <1>2, <2>1 DEF IInv, OneLivePerChain
  <2>3. LiveRows(c)' = {}
    BY <1>4, <1>7, <2>2 DEF LiveRows
  <2>4. LiveMints(c)' = {i}
    BY <1>3, <2>2 DEF LiveMints
  <2>5. \A d \in Chains \ {c} : LiveRows(d)' = LiveRows(d)
    BY <1>2, <1>4, <1>7 DEF LiveRows, OnChain
  <2>6. \A d \in Chains \ {c} : LiveMints(d)' = LiveMints(d)
    BY <1>1, <1>3 DEF LiveMints
  <2>. QED
    BY <2>2, <2>3, <2>4, <2>5, <2>6
<1>16. OneLivePerChain'
  BY <1>15 DEF IInv, OneLivePerChain
<1>17. KeepsDead
  BY <1>7, <1>15 DEF KeepsDead, Dead
<1>. QED
  BY <1>6, <1>8, <1>9, <1>14, <1>16, <1>17 DEF IInv

-----------------------------------------------------------------------------
(* The step that makes a row *)

\* IssueMint, RenewMint and MintUnanswered.
Mints(i, t) ==
  /\ pc[i] \in {"issue", "mint"}
  /\ ~Exists(t)
  /\ rows' = Minted(t, ctx[i])
  /\ held' \in {held, held \cup {t}}
  /\ riders' \in {riders, riders \cup {RiderFrom(ctx[i], t)}}
  /\ Forget(i)
  /\ UNCHANGED expired

\* The minter was all that kept its chain alive, and its row is now.
LEMMA MintInv ==
  ASSUME IInv, NEW i \in Invocations, NEW t \in Tokens, Mints(i, t)
  PROVE  IInv' /\ KeepsDead
<1>1. ctx[i] \in Context /\ ctx[i].chain \in Chains /\ t # None
  BY RenewalAssumption DEF Mints, IInv, TypeOK, Context
<1>. PICK x \in Context : x = ctx[i]
  BY <1>1
<1>. PICK c \in Chains : c = x.chain
  BY <1>1
<1>2. /\ pc'[i] = "idle" /\ ctx'[i] = None
      /\ \A j \in Invocations \ {i} : pc'[j] = pc[j] /\ ctx'[j] = ctx[j]
      /\ pc' \in [Invocations -> {"idle", "issue", "consume", "mint", "burn", "revoke"}]
      /\ ctx' \in [Invocations -> Context \cup {None}]
      /\ \A j \in Invocations : pc'[j] = "idle" <=> ctx'[j] = None
  BY MoveTypes DEF IInv, Mints, Forget, Moves
<1>3. /\ rows[t] = None
      /\ rows'[t] # None /\ rows'[t].chain = c /\ rows'[t].status = "active"
      /\ \A u \in Tokens \ {t} : rows'[u] = rows[u]
      /\ rows' \in [Tokens -> Row \cup {None}]
  <2>1. rows' = Minted(t, x) /\ rows[t] = None
    BY DEF Mints, Exists
  <2>2. /\ Minted(t, x) \in [Tokens -> Row \cup {None}]
        /\ Minted(t, x)[t] = [agent |-> x.agent, claims |-> x.claims,
                              chain |-> x.chain, status |-> "active"]
        /\ Minted(t, x)[t] # None
        /\ \A u \in Tokens \ {t} : Minted(t, x)[u] = rows[u]
    BY MintedRow DEF IInv
  <2>. QED
    BY <2>1, <2>2
<1>4. \A u \in Tokens : \A d : OnChain(u, d)' <=> OnChain(u, d) \/ (u = t /\ d = c)
  BY <1>3 DEF OnChain, Exists
<1>5. RiderFrom(x, t) \in Rider /\ RiderFrom(x, t).via = x.via
  BY RiderFacts
<1>6. riders' \subseteq Rider
        /\ \A r \in riders' : r \in riders \/ (r = RiderFrom(x, t) /\ r.via = x.via)
  <2>1. riders \subseteq Rider
    BY DEF IInv, TypeOK
  <2>2. riders' = riders \/ riders' = riders \cup {RiderFrom(x, t)}
    BY DEF Mints
  <2>. QED
    BY <1>5, <2>1, <2>2
<1>7. TypeOK'
  <2>1. held' \subseteq {u \in Tokens : Exists(u)'}
    BY <1>3 DEF Mints, IInv, TypeOK, Exists
  <2>. QED
    BY <1>2, <1>3, <1>6, <2>1 DEF Mints, IInv, TypeOK, Exists
<1>8. Redeeming'
  BY <1>2, <1>4 DEF IInv, Redeeming
<1>9. ASSUME NEW j \in Invocations, pc'[j] = "issue"
      PROVE  /\ ctx'[j].via = None
             /\ \A u \in Tokens : ~OnChain(u, ctx[j].chain)'
             /\ \A k \in Invocations \ {j} : ctx'[k] # None => ctx'[k].chain # ctx'[j].chain
  <2>1. j # i /\ pc[j] = "issue" /\ ctx'[j] = ctx[j]
    BY <1>2, <1>9
  <2>2. /\ ctx[j].via = None
        /\ \A u \in Tokens : ~OnChain(u, ctx[j].chain)
        /\ \A k \in Invocations \ {j} : ctx[k] # None => ctx[k].chain # ctx[j].chain
    BY <2>1 DEF IInv, FreshChain
  <2>3. ctx[i] # None
    BY <1>1, NoneIsNoRow
  <2>4. \A u \in Tokens : ~(u = t /\ ctx[j].chain = c)
    BY <2>1, <2>2, <2>3
  <2>5. ctx[j] = ctx'[j]
    BY <2>1
  <2>6. ASSUME NEW u \in Tokens
        PROVE  rows'[u] # None => rows'[u].chain # ctx'[j].chain
    BY <1>4, <2>2, <2>4, <2>5 DEF OnChain, Exists
  <2>. QED
    BY <1>2, <2>1, <2>2, <2>6 DEF OnChain, Exists
<1>10. FreshChain'
  BY <1>9 DEF FreshChain, OnChain, Exists
<1>11. pc[i] = "issue" => x.via = None
  BY DEF IInv, FreshChain
<1>12. pc[i] = "mint" => /\ x.via \in Tokens /\ Exists(x.via) /\ x.via # t
                         /\ rows[x.via].status # "active"
                         /\ \A r \in riders : r.via # x.via
                         /\ \A j \in Invocations \ {i} : pc[j] = "mint" => ctx[j].via # x.via
  BY <1>3 DEF IInv, Redeeming, Spent, OnChain, Exists
<1>13. x.via # None => pc[i] = "mint"
  BY <1>11 DEF Mints
<1>14. ASSUME NEW j \in Invocations, pc'[j] = "mint"
       PROVE  /\ rows'[ctx'[j].via].status # "active"
              /\ \A r \in riders' : r.via # ctx'[j].via
              /\ \A k \in Invocations \ {j} : pc'[k] = "mint" => ctx'[k].via # ctx'[j].via
  <2>1. j # i /\ pc[j] = "mint" /\ ctx'[j] = ctx[j]
    BY <1>2, <1>14
  <2>2. ctx[j].via \in Tokens /\ ctx[j].via # t /\ ctx[j].via # None
    BY <1>3, <2>1, RenewalAssumption DEF IInv, Redeeming, OnChain, Exists
  <2>3. /\ rows[ctx[j].via].status # "active"
        /\ \A r \in riders : r.via # ctx[j].via
        /\ \A k \in Invocations \ {j} : pc[k] = "mint" => ctx[k].via # ctx[j].via
    BY <2>1 DEF IInv, Spent
  <2>4. x.via # ctx[j].via
    BY <1>12, <1>13, <2>1, <2>2
  <2>. QED
    BY <1>2, <1>3, <1>6, <2>1, <2>2, <2>3, <2>4
<1>15. ASSUME NEW r \in riders', r.via # None
       PROVE  /\ Exists(r.via)' /\ rows'[r.via].status # "active"
              /\ \A q \in riders' : q.via = r.via => q = r
  <2>1. CASE r \in riders
    <3>1. Exists(r.via) /\ r.via \in Tokens
      BY <1>15, <2>1 DEF IInv, Spent, TypeOK, Rider
    <3>2. /\ rows[r.via].status # "active"
          /\ \A q \in riders : q.via = r.via => q = r
      BY <1>15, <2>1 DEF IInv, TokenSpentOnce
    <3>3. x.via # r.via
      BY <1>12, <1>13, <1>15, <2>1
    <3>. QED
      BY <1>3, <1>6, <3>1, <3>2, <3>3 DEF Exists
  <2>2. CASE r = RiderFrom(x, t) /\ r.via = x.via
    BY <1>3, <1>6, <1>12, <1>13, <1>15, <2>2 DEF Exists
  <2>. QED
    BY <1>6, <2>1, <2>2
<1>16. Spent' /\ TokenSpentOnce'
  BY <1>14, <1>15 DEF Spent, TokenSpentOnce
<1>17. /\ i \in LiveMints(c) /\ LiveMints(c)' = {}
       /\ LiveRows(c)' = {t}
       /\ \A d \in Chains \ {c} : LiveRows(d)' = LiveRows(d) /\ LiveMints(d)' = LiveMints(d)
  <2>1. i \in LiveMints(c)
    BY DEF LiveMints, Mints
  <2>2. LiveMints(c) = {i} /\ LiveRows(c) = {}
    BY <2>1 DEF IInv, OneLivePerChain
  <2>3. LiveMints(c)' = {}
    BY <1>2, <2>2 DEF LiveMints
  <2>4. LiveRows(c)' = {t}
    <3>1. \A u \in Tokens \ {t} : OnChain(u, c) => rows[u].status # "active"
      BY <2>2 DEF LiveRows
    <3>. QED
      BY <1>3, <1>4, <3>1 DEF LiveRows
  <2>5. \A d \in Chains \ {c} : LiveRows(d)' = LiveRows(d)
    BY <1>3, <1>4 DEF LiveRows, OnChain, Exists
  <2>6. \A d \in Chains \ {c} : LiveMints(d)' = LiveMints(d)
    BY <1>2 DEF LiveMints
  <2>. QED
    BY <2>1, <2>3, <2>4, <2>5, <2>6
<1>18. OneLivePerChain'
  BY <1>17 DEF IInv, OneLivePerChain
<1>19. KeepsDead
  BY <1>4, <1>17 DEF KeepsDead, Dead
<1>. QED
  BY <1>7, <1>8, <1>10, <1>16, <1>18, <1>19 DEF IInv

-----------------------------------------------------------------------------
(* Every step *)

\* Time passes, or nothing happens.
LEMMA StillInv ==
  ASSUME IInv, UNCHANGED <<rows, held, riders, pc, ctx>>, expired' \subseteq Tokens
  PROVE  IInv' /\ KeepsDead
<1>1. \A u \in Tokens : \A d : OnChain(u, d)' <=> OnChain(u, d)
  BY DEF OnChain, Exists
<1>2. \A d \in Chains : LiveRows(d)' = LiveRows(d) /\ LiveMints(d)' = LiveMints(d)
  BY DEF LiveRows, LiveMints, OnChain, Exists
<1>3. TypeOK' /\ Redeeming' /\ FreshChain'
  BY DEF IInv, TypeOK, Redeeming, FreshChain, OnChain, Exists
<1>4. Spent' /\ TokenSpentOnce'
  BY DEF IInv, Spent, TokenSpentOnce, Exists
<1>5. OneLivePerChain' /\ KeepsDead
  BY <1>1, <1>2 DEF IInv, OneLivePerChain, KeepsDead, Dead
<1>. QED
  BY <1>3, <1>4, <1>5 DEF IInv

\* A reader's step, a revocation, an answer without a row and a failure.
LEMMA QuietSteps ==
  ASSUME IInv, NEW i \in Invocations,
         \/ IssueMintRefused(i) \/ ConsumeLost(i) \/ ConsumeError(i)
         \/ Burn(i) \/ RevokeChain(i) \/ Fails(i)
         \/ \E t \in Tokens : RenewReused(i, t) \/ RenewRead(i, t) \/ RevokeRead(i, t)
  PROVE  IInv' /\ KeepsDead
<1>1. /\ rows \in [Tokens -> Row \cup {None}] /\ riders \subseteq Rider
      /\ expired \subseteq Tokens
      /\ ctx \in [Invocations -> Context \cup {None}]
      /\ pc[i] # "idle" => ctx[i] \in Context /\ ctx[i] # None
  BY DEF IInv, TypeOK
<1>2. ASSUME UNCHANGED <<rows, held, riders, expired>>,
             NEW await, NEW c, Moves(i, await, c)
      PROVE  /\ Quietly(i, await, c) /\ NoRenewal
             /\ riders' \subseteq Rider /\ expired' \subseteq Tokens
  BY <1>1, <1>2 DEF Quietly, RowsKept, NoRenewal, Exists
<1>3. ASSUME IssueMintRefused(i) PROVE IInv' /\ KeepsDead
  <2>1. ctx[i] \in Context /\ ctx[i].via = None
    BY <1>1, <1>3 DEF IssueMintRefused, IInv, FreshChain
  <2>2. RiderFrom(ctx[i], None) \in Rider /\ RiderFrom(ctx[i], None).via = None
    BY <2>1, RiderFacts
  <2>3. NoRenewal /\ riders' \subseteq Rider /\ expired' \subseteq Tokens
    BY <1>1, <1>3, <2>2 DEF IssueMintRefused, NoRenewal
  <2>4. Quietly(i, "idle", None)
    BY <1>1, <1>3 DEF IssueMintRefused, Forget, Moves, Quietly, RowsKept, Exists
  <2>. QED
    BY <2>3, <2>4, QuietInv
<1>4. ASSUME NEW t \in Tokens, NEW await \in {"consume", "burn", "revoke"}, t \in held,
             Goto(i, await, Presented(t)), UNCHANGED <<rows, expired, held, riders>>
      PROVE  IInv' /\ KeepsDead
  <2>1. /\ Presented(t) \in Context /\ Presented(t).via = t
        /\ OnChain(t, Presented(t).chain)
    BY <1>4, PresentedFacts DEF IInv, OnChain
  <2>2. PICK c \in Context : c = Presented(t)
    BY <2>1
  <2>3. Moves(i, await, c) /\ c # None
    BY <1>4, <2>2, NoneIsNoRow DEF Goto, Moves
  <2>4. Quietly(i, await, c) /\ NoRenewal /\ riders' \subseteq Rider /\ expired' \subseteq Tokens
    BY <1>2, <1>4, <2>3
  <2>. QED
    BY <2>1, <2>2, <2>3, <2>4, QuietInv
<1>5. ASSUME NEW t \in Tokens, RenewReused(i, t) \/ RenewRead(i, t) \/ RevokeRead(i, t)
      PROVE  IInv' /\ KeepsDead
  BY <1>4, <1>5 DEF RenewReused, RenewRead, RevokeRead
<1>6. ASSUME ConsumeLost(i) PROVE IInv' /\ KeepsDead
  <2>1. PICK c \in Context : c = ctx[i]
    BY <1>1, <1>6 DEF ConsumeLost
  <2>2. Moves(i, "burn", c) /\ c # None
    BY <1>6, <2>1, NoneIsNoRow DEF ConsumeLost, Goto, Moves
  <2>3. Quietly(i, "burn", c) /\ NoRenewal /\ riders' \subseteq Rider /\ expired' \subseteq Tokens
    BY <1>2, <1>6, <2>2 DEF ConsumeLost
  <2>. QED
    BY <2>1, <2>2, <2>3, QuietInv
<1>7. ASSUME ConsumeError(i) PROVE IInv' /\ KeepsDead
  <2>1. PICK c \in Context : c = ctx[i]
    BY <1>1, <1>7 DEF ConsumeError
  <2>2. Moves(i, "burn", c) /\ c # None
    BY <1>7, <2>1, NoneIsNoRow DEF ConsumeError, Goto, Moves
  <2>3. PICK t \in Tokens : t = c.via /\ Exists(t)
    BY <1>7, <2>1 DEF ConsumeError, IInv, Redeeming, OnChain
  <2>4. RowsKept /\ rows' \in [Tokens -> Row \cup {None}]
        /\ \A u \in Tokens : ~Exists(u) => rows'[u] = None
    <3>1. CASE rows' = [rows EXCEPT ![t].status = "used"]
      <4>1. "used" \in Status
        BY DEF Status
      <4>2. /\ [rows[t] EXCEPT !.status = "used"] \in Row
            /\ [rows[t] EXCEPT !.status = "used"] # None
            /\ [rows[t] EXCEPT !.status = "used"].chain = rows[t].chain
            /\ [rows[t] EXCEPT !.status = "used"].status = "used"
        BY <2>3, <4>1, StatusRow DEF IInv
      <4>. QED
        BY <1>1, <2>3, <3>1, <4>2 DEF RowsKept, Exists
    <3>2. CASE rows' = rows
      BY <1>1, <3>2 DEF RowsKept, Exists
    <3>. QED
      BY <1>7, <2>1, <2>3, <3>1, <3>2 DEF ConsumeError
  <2>5. NoRenewal /\ riders' \subseteq Rider /\ expired' \subseteq Tokens
    BY <1>1, <1>7 DEF ConsumeError, NoRenewal
  <2>6. Quietly(i, "burn", c)
    BY <1>7, <2>2, <2>4 DEF ConsumeError, Quietly
  <2>. QED
    BY <2>1, <2>2, <2>5, <2>6, QuietInv
<1>8. ASSUME NEW S, NEW reason \in Revoked, rows' = RevokedRows(S, reason), Forget(i),
             UNCHANGED <<expired, held, riders>>
      PROVE  IInv' /\ KeepsDead
  <2>1. /\ rows' \in [Tokens -> Row \cup {None}]
        /\ \A t \in Tokens :
             \/ rows'[t] = rows[t]
             \/ /\ Exists(t) /\ rows'[t] # None
                /\ rows'[t].chain = rows[t].chain
                /\ rows'[t].status \in Revoked
    BY <1>8, RevokedFacts DEF IInv
  <2>2. Quietly(i, "idle", None)
    BY <1>8, <2>1 DEF Forget, Moves, Quietly, RowsKept, Exists, Revoked
  <2>3. NoRenewal /\ riders' \subseteq Rider /\ expired' \subseteq Tokens
    BY <1>1, <1>8 DEF NoRenewal
  <2>. QED
    BY <2>2, <2>3, QuietInv
<1>9. ASSUME Burn(i) \/ RevokeChain(i) PROVE IInv' /\ KeepsDead
  <2>1. "reuse_detected" \in Revoked /\ "holder_revoke" \in Revoked
    BY DEF Revoked
  <2>. QED
    BY <1>8, <1>9, <2>1 DEF Burn, RevokeChain
<1>10. ASSUME Fails(i) PROVE IInv' /\ KeepsDead
  <2>1. Moves(i, "idle", None)
    BY <1>10 DEF Fails, Forget, Moves
  <2>2. /\ Quietly(i, "idle", None) /\ NoRenewal
        /\ riders' \subseteq Rider /\ expired' \subseteq Tokens
    BY <1>2, <1>10, <2>1 DEF Fails
  <2>. QED
    BY <2>2, QuietInv
<1>. QED
  BY <1>3, <1>5, <1>6, <1>7, <1>9, <1>10

LEMMA StepInv == IInv /\ [Next]_vars => IInv' /\ KeepsDead
<1>. SUFFICES ASSUME IInv, [Next]_vars PROVE IInv' /\ KeepsDead
  OBVIOUS
<1>1. ASSUME NEW i \in Invocations, Step(i) PROVE IInv' /\ KeepsDead
  <2>1. ASSUME NEW a \in Agents, NEW k \in Claims, NEW c \in Chains, Issue(i, a, k, c)
        PROVE  IInv' /\ KeepsDead
    BY <2>1, IssueInv
  <2>2. ASSUME NEW t \in Tokens, IssueMint(i, t) \/ RenewMint(i, t) \/ MintUnanswered(i, t)
        PROVE  IInv' /\ KeepsDead
    <3>1. Mints(i, t)
      BY <2>2 DEF Mints, IssueMint, RenewMint, MintUnanswered
    <3>. QED
      BY <3>1, MintInv
  <2>3. ASSUME Consume(i) PROVE IInv' /\ KeepsDead
    BY <2>3, ConsumeInv
  <2>. QED
    BY <1>1, <2>1, <2>2, <2>3, QuietSteps DEF Step
<1>2. ASSUME NEW t \in Tokens, Expires(t) PROVE IInv' /\ KeepsDead
  <2>1. expired' \subseteq Tokens
    BY <1>2 DEF Expires, IInv, TypeOK
  <2>. QED
    BY <1>2, <2>1, StillInv DEF Expires
<1>3. ASSUME UNCHANGED vars PROVE IInv' /\ KeepsDead
  BY <1>3, StillInv DEF vars, IInv, TypeOK
<1>. QED
  BY <1>1, <1>2, <1>3 DEF Next

-----------------------------------------------------------------------------
(* Theorems *)

LEMMA SpecInv == Spec => []IInv
<1>1. IInv /\ [Next]_vars => IInv'
  BY StepInv
<1>. QED
  BY InitInv, <1>1, PTL DEF Spec

\* Every row, rider and context of redeemRenewalToken and of the issue route has
\* its type, whatever step fails and whatever is presented twice.
THEOREM RowsAreRows == Spec => []TypeOK
<1>1. IInv => TypeOK
  BY DEF IInv
<1>. QED
  BY SpecInv, <1>1, PTL

\* Rotation is a line for any number of racing invocations: consumeRow's update
\* leaves a chain one active token or one renewal about to write one.
THEOREM ChainIsALine == Spec => []OneLivePerChain
<1>1. IInv => OneLivePerChain
  BY DEF IInv
<1>. QED
  BY SpecInv, <1>1, PTL

\* No token presented to redeemRenewalToken buys two riders, and none that
\* bought one is active again.
THEOREM TokenBuysOneRider == Spec => []TokenSpentOnce
<1>1. IInv => TokenSpentOnce
  BY DEF IInv
<1>. QED
  BY SpecInv, <1>1, PTL

\* No step of any handler renews a chain that a revocation, a reuse or a lost
\* answer has left with nothing alive.
THEOREM DeadChainsStayDead == Spec => DeadStaysDead
<1>1. IInv /\ [Next]_vars => [\A c \in Chains : Dead(c) => Dead(c)']_vars
  BY StepInv DEF KeepsDead
<1>. QED
  BY SpecInv, <1>1, PTL DEF Spec, DeadStaysDead
=============================================================================
