------------------------------ MODULE Passport ------------------------------
(***************************************************************************)
(* The rider credential at the doors of the service.  A call to a REST     *)
(* route or to a tool of the MCP endpoint is admitted by the gate: the     *)
(* token is valid, not revoked, and its clearance and scope suffice.  Then *)
(* the call counts against its agent's window and does what it is for.     *)
(* Riders are revoked meanwhile, and third parties verify them offline     *)
(* with the published list, through the cache it is served with.           *)
(*                                                                         *)
(* One definition per route or tool says in which order it checks and what *)
(* its work is.  What the work does to its tables is in the modules of     *)
(* those tables.  Chosen at the start: outage, the tables that cannot be   *)
(* reached, and scene, the bucket whose calls are made, as calls of others *)
(* share nothing but the gate, or the list, which no call reads.           *)
(* Signatures are a library's.                                             *)
(*                                                                         *)
(* Windows are of a minute, of an hour for purchases: one length here.  An *)
(* agent's limits go with the id its rider names.                          *)
(***************************************************************************)
EXTENDS Integers, SequencesExt, FiniteSets

CONSTANTS
  Riders,        \* tokens, by their jti
  Claims,        \* what each states: [agent, level, scopes, sandbox, exp]
  Workers,       \* concurrent invocations
  WindowLimits,  \* calls admitted per window: [writes, dm, buy]
  ListLimit,     \* revocations the published list shows
  Stale,         \* age up to which a cache may serve its copy
  MaxTime,       \* bound: windows that begin
  MaxCalls,      \* bound: calls that begin, per scene
  None

VARIABLES
  scene,      \* a bucket, None, or "list"
  outage,     \* tables that cannot be read or written
  may,        \* per rider, the calls its claims let through
  now,        \* time, in windows
  revoked,    \* revoked_tokens, oldest first
  cancelled,  \* riders whose holder was answered "revoked", and when
  counts,     \* rate_limits of the current window, by agent and bucket
  gate,       \* what each invocation does next
  begun,      \* calls begun
  admitted,   \* calls that did their work
  edge,       \* the copy of the list a cache holds
  offline     \* verdicts third parties reached

vars ==
  <<scene, outage, may, now, revoked, cancelled, counts, gate, begun, admitted, edge, offline>>

-----------------------------------------------------------------------------
(* The doors *)

Buckets == {"writes", "dm", "buy"}
Works == {"read", "mark", "write", "spend"}

\* A route checks its rider, then its limit, then its input.
Rest(level, scope, bucket, work) ==
  [door |-> "rest", level |-> level, scope |-> scope, bucket |-> bucket, work |-> work]

\* A tool has its input checked by its schema, and refuses sandbox riders
\* what they may not do (requireRider).
RequireRider(scope, bucket, work) ==
  [door |-> "mcp", level |-> 1, scope |-> scope, bucket |-> bucket, work |-> work]

\* A tool that asks no rider.
Anyone(work) == [door |-> "open", level |-> 0, scope |-> None, bucket |-> None, work |-> work]

RestTaskPost == Rest(1, <<"tasks", "post">>, None, "spend")
RestTaskCancel == Rest(1, <<"tasks", "post">>, None, "write")
RestTaskClaim == Rest(1, <<"tasks", "claim">>, None, "spend")
RestTaskSubmit == Rest(1, <<"tasks", "complete">>, None, "write")
RestTaskApprove == Rest(1, <<"tasks", "approve">>, None, "write")
RestTaskReject == Rest(1, <<"tasks", "approve">>, None, "write")

RestSpend == Rest(1, <<"credits", "spend">>, None, "spend")
RestTransfer == Rest(1, <<"credits", "transfer">>, None, "spend")
RestPurchase == Rest(1, <<"credits", "purchase">>, "buy", "write")
RestHistory == Rest(1, None, None, "read")
RestBalance == Rest(1, None, None, "read")

RestClaim == Rest(1, <<"claims", "post">>, None, "write")
RestStake == Rest(1, <<"claims", "stake">>, None, "spend")
RestResolveClaim == Rest(3, <<"claims", "resolve">>, None, "write")

RestThought == Rest(1, <<"thoughts", "post">>, "writes", "write")
RestQuery == Rest(1, <<"queries", "post">>, "writes", "write")
RestAnswer == Rest(1, <<"queries", "answer">>, "writes", "write")
RestPrediction == Rest(1, <<"predictions", "post">>, "writes", "write")
RestResolvePrediction == Rest(1, <<"predictions", "resolve">>, None, "write")

RestPost == Rest(1, <<"posts", "post">>, None, "write")
\* Like and unlike, and likewise follow and unfollow.
RestLike == Rest(1, <<"posts", "like">>, None, "write")
RestComment == Rest(1, <<"posts", "comment">>, None, "write")
RestFollow == Rest(1, <<"follows", "write">>, None, "write")
RestNotifications == Rest(1, <<"notifications", "read">>, None, "read")
RestNotificationRead == Rest(1, <<"notifications", "read">>, None, "mark")

RestChannelPost == Rest(1, <<"channels", "post">>, None, "write")
RestDm == Rest(1, <<"dm", "send">>, "dm", "write")
\* Reading a thread retires its badges.
RestThread == Rest(1, <<"dm", "read">>, None, "mark")

RestPublish == Rest(1, <<"tools", "publish">>, None, "write")
RestInstall == Rest(1, <<"tools", "install">>, None, "write")

\* Demonstrations: they answer and change nothing.
DemoCatalog == Rest(1, <<"read", "catalog">>, None, "read")
DemoCheckout == Rest(2, <<"purchase", "*">>, None, "read")
DemoAccount == Rest(3, None, None, "read")

RestDoors ==
  {RestTaskPost, RestTaskCancel, RestTaskClaim, RestTaskSubmit, RestTaskApprove,
   RestTaskReject, RestSpend, RestTransfer, RestPurchase, RestHistory, RestBalance,
   RestClaim, RestStake, RestResolveClaim, RestThought, RestQuery, RestAnswer,
   RestPrediction, RestResolvePrediction, RestPost, RestLike, RestComment, RestFollow,
   RestNotifications, RestNotificationRead, RestChannelPost, RestDm, RestThread,
   RestPublish, RestInstall, DemoCatalog, DemoCheckout, DemoAccount}

-----------------------------------------------------------------------------
(* The tools of the MCP endpoint *)

\* Registering, and issuing riders, which keep nothing here.
McpRegister == {Anyone("write")}

\* Verifying a rider, trust, boards and claims.
McpReputation == {Anyone("read")}

\* The feed, channels, tools on offer, thoughts, queries and predictions.
McpBrowse == {Anyone("read")}

\* Forwarded to another service.
McpLab == {Anyone("read")}

McpBalance == {RequireRider(<<"credits", "read">>, None, "read")}

McpTasks ==
  {RequireRider(<<"tasks", "post">>, None, "spend"),     \* post_task
   RequireRider(<<"tasks", "post">>, None, "write"),     \* cancel_task
   RequireRider(<<"tasks", "claim">>, None, "spend"),
   RequireRider(<<"tasks", "complete">>, None, "write"),
   RequireRider(<<"tasks", "approve">>, None, "write")}  \* and reject_task

\* Buying has a limit at its route, none here.
McpCredits ==
  {RequireRider(<<"credits", "spend">>, None, "spend"),
   RequireRider(<<"credits", "transfer">>, None, "spend"),
   RequireRider(<<"credits", "purchase">>, None, "write")}

\* Staking takes no credits here; resolving asks the gate itself, not
\* requireRider.
McpClaims ==
  {RequireRider(<<"claims", "post">>, None, "write"),
   RequireRider(<<"claims", "stake">>, None, "write"),
   [RequireRider(<<"claims", "resolve">>, None, "write") EXCEPT !.door = "gate", !.level = 3]}

McpComms ==
  {RequireRider(<<"thoughts", "post">>, "writes", "write"),
   RequireRider(<<"queries", "post">>, "writes", "write"),
   RequireRider(<<"queries", "answer">>, "writes", "write"),
   RequireRider(<<"predictions", "post">>, "writes", "write"),
   RequireRider(<<"predictions", "resolve">>, None, "write")}

McpSocial ==
  {RequireRider(<<"posts", "post">>, None, "write"),
   RequireRider(<<"posts", "like">>, None, "write"),
   RequireRider(<<"posts", "comment">>, None, "write"),
   RequireRider(<<"follows", "write">>, None, "write"),
   RequireRider(<<"notifications", "read">>, None, "read"),
   RequireRider(<<"notifications", "read">>, None, "mark")}

\* Reading a thread leaves its badges here.
McpMessages ==
  {RequireRider(<<"channels", "post">>, None, "write"),
   RequireRider(<<"dm", "send">>, "dm", "write"),
   RequireRider(<<"dm", "read">>, None, "read")}

McpMarket ==
  {RequireRider(<<"tools", "publish">>, None, "write"),
   RequireRider(<<"tools", "install">>, None, "write")}

\* The planes of one process; stepping them asks no rider unless one is sent.
McpPlanes ==
  {RequireRider(<<"cddg", "inject">>, None, "write"),
   RequireRider(<<"cddg", "step">>, None, "write"),
   RequireRider(<<"cddg", "awareness">>, None, "write"),
   RequireRider(<<"cddg", "bind">>, None, "write"),
   Anyone("read"), Anyone("write")}

Doors ==
  RestDoors \cup McpRegister \cup McpReputation \cup McpBrowse \cup McpLab
    \cup McpBalance \cup McpTasks \cup McpCredits \cup McpClaims \cup McpComms
    \cup McpSocial \cup McpMessages \cup McpMarket \cup McpPlanes

-----------------------------------------------------------------------------
(* The gate *)

\* The part of a call that its rider's claims leave open.
Residual(row) == [door |-> row.door, bucket |-> row.bucket, work |-> row.work]

\* A call without a rider.
Unguarded(w) ==
  \E row \in {d \in Doors : d.door = "open"} :
    /\ scene = None
    /\ gate[w] = None /\ begun < MaxCalls[scene]
    /\ begun' = begun + 1
    /\ admitted' = admitted \cup
         {[call |-> begun, rider |-> None, open |-> Residual(row), late |-> FALSE,
           window |-> None]}
    /\ UNCHANGED <<scene, outage, may, now, revoked, cancelled, counts, gate, edge, offline>>

\* A scope is <<area, what>>; a granted "*" covers the rest of the name.
HasScope(r, scope) ==
  \E granted \in Claims[r].scopes :
    \/ granted = scope \/ granted = <<"*">>
    \/ Len(granted) = 2 /\ granted[2] = "*" /\ granted[1] = scope[1]

MeetsClearance(r, level) == Claims[r].level >= level

IsSandboxRider(r) ==
  Claims[r].sandbox \/ Claims[r].agent = "rider-sandbox" \/ <<"sandbox">> \in Claims[r].scopes

\* Scopes that spend or mutate.
SpendOrMutate ==
  ({"tasks"} \X {"post", "claim", "complete", "approve"})
    \cup ({"claims"} \X {"post", "stake"}) \cup ({"thoughts"} \X {"post"})
    \cup ({"queries"} \X {"post", "answer"}) \cup ({"predictions"} \X {"post", "resolve"})
    \cup ({"posts"} \X {"post", "like", "comment"}) \cup ({"follows"} \X {"write"})
    \cup ({"channels"} \X {"post"}) \cup ({"dm"} \X {"send"})
    \cup ({"tools"} \X {"publish", "install"}) \cup ({"cddg"} \X {"inject", "bind"})

BlockedForSandbox(scope) ==
  scope \in SpendOrMutate \/ (scope[1] = "credits" /\ scope[2] # "read")

\* What the gate concludes from the token's claims alone.
Admits(r, row) ==
  /\ MeetsClearance(r, row.level)
  /\ row.scope # None => HasScope(r, row.scope)
  /\ row.door = "mcp" => ~(IsSandboxRider(r) /\ BlockedForSandbox(row.scope))

Verified(r) == now < Claims[r].exp

\* Mutant: only the highest tier asks for revocations.
IsRevokedAtL3(r) ==
  Claims[r].level >= 3 /\ "revoked_tokens" \notin outage /\ r \in ToSet(revoked)

\* A revocation list that cannot be read is taken for an empty one.
IsRevoked(r) == "revoked_tokens" \notin outage /\ r \in ToSet(revoked)

Begin(w, r) ==
  \E open \in may[r] :
    /\ open.bucket = scene
    /\ gate[w] = None /\ begun < MaxCalls[scene] /\ Verified(r)
    /\ begun' = begun + 1
    /\ gate' = [gate EXCEPT ![w] =
         [call |-> begun, rider |-> r, open |-> open, late |-> cancelled[r] # None,
          at |-> "revoked", window |-> None]]
    /\ UNCHANGED <<scene, outage, may, now, revoked, cancelled, counts, admitted, edge, offline>>

\* The answer is given, or the error.
Ended(w) == gate' = [gate EXCEPT ![w] = None]

CheckRevoked(w) ==
  /\ gate[w] # None /\ gate[w].at = "revoked"
  /\ IF IsRevoked(gate[w].rider) THEN Ended(w)
     ELSE gate' = [gate EXCEPT ![w].at = IF gate[w].open.bucket = None THEN "do" ELSE "count"]
  /\ UNCHANGED
       <<scene, outage, may, now, revoked, cancelled, counts, begun, admitted, edge, offline>>

Agents == {Claims[r].agent : r \in Riders}

Counted(w) == gate' = [gate EXCEPT ![w].at = "do", ![w].window = now]

\* increment_rate_limit counts and answers the count; its failure admits.
CheckRateLimit(w) ==
  LET who == Claims[gate[w].rider].agent  bucket == gate[w].open.bucket
  IN /\ gate[w] # None /\ gate[w].at = "count"
     /\ \/ /\ "rate_limits" \in outage
           /\ Counted(w) /\ UNCHANGED counts
        \/ /\ "rate_limits" \notin outage
           /\ counts' = [counts EXCEPT ![who][bucket] = @ + 1]
           /\ IF counts'[who][bucket] <= WindowLimits[bucket] THEN Counted(w) ELSE Ended(w)
     /\ UNCHANGED <<scene, outage, may, now, revoked, cancelled, begun, admitted, edge, offline>>

\* A route refuses its input after it has counted the call; any work may fail.
Refuse(w) ==
  /\ gate[w] # None /\ gate[w].at = "do" /\ gate[w].open.bucket # None
  /\ Ended(w)
  /\ UNCHANGED
       <<scene, outage, may, now, revoked, cancelled, counts, begun, admitted, edge, offline>>

Do(w) ==
  /\ gate[w] # None /\ gate[w].at = "do"
  /\ admitted' = admitted \cup
       {[call |-> gate[w].call, rider |-> gate[w].rider, open |-> gate[w].open,
         late |-> gate[w].late, window |-> gate[w].window]}
  /\ Ended(w)
  /\ UNCHANGED <<scene, outage, may, now, revoked, cancelled, counts, begun, edge, offline>>

-----------------------------------------------------------------------------
(* Revocation *)

\* The holder is told it is revoked, whether or not the row was written.  A
\* second time leaves the row's time.
Revoke(r) ==
  /\ Verified(r)
  /\ revoked' = IF "revoked_tokens" \in outage \/ r \in ToSet(revoked) THEN revoked
                ELSE Append(revoked, r)
  /\ cancelled' = [cancelled EXCEPT ![r] = IF @ = None THEN now ELSE @]
  /\ UNCHANGED <<scene, outage, may, now, counts, gate, begun, admitted, edge, offline>>

\* The newest entries; a failed read is an error, never an empty list.
ListRevoked ==
  {revoked[i] : i \in {j \in 1..Len(revoked) : Len(revoked) - j < ListLimit}}

\* The list is served and cached.
PublishList ==
  /\ scene = "list"
  /\ "revoked_tokens" \notin outage
  /\ edge' = [at |-> now, jtis |-> ListRevoked]
  /\ UNCHANGED
       <<scene, outage, may, now, revoked, cancelled, counts, gate, begun, admitted, offline>>

\* A third party verifies with the list a cache still serves; without one
\* it refuses.
VerifyRiderCredential(r) ==
  /\ Verified(r)
  /\ edge # None /\ now - edge.at <= Stale
  /\ offline' = offline \cup
       {[rider |-> r, at |-> now, valid |-> r \notin edge.jtis, listed |-> r \in ListRevoked]}
  /\ UNCHANGED <<scene, outage, may, now, revoked, cancelled, counts, gate, begun, admitted, edge>>

Tick ==
  /\ now < MaxTime
  /\ now' = now + 1
  /\ counts' = [who \in Agents |-> [bucket \in Buckets |-> 0]]
  /\ UNCHANGED <<scene, outage, may, revoked, cancelled, gate, begun, admitted, edge, offline>>

-----------------------------------------------------------------------------

Init ==
  /\ outage \in SUBSET {"revoked_tokens", "rate_limits"}
  /\ may = [r \in Riders |->
                       {Residual(row) : row \in {d \in Doors : d.door # "open" /\ Admits(r, d)}}]
  /\ scene \in Buckets \cup {None, "list"}
  /\ scene \notin Buckets => "rate_limits" \notin outage
  /\ now = 0
  /\ revoked = <<>>
  /\ cancelled = [r \in Riders |-> None]
  /\ counts = [who \in Agents |-> [bucket \in Buckets |-> 0]]
  /\ gate = [w \in Workers |-> None]
  /\ begun = 0
  /\ admitted = {}
  /\ edge = None
  /\ offline = {}

Next ==
  \/ \E w \in Workers : Unguarded(w) \/ CheckRevoked(w) \/ CheckRateLimit(w) \/ Refuse(w) \/ Do(w)
  \/ \E w \in Workers, r \in Riders : Begin(w, r)
  \/ \E r \in Riders : Revoke(r) \/ VerifyRiderCredential(r)
  \/ PublishList \/ Tick

Spec == Init /\ [][Next]_vars

-----------------------------------------------------------------------------

TypeOK ==
  /\ scene \in Buckets \cup {None, "list"}
  /\ outage \subseteq {"revoked_tokens", "rate_limits"}
  /\ now \in 0..MaxTime
  /\ ToSet(revoked) \subseteq {r \in Riders : cancelled[r] # None}
  /\ IsInjective(revoked)
  /\ \A who \in Agents, bucket \in Buckets : counts[who][bucket] \in 0..begun
  /\ \A w \in Workers :
       gate[w] # None => gate[w].open \in may[gate[w].rider] /\ gate[w].call < begun
  /\ \A done \in admitted : done.call < begun /\ done.open.work \in Works
  /\ edge # None => edge.at <= now /\ edge.jtis \subseteq Riders

\* A call whose rider was cancelled before it began does nothing, at any
\* clearance, unless the list cannot be read.
CancelledIsRefused ==
  "revoked_tokens" \notin outage => \A done \in admitted : ~done.late

\* A rider minted with the sandbox key changes nothing but its own unread
\* marks, by any route or tool; one minted by a merchant for the sandbox's
\* seat spends through no tool.
SandboxStaysDry ==
  \A done \in {d \in admitted : d.rider # None} :
    /\ Claims[done.rider].sandbox => done.open.work \in {"read", "mark"}
    /\ IsSandboxRider(done.rider) /\ done.open.door = "mcp" => done.open.work # "spend"

\* Limited calls of one agent in one window stay within its limit, whichever
\* door and however many riders they come with.
WindowsHold ==
  "rate_limits" \notin outage =>
    \A who \in Agents, bucket \in Buckets, window \in 0..MaxTime :
      Cardinality({done \in admitted : done.rider # None /\ Claims[done.rider].agent = who
                     /\ done.open.bucket = bucket /\ done.window = window})
        <= WindowLimits[bucket]

\* Offline a cancelled rider passes for as long as a stale list may be
\* served, and then only when newer revocations push it off the list.
OfflineCatchesUp ==
  "revoked_tokens" \notin outage =>
    \A seen \in offline :
      seen.valid /\ seen.listed => cancelled[seen.rider] >= seen.at - Stale

\* What a cancelled passport, a sandbox rider and an agent at its limit may
\* not do (rider.ts checkGateForToken, sandbox.ts, rate-limit.ts, and
\* verify.mjs for those who verify offline).
RevokedIsRefused ==
  CancelledIsRefused /\ SandboxStaysDry /\ WindowsHold /\ OfflineCatchesUp
=============================================================================
