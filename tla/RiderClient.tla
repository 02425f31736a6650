----------------------------- MODULE RiderClient -----------------------------
(***************************************************************************)
(* The messaging client merchants and agents install (packages/            *)
(* agent-rider): it holds one permanent key, mints riders with it as       *)
(* needed, and sends direct messages and reads threads with them.  Its     *)
(* operations overlap; a request or its answer may be lost, late or        *)
(* refused.                                                                *)
(*                                                                         *)
(* One thread runs the client: between an await's resolution and what      *)
(* follows it other callbacks may run, close() among them, but the clock   *)
(* is taken to stand still.  Input that is refused before anything is sent *)
(* is left out.                                                            *)
(***************************************************************************)
EXTENDS Integers, Sequences

CONSTANTS
  Operations,  \* sendDirectMessage and readThread calls
  Ttls,        \* lifetimes the service may answer with
  MaxTtl,      \* the longest the client takes (900 s)
  Margin,      \* how long before its end a rider is renewed (30 s)
  MaxClock,    \* bound: time
  None

VARIABLES
  clock,
  closed,     \* close() was called
  cached,     \* the rider in use: [token, refreshAt]
  issuing,    \* the one issue under way: [started, answer]
  operation,  \* where each call is: [at, token]
  issued,     \* ends of the riders the service minted, by token
  stored,     \* how often the service carried out each operation
  sent,       \* requests sent with a rider
  refused,    \* riders the service answered 401 to
  discarded   \* riders dropped for such an answer

client == <<clock, closed, cached, issuing, operation, issued, stored, sent, refused, discarded>>

-----------------------------------------------------------------------------

\* The client's part ends; at is what its caller sees.
Settled(at, token) == [at |-> at, token |-> token]

Waiting == {o \in Operations : operation[o].at = "waiting"}

\* credential(): the rider in use, or the issue under way, or a new issue.
Credential(o) ==
  /\ operation[o].at = "idle" /\ ~closed
  /\ \/ /\ cached # None /\ clock < cached.refreshAt
        /\ operation' = [operation EXCEPT ![o] = Settled("ready", cached.token)]
        /\ UNCHANGED issuing
     \/ /\ cached # None => clock >= cached.refreshAt
        /\ operation' = [operation EXCEPT ![o].at = "waiting"]
        /\ issuing' = IF issuing = None THEN [started |-> clock, answer |-> None] ELSE issuing
  /\ UNCHANGED <<clock, closed, cached, issued, stored, sent, refused, discarded>>

\* The service mints a rider.
Mint ==
  /\ issuing # None /\ issuing.answer = None
  /\ \E ttl \in Ttls :
       /\ issued' = Append(issued, clock + ttl)
       /\ issuing' = [issuing EXCEPT !.answer = [token |-> Len(issued'), ttl |-> ttl]]
  /\ UNCHANGED <<clock, closed, cached, operation, stored, sent, refused, discarded>>

\* All that wait for the issue get its outcome.
Woken(at, token) ==
  operation' = [o \in Operations |-> IF o \in Waiting THEN Settled(at, token) ELSE operation[o]]

\* A rider is taken if the client is open and it can still be used.
Usable(issue) ==
  /\ ~closed
  /\ issue.answer.ttl <= MaxTtl
  /\ clock < issue.started + issue.answer.ttl

IssueAnswered ==
  /\ issuing # None /\ issuing.answer # None
  /\ \/ /\ Usable(issuing)
        /\ cached' = [token |-> issuing.answer.token,
                      refreshAt |-> issuing.started + issuing.answer.ttl - Margin]
        /\ Woken("ready", issuing.answer.token)
     \/ ~Usable(issuing) /\ Woken("failed", None) /\ UNCHANGED cached
  /\ issuing' = None
  /\ UNCHANGED <<clock, closed, issued, stored, sent, refused, discarded>>

\* It is refused, lost, or takes too long.
IssueFailed ==
  /\ issuing # None
  /\ issuing' = None
  /\ Woken("failed", None)
  /\ UNCHANGED <<clock, closed, cached, issued, stored, sent, refused, discarded>>

\* gated(): the request leaves unless the client was closed meanwhile.
Gated(o) ==
  /\ operation[o].at = "ready"
  /\ IF closed THEN
       operation' = [operation EXCEPT ![o] = Settled("failed", None)] /\ UNCHANGED sent
     ELSE
       /\ operation' = [operation EXCEPT ![o].at = "sent"]
       /\ sent' = sent \cup
            {[of |-> o, token |-> operation[o].token, at |-> clock, open |-> ~closed]}
  /\ UNCHANGED <<clock, closed, cached, issuing, issued, stored, refused, discarded>>

\* The service carries the request out.
Carry(o) ==
  /\ operation[o].at = "sent" /\ clock < issued[operation[o].token]
  /\ stored' = [stored EXCEPT ![o] = @ + 1]
  /\ operation' = [operation EXCEPT ![o].at = "carried"]
  /\ UNCHANGED <<clock, closed, cached, issuing, issued, sent, refused, discarded>>

Answered(o) ==
  /\ operation[o].at = "carried"
  /\ operation' = [operation EXCEPT ![o] = Settled("ok", None)]
  /\ UNCHANGED <<clock, closed, cached, issuing, issued, stored, sent, refused, discarded>>

\* Mutant: whatever rider is in use is dropped.
UnauthorizedDropsAny(o) ==
  /\ operation[o].at = "sent"
  /\ operation' = [operation EXCEPT ![o] = Settled("failed", None)]
  /\ refused' = refused \cup {operation[o].token}
  /\ IF cached = None THEN UNCHANGED <<cached, discarded>>
     ELSE cached' = None /\ discarded' = discarded \cup {cached.token}
  /\ UNCHANGED <<clock, closed, issuing, issued, stored, sent>>

\* 401: the rider has ended or is revoked.  The next operation mints anew,
\* unless one already has.
Unauthorized(o) ==
  /\ operation[o].at = "sent"
  /\ operation' = [operation EXCEPT ![o] = Settled("failed", None)]
  /\ refused' = refused \cup {operation[o].token}
  /\ IF cached = None THEN UNCHANGED <<cached, discarded>>
     ELSE IF cached.token # operation[o].token THEN UNCHANGED <<cached, discarded>>
     ELSE cached' = None /\ discarded' = discarded \cup {cached.token}
  /\ UNCHANGED <<clock, closed, issuing, issued, stored, sent>>

\* Timeout, lost answer or another error: the caller cannot tell whether
\* the request was carried out, and the client never repeats it.
Unknown(o) ==
  /\ operation[o].at \in {"sent", "carried"}
  /\ operation' = [operation EXCEPT ![o] = Settled("failed", None)]
  /\ UNCHANGED <<clock, closed, cached, issuing, issued, stored, sent, refused, discarded>>

Close ==
  /\ closed' = TRUE
  /\ cached' = None
  /\ UNCHANGED <<clock, issuing, operation, issued, stored, sent, refused, discarded>>

TickClock ==
  /\ clock < MaxClock
  /\ \A o \in Operations : operation[o].at # "ready"
  /\ clock' = clock + 1
  /\ UNCHANGED <<closed, cached, issuing, operation, issued, stored, sent, refused, discarded>>

-----------------------------------------------------------------------------

Init ==
  /\ clock = 0
  /\ closed = FALSE
  /\ cached = None
  /\ issuing = None
  /\ operation = [o \in Operations |-> Settled("idle", None)]
  /\ issued = <<>>
  /\ stored = [o \in Operations |-> 0]
  /\ sent = {}
  /\ refused = {}
  /\ discarded = {}

Next ==
  \/ \E o \in Operations :
       Credential(o) \/ Gated(o) \/ Carry(o) \/ Answered(o) \/ Unauthorized(o) \/ Unknown(o)
  \/ Mint \/ IssueAnswered \/ IssueFailed \/ Close \/ TickClock

Spec == Init /\ [][Next]_client

-----------------------------------------------------------------------------

Tokens == 1..Len(issued)

TypeOK ==
  /\ clock \in 0..MaxClock
  /\ cached # None => cached.token \in Tokens /\ cached.refreshAt < issued[cached.token]
  /\ issuing # None => issuing.started <= clock
  /\ \A o \in Operations :
       /\ operation[o].at \in {"idle", "waiting", "ready", "sent", "carried", "ok", "failed"}
       /\ operation[o].at \in {"ready", "sent", "carried"} => operation[o].token \in Tokens
       /\ operation[o].at = "waiting" => issuing # None
  /\ refused \subseteq Tokens

\* No operation is sent with a rider that has ended, however long the issue
\* took; none is sent after close(), which also leaves no rider behind.  An
\* operation is carried out at most once, and was if the caller is told so.
\* A late 401 never discards a rider newer than the one refused
\* (client.mjs credential, gated, close).
ClientKeeps ==
  /\ \A s \in sent : s.at < issued[s.token] /\ s.open
  /\ closed => cached = None
  /\ \A o \in Operations :
       stored[o] <= 1 /\ (operation[o].at = "ok" => stored[o] = 1)
  /\ discarded \subseteq refused
=============================================================================
