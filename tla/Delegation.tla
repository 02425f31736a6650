----------------------------- MODULE Delegation -----------------------------
(***************************************************************************)
(* Toll 4: an agent spends under a grant, a signed envelope with a scope,  *)
(* a window and a cap, and a host asks /api/toll/v4/grants/check before it *)
(* lets it spend.  The check reads the revocations and the spends of the   *)
(* grant live; nothing it does records a spend, the host writes it after   *)
(* the verdict.  The envelope verifies against a JWKS that the caller      *)
(* sends, a copy of the lab's, while the operator rotates and revokes the  *)
(* signing key.                                                            *)
(*                                                                         *)
(* Abstracted: what a signature is computed from; an envelope is its grant *)
(* and the kid it names.  Counting and charging a call is in TollCalls.    *)
(***************************************************************************)
EXTENDS Integers

CONSTANTS
  Grants,      \* grants that may be issued
  Terms,       \* [scope, cap, from, until] of each
  Actions,     \* what an agent may ask to do
  Amounts,     \* micro-USDC it may ask to spend
  Keys,        \* signing keys
  FirstKey,    \* the one in use at the start
  Workers,     \* concurrent checks
  MaxAge,      \* DEFAULT_REVOCATION_MAX_AGE
  MaxTime,     \* bound: how far the clock runs
  MaxChecks,   \* bound: checks that start
  None

VARIABLES
  quiet,       \* grants whose spends are recorded before the next check begins
  now,         \* epoch seconds
  signer,      \* TOLL_SIGNING_KEY, or None when it is not set
  previous,    \* TOLL_PREVIOUS_PUBLIC_JWKS
  revokedKids, \* TOLL_REVOKED_KIDS
  held,        \* the JWKS a host fetched: its keys and its revoked kids
  envelope,    \* the kid each grant was sealed with, None before it is issued
  stored,      \* toll_grants
  revoked,     \* toll_revocations
  spends,      \* toll_grant_spends: what was spent under each grant
  check,       \* what each check in flight has read
  started,     \* checks so far
  allowed      \* history: verdicts "allowed" not spent on yet

vars == <<quiet, now, signer, previous, revokedKids, held, envelope, stored,
          revoked, spends, check, started, allowed>>
keys == <<signer, previous, revokedKids, held>>
grants == <<envelope, stored, revoked, spends>>

-----------------------------------------------------------------------------
(* Keys *)

\* A mistake: only the current key is published.
LabJwksCurrent == [keys |-> {signer} \ {None}, revoked |-> revokedKids]

\* labJwks, tollJwks, getJwks: without a signing key the earlier ones are
\* not published either.  The Rider key signs no grant and is left out.
LabJwks == [keys |-> IF signer = None THEN {} ELSE {signer} \cup previous,
            revoked |-> revokedKids]

\* verifyTollEnvelope: revoked first, then unknown, then the signature.
Verified(kid, jwks) == kid \notin jwks.revoked /\ kid \in jwks.keys

Fetch ==
  /\ held # LabJwks /\ held' = LabJwks
  /\ UNCHANGED <<quiet, now, signer, previous, revokedKids, grants, check, started, allowed>>

\* The runbook: the old key stays trusted next to the new one,
Rotate(k) ==
  /\ signer # None /\ k \notin {signer} \cup previous \cup revokedKids
  /\ previous' = previous \cup {signer} /\ signer' = k
  /\ UNCHANGED <<quiet, now, revokedKids, held, grants, check, started, allowed>>

\* and is revoked when its grace is over, or, in an emergency, while it still
\* signs: signTollPayload does not look at the revoked kids.
RevokeKid(k) ==
  /\ k \in ({signer} \cup previous) \ ({None} \cup revokedKids)
  /\ revokedKids' = revokedKids \cup {k}
  /\ previous' = previous \ {k}
  /\ UNCHANGED <<quiet, now, signer, held, grants, check, started, allowed>>

\* A deployment without the signing key.
Unset ==
  /\ signer # None /\ signer' = None
  /\ UNCHANGED <<quiet, now, previous, revokedKids, held, grants, check, started, allowed>>

-----------------------------------------------------------------------------
(* Grants *)

\* A mistake: the envelope leaves although its row was refused.
IssueUnstored(g) ==
  /\ envelope[g] = None /\ signer # None
  /\ Terms[g].cap > 0 /\ Terms[g].from < Terms[g].until
  /\ envelope' = [envelope EXCEPT ![g] = signer]
  /\ \/ stored' = stored \cup {g} \/ UNCHANGED stored
  /\ UNCHANGED <<quiet, now, keys, revoked, spends, check, started, allowed>>

\* Issued for positive caps and windows, with the signing key set; the
\* envelope leaves only once its row is stored.
Issue(g) ==
  /\ envelope[g] = None /\ signer # None
  /\ Terms[g].cap > 0 /\ Terms[g].from < Terms[g].until
  /\ envelope' = [envelope EXCEPT ![g] = signer]
  /\ stored' = stored \cup {g}
  /\ UNCHANGED <<quiet, now, keys, revoked, spends, check, started, allowed>>

\* The row refers to the stored grant.
Revoke(g) ==
  /\ g \in stored \ revoked
  /\ revoked' = revoked \cup {g}
  /\ UNCHANGED <<quiet, now, keys, envelope, stored, spends, check, started, allowed>>

\* A host spends what it was allowed and records it.
Spend(a) ==
  /\ a \in allowed
  /\ spends' = [spends EXCEPT ![a.grant] = @ + a.amount]
  /\ allowed' = allowed \ {a}
  /\ UNCHANGED <<quiet, now, keys, envelope, stored, revoked, check, started>>

-----------------------------------------------------------------------------
(* The check *)

Free == [at |-> "free"]

\* A mistake: the age of the caller's own check is all that is looked at.
ReasonTrusting(c, spent) ==
  LET t == Terms[c.grant]
  IN IF c.at < t.from THEN "not_yet_valid"
     ELSE IF c.at > t.until THEN "expired"
     ELSE IF c.at - c.checkedAt > MaxAge THEN "revocation_check_stale"
     ELSE IF c.action \notin t.scope THEN "scope_miss"
     ELSE IF spent + c.amount > t.cap THEN "cap_exceeded"
     ELSE "ok"

\* checkGrantPure, in its order: window, freshness, revocation, scope, cap.
Reason(c, spent) ==
  LET t == Terms[c.grant]
  IN IF c.at < t.from THEN "not_yet_valid"
     ELSE IF c.at > t.until THEN "expired"
     ELSE IF c.at - c.checkedAt > MaxAge THEN "revocation_check_stale"
     ELSE IF c.revoked THEN "revoked"
     ELSE IF c.action \notin t.scope THEN "scope_miss"
     ELSE IF spent + c.amount > t.cap THEN "cap_exceeded"
     ELSE "ok"

InFlight(g) == \E w \in Workers : check[w] # Free /\ check[w].grant = g
Owed(g) == \E a \in allowed : a.grant = g

\* now is read once, at the start; a signature that does not verify ends the
\* check.  before notes, for the properties, whether the grant was revoked.
CheckBegin(w, g, action, amount, checkedAt, demo) ==
  /\ check[w] = Free /\ started < MaxChecks
  /\ envelope[g] # None
  /\ g \in quiet => ~InFlight(g) /\ ~Owed(g)
  /\ started' = started + 1
  /\ check' = IF Verified(envelope[g], held)
              THEN [check EXCEPT ![w] =
                      [id |-> started + 1, at |-> now, grant |-> g, action |-> action,
                       amount |-> amount, checkedAt |-> IF checkedAt = None THEN now ELSE checkedAt,
                       demo |-> demo, revoked |-> None, before |-> g \in revoked]]
              ELSE check
  /\ UNCHANGED <<quiet, now, keys, grants, allowed>>

\* A read of the revocations that fails is a stale check.
ReadRevocations(w) ==
  /\ check[w] # Free /\ check[w].revoked = None
  /\ \/ check' = [check EXCEPT ![w].revoked = check[w].grant \in revoked]
     \/ check' = [check EXCEPT ![w] = Free]
  /\ UNCHANGED <<quiet, now, keys, grants, started, allowed>>

\* A read of the spends that fails exceeds the cap.
ReadSpends(w) ==
  LET c == check[w]
  IN /\ c # Free /\ c.revoked # None
     /\ check' = [check EXCEPT ![w] = Free]
     /\ \/ /\ Reason(c, spends[c.grant]) = "ok" /\ ~c.demo
           /\ allowed' = allowed \cup {[id |-> c.id, grant |-> c.grant, amount |-> c.amount,
                                        action |-> c.action, at |-> c.at, before |-> c.before]}
        \/ Reason(c, spends[c.grant]) # "ok" /\ UNCHANGED allowed
        \/ UNCHANGED allowed
     /\ UNCHANGED <<quiet, now, keys, grants, started>>

\* A sandbox check runs the same reads and allows nothing.
SandboxCheck(w, g) ==
  \E action \in Actions, amount \in Amounts : CheckBegin(w, g, action, amount, None, TRUE)

LiveCheck(w, g) ==
  \E action \in Actions, amount \in Amounts, checkedAt \in {None} \cup (0..now) :
    CheckBegin(w, g, action, amount, checkedAt, FALSE)

Tick ==
  /\ now < MaxTime /\ now' = now + 1
  /\ UNCHANGED <<quiet, keys, grants, check, started, allowed>>

\* A check with a malformed body, an issue with a bad window.
Refused == UNCHANGED vars

-----------------------------------------------------------------------------

Init ==
  /\ quiet \in SUBSET Grants
  /\ now = 0 /\ signer = FirstKey /\ previous = {} /\ revokedKids = {}
  /\ held = LabJwks
  /\ envelope = [g \in Grants |-> None] /\ stored = {} /\ revoked = {}
  /\ spends = [g \in Grants |-> 0]
  /\ check = [w \in Workers |-> Free] /\ started = 0 /\ allowed = {}

Next ==
  \/ \E k \in Keys : Rotate(k) \/ RevokeKid(k)
  \/ \E g \in Grants : Issue(g) \/ Revoke(g)
  \/ \E a \in allowed : Spend(a)
  \/ \E w \in Workers :
       \/ \E g \in Grants : LiveCheck(w, g) \/ SandboxCheck(w, g)
       \/ ReadRevocations(w) \/ ReadSpends(w)
  \/ Fetch \/ Unset \/ Tick \/ Refused

Spec == Init /\ [][Next]_vars

-----------------------------------------------------------------------------
(* Properties *)

TypeOK ==
  /\ signer \in Keys \cup {None} /\ previous \cup revokedKids \subseteq Keys
  /\ \A g \in Grants : envelope[g] # None <=> g \in stored
  /\ revoked \subseteq stored
  /\ \A w \in Workers : check[w] # Free => check[w].grant \in stored /\ check[w].at <= now

\* A verdict "allowed" is within the grant's scope and window, and never for
\* a grant that was revoked when the check began, however its reads and the
\* revocation interleave (check/route.ts: live read, fail closed).  The cap
\* bounds what is spent in all and what is allowed and not spent yet, one
\* verdict, as long as each spend is recorded before the next check of the
\* grant.  Against a JWKS fetched now an envelope verifies from its signing
\* until its kid is revoked, however often the key rotates and as long as the
\* lab signs at all, and never after (ROTATION.md).
GrantHolds ==
  /\ \A a \in allowed :
       LET t == Terms[a.grant]
       IN ~a.before /\ a.action \in t.scope /\ a.at \in t.from..t.until
  /\ \A g \in quiet \cap stored :
       /\ spends[g] <= Terms[g].cap
       /\ \A a \in allowed : a.grant = g => spends[g] + a.amount <= Terms[g].cap
       /\ \A a, b \in allowed : a.grant = g /\ b.grant = g => a = b
  /\ \A g \in stored :
       Verified(envelope[g], LabJwks) <=> envelope[g] \notin revokedKids /\ signer # None
=============================================================================
