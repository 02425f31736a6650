------------------------------ MODULE Fulfilment ------------------------------
(***************************************************************************)
(* What a Stripe subscription buys: a merchant key, kept in the            *)
(* subscription's metadata and handed out by /api/provision, and the       *)
(* promotion of a capability, kept in its placement.  The success page and *)
(* the webhook race for the key; the webhook and the agent that lists the  *)
(* capability race for the placement.                                      *)
(*                                                                         *)
(* Stripe delivers an event after it happens, in any order, and again      *)
(* until a delivery succeeds.  Stripe and the database may fail a call and *)
(* an invocation may die at any await.  Left out: promoted_until, which no *)
(* lookup reads, and the process-memory copy of capabilities.              *)
(***************************************************************************)
EXTENDS Integers, FiniteSets

CONSTANTS
  Subscriptions,  \* paid checkouts, each with its subscription
  Promotes,       \* the capability each promotes, None for a merchant gate
  Capabilities,   \* rows of capabilities
  Workers,        \* concurrent handler invocations
  MaxWork,        \* bound: calls that start
  None

VARIABLES
  apart,      \* subscriptions, capabilities that no two calls are about at once;
              \* of these capabilities, no write fails and no event is out of order
  open,       \* subscriptions paid for so far
  key,        \* metadata.merchant_key of each subscription
  minted,     \* merchant keys generated so far
  handed,     \* history: keys handed to the customer, with their subscription
  cancelled,  \* subscriptions Stripe has deleted
  events,    \* processed_webhook_events
  promoted,   \* placement.promoted of each capability
  work,       \* what each invocation does next
  started     \* calls so far

vars == <<apart, open, key, minted, handed, cancelled, events, promoted, work, started>>

Event(kind, s) == [kind |-> kind, sub |-> s]
Claimed(kind, s) == Event(kind, s) \in events

-----------------------------------------------------------------------------
(* Calls *)

\* at is the await an invocation stands at; seen, the key or placement read.
Job(at, s, c, seen) == [at |-> at, sub |-> s, cap |-> c, seen |-> seen]
Rest == Job("idle", None, None, None)
About(w) == {work[w].sub, work[w].cap} \ {None}

Start(w, job) ==
  /\ work[w] = Rest /\ started < MaxWork
  /\ \A v \in Workers : About(v) \cap {job.sub, job.cap} \cap apart = {}
  /\ work' = [work EXCEPT ![w] = job]
  /\ started' = started + 1

Go(w, job) == work' = [work EXCEPT ![w] = job] /\ UNCHANGED <<apart, open, started>>
Stop(w) == Go(w, Rest)

\* A merchant gate is paid for at the checkout session /api/checkout opens,
Checkout(s) ==
  /\ s \notin open /\ Promotes[s] = None
  /\ open' = open \cup {s}
  /\ UNCHANGED <<apart, key, minted, handed, cancelled, events, promoted, work, started>>

\* and a promotion at the one /api/toll/v2/promote opens.
PromoteCheckout(s) ==
  /\ s \notin open /\ Promotes[s] # None
  /\ open' = open \cup {s}
  /\ UNCHANGED <<apart, key, minted, handed, cancelled, events, promoted, work, started>>

\* GET /api/provision: a key already in the metadata is handed out as it is.
Provision(w, s) ==
  /\ s \in open
  /\ handed' = IF key[s] # None THEN handed \cup {<<s, key[s]>>} ELSE handed
  /\ Start(w, IF key[s] # None THEN Rest ELSE Job("provision", s, None, None))
  /\ UNCHANGED <<apart, open, key, minted, cancelled, events, promoted>>

\* A session not paid, a limit reached, an event of another kind.
Refused(w) == work[w] = Rest /\ UNCHANGED vars

\* Mutant: the key is not a new one.
WriteKeyAgain(s) == key' = [key EXCEPT ![s] = minted] /\ UNCHANGED minted

\* A new key overwrites whatever the metadata holds by now.
WriteKey(s) == key' = [key EXCEPT ![s] = minted] /\ minted' = minted + 1

\* Mutant: a key is handed out that the metadata does not get.
ProvisionForgets(w) ==
  /\ work[w].at = "provision"
  /\ minted' = minted + 1
  /\ handed' = handed \cup {<<work[w].sub, minted>>}
  /\ Stop(w)
  /\ UNCHANGED <<key, cancelled, events, promoted>>

ProvisionWrite(w) ==
  LET s == work[w].sub
  IN /\ work[w].at = "provision"
     /\ WriteKey(s)
     /\ handed' = handed \cup {<<s, minted>>}
     /\ Stop(w)
     /\ UNCHANGED <<cancelled, events, promoted>>

\* checkout.session.completed: the subscription as retrieved decides whether
\* a key is missing and what is promoted.
Completed(w, s) ==
  /\ s \in open
  /\ Start(w, Job(IF key[s] = None THEN "key" ELSE "begin", s, Promotes[s], None))
  /\ UNCHANGED <<apart, open, key, minted, handed, cancelled, events, promoted>>

CompletedKey(w) ==
  /\ work[w].at = "key"
  /\ WriteKey(work[w].sub)
  /\ Go(w, [work[w] EXCEPT !.at = "begin"])
  /\ UNCHANGED <<handed, cancelled, events, promoted>>

\* customer.subscription.deleted.
Deleted(w, s) ==
  /\ s \in cancelled
  /\ Promotes[s] \in apart => Claimed("begin", s)
  /\ Start(w, Job("end", s, Promotes[s], None))
  /\ UNCHANGED <<apart, open, key, minted, handed, cancelled, events, promoted>>

\* Only a promotion is claimed, once, and then written to the capability.
Claim(w, kind) ==
  LET s == work[w].sub
      fresh == work[w].cap # None /\ ~Claimed(kind, s)
  IN /\ work[w].at = kind
     /\ events' = IF fresh THEN events \cup {Event(kind, s)} ELSE events
     /\ IF fresh THEN Go(w, Job("place", s, work[w].cap, kind = "begin"))
                 ELSE Stop(w)
     /\ UNCHANGED <<key, minted, handed, cancelled, promoted>>

\* setCapabilityPromotion.
Place(w) ==
  /\ work[w].at = "place"
  /\ promoted' = [promoted EXCEPT ![work[w].cap] = work[w].seen]
  /\ Stop(w)
  /\ UNCHANGED <<key, minted, handed, cancelled, events>>

\* The agent lists its capability again: the placement read, none where the
\* read failed, goes back with the row.
PlacementRead(c) == {promoted[c]} \cup (IF c \in apart THEN {} ELSE {FALSE})

Upsert(w, c) ==
  /\ \E read \in PlacementRead(c) :
       Start(w, Job("place", None, c, read))
  /\ UNCHANGED <<apart, open, key, minted, handed, cancelled, events, promoted>>

\* An await fails or the invocation dies at it; a promotion's write that
\* fails is reported to nobody.
Break(w) ==
  /\ work[w] # Rest
  /\ work[w].at = "place" => work[w].cap \notin apart
  /\ Stop(w)
  /\ UNCHANGED <<key, minted, handed, cancelled, events, promoted>>

\* Stripe deletes a subscription at the end of its life.
Cancel(s) ==
  /\ s \in open \ cancelled
  /\ cancelled' = cancelled \cup {s}
  /\ UNCHANGED <<apart, open, key, minted, handed, events, promoted, work, started>>

-----------------------------------------------------------------------------

Init ==
  /\ apart \in SUBSET (Subscriptions \cup Capabilities)
  /\ open = {} /\ key = [s \in Subscriptions |-> None] /\ minted = 1 /\ handed = {}
  /\ cancelled = {} /\ events = {}
  /\ promoted = [c \in Capabilities |-> FALSE]
  /\ work = [w \in Workers |-> Rest] /\ started = 0

Next ==
  \/ \E w \in Workers :
       \/ \E s \in Subscriptions : Provision(w, s) \/ Completed(w, s) \/ Deleted(w, s)
       \/ \E c \in Capabilities : Upsert(w, c)
       \/ Refused(w)
       \/ ProvisionWrite(w) \/ CompletedKey(w) \/ Place(w) \/ Break(w)
       \/ \E kind \in {"begin", "end"} : Claim(w, kind)
  \/ \E s \in Subscriptions : Checkout(s) \/ PromoteCheckout(s) \/ Cancel(s)

Spec == Init /\ [][Next]_vars

-----------------------------------------------------------------------------
(* Properties *)

\* Keys and jobs are what the handlers make of them.
TypeOK ==
  /\ \A s \in Subscriptions : key[s] \in (1..minted - 1) \cup {None}
  /\ handed \subseteq Subscriptions \X (1..minted - 1)
  /\ \A e \in events : Promotes[e.sub] \in Capabilities
  /\ \A w \in Workers : work[w] # Rest => About(w) # {}

\* A key handed to a customer verifies (provision/route.ts: no second,
\* disconnected key): it is the one the subscription holds, as long as two
\* calls do not provision one subscription at once.  Nobody's key ever
\* belongs to two subscriptions.
KeyStands ==
  /\ \A h \in handed : h[1] \in apart => key[h[1]] = h[2]
  /\ \A g, h \in handed : g[2] = h[2] => g[1] = h[1]
  /\ \A h \in handed, s \in Subscriptions : key[s] = h[2] => s = h[1]

\* A capability stands promoted only for a checkout (webhook/stripe/route.ts,
\* capabilities.ts setCapabilityPromotion), and one nothing interferes with
\* stands promoted exactly between the claims of its two events.  Of two
\* subscriptions for it, the end of either would clear what both pay for.
PlacementIsPaid ==
  \A c \in Capabilities :
    LET subs == {s \in Subscriptions : Promotes[s] = c}
    IN /\ promoted[c] => \E s \in subs : Claimed("begin", s)
       /\ c \in apart /\ (\A s, t \in subs : s = t)
            /\ (\A w \in Workers : work[w].at = "place" => work[w].cap # c) =>
            promoted[c] = \E s \in subs : Claimed("begin", s) /\ ~Claimed("end", s)
=============================================================================
