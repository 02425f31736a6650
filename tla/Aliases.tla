------------------------------ MODULE Aliases ------------------------------
(***************************************************************************)
(* One agent under many ids: a remint retires an id for a new one, and     *)
(* every direct message follows the aliases of its two ends, one lookup    *)
(* after another, while others remint.  What is stored and read is named   *)
(* by the ids the walks arrive at.                                         *)
(***************************************************************************)
EXTENDS Integers, Sequences

CONSTANTS
  Ids,
  MaxHops,     \* MAX_HOPS
  Registered,  \* ids with a row in participants
  Workers,     \* concurrent invocations
  MaxRemints, MaxCalls,  \* bounds
  None

VARIABLES
  alias,      \* agent_aliases: the id that succeeds an id
  remints, calls,
  call,       \* what each invocation does
  messages    \* direct_messages: [given, stored, read, fresh], ends by name

aliases == <<alias, remints, calls, call, messages>>

Ends == {"self", "peer"}

-----------------------------------------------------------------------------
(* Walks along the aliases *)

Walk(id) == [start |-> id, at |-> id, seen |-> {id}, hops |-> 0]

Advance(w, next) == [w EXCEPT !.at = next, !.seen = @ \cup {next}, !.hops = @ + 1]

\* Mutant: a message goes to its recipient as named.
RoundsOfSender(do) ==
  CASE do = "send" -> <<{"self"}, {}>>
    [] do = "list" -> <<Ends, {}>>
    [] do = "read" -> <<Ends, {}, Ends, {}>>

\* What an invocation resolves, round by round: channels.ts both ends, anew
\* for each statement, {} in the rounds.  Only the route marks what it lists.
Rounds(do) ==
  CASE do = "send" -> <<{"self"}, {"peer"}, {}>>
    [] do = "list" -> <<Ends, {}>>
    [] do = "read" -> <<Ends, {}, Ends, {}>>

Busy(i) == call[i] # None
Resolving(i) == Busy(i) /\ Head(call[i].rounds) # {}
At(i, do) == Busy(i) /\ Head(call[i].rounds) = {} /\ call[i].do \in do
To(i, e) == call[i].walk[e].at

Restart(c, rounds) == [c EXCEPT !.rounds = rounds, !.walk = [e \in Ends |-> Walk(c.named[e])]]

\* A route resolves its caller first, and goes on with that id.
Begin(i, do, route, self, peer) ==
  /\ do = "read" => route
  /\ do = "list" => ~route
  /\ ~Busy(i) /\ calls < MaxCalls /\ calls' = calls + 1
  /\ LET named == [self |-> self, peer |-> peer]
         c == [do |-> do, route |-> route, given |-> named, named |-> named, fresh |-> TRUE,
               walk |-> [e \in Ends |-> Walk(named[e])],
               rounds |-> IF route THEN <<{"self"}>> ELSE Rounds(do)]
     IN call' = [call EXCEPT ![i] = c]
  /\ UNCHANGED <<alias, remints, messages>>

\* The walk of this end is over.
Rest(c, e, id) ==
  LET left == Head(c.rounds) \ {e}
      rounds == (IF left = {} THEN <<>> ELSE <<left>>) \o Tail(c.rounds)
  IN IF c.route
     THEN Restart([c EXCEPT !.route = FALSE, !.named = [c.named EXCEPT !.self = id]], Rounds(c.do))
     ELSE [c EXCEPT !.walk = [c.walk EXCEPT ![e] = Walk(id)], !.rounds = rounds]

\* followAliasChain stops where no alias leads on to an id not seen yet, and
\* at MAX_HOPS.
DbLookup(i, e) ==
  /\ Resolving(i) /\ e \in Head(call[i].rounds)
  /\ LET c == call[i]  w == c.walk[e]  next == alias[w.at]
     IN call' = [call EXCEPT ![i] =
          IF next \in {None} \cup w.seen THEN Rest(c, e, w.at)
          ELSE IF w.hops + 1 = MaxHops THEN Rest(c, e, next)
          ELSE [c EXCEPT !.walk[e] = Advance(w, next)]]
  /\ UNCHANGED <<alias, remints, calls, messages>>

\* A lookup that answers an error finds nothing; one that throws leaves the
\* id as it was given to this walk.
LookupFails(i, e) ==
  /\ Resolving(i) /\ e \in Head(call[i].rounds)
  /\ \E id \in {call[i].walk[e].at, call[i].walk[e].start} :
       call' = [call EXCEPT ![i] = Rest([call[i] EXCEPT !.fresh = FALSE], e, id)]
  /\ UNCHANGED <<alias, remints, calls, messages>>

-----------------------------------------------------------------------------
(* Messages *)

Leave(i) == call' = [call EXCEPT ![i] = None]

\* Nobody writes to itself, nor to an id without a row.
SendDirectMessage(i) ==
  /\ At(i, {"send"})
  /\ IF To(i, "self") # To(i, "peer") /\ To(i, "peer") \in Registered THEN
       messages' = messages \cup
         {[given |-> call[i].given, stored |-> [self |-> To(i, "self"), peer |-> To(i, "peer")],
           read |-> FALSE, fresh |-> call[i].fresh]}
     ELSE UNCHANGED messages
  /\ Leave(i)
  /\ UNCHANGED <<alias, remints, calls>>

Between(m, a, b) == {m.stored.self, m.stored.peer} = {a, b}

\* What the query of listThread selects.
Thread(i) == {m \in messages : Between(m, To(i, "self"), To(i, "peer"))}

ListThread(i) ==
  /\ At(i, {"list", "read"}) /\ Len(call[i].rounds) \in {1, 3}
  /\ IF Len(call[i].rounds) = 1 THEN call[i].do = "list" /\ Leave(i)
     ELSE call' = [call EXCEPT ![i] = Restart(@, Tail(@.rounds))]
  /\ UNCHANGED <<alias, remints, calls, messages>>

MarkThreadRead(i) ==
  /\ At(i, {"read"}) /\ Len(call[i].rounds) = 1
  /\ messages' = {IF m.stored = [self |-> To(i, "peer"), peer |-> To(i, "self")]
                  THEN [m EXCEPT !.read = TRUE] ELSE m : m \in messages}
  /\ Leave(i)
  /\ UNCHANGED <<alias, remints, calls>>

-----------------------------------------------------------------------------

\* As far as a walk may go: where it arrives if that is the end.
Follow(table, id) ==
  LET f[n \in 0..MaxHops] ==
        IF n = 0 THEN id
        ELSE IF table[f[n - 1]] = None THEN f[n - 1] ELSE table[f[n - 1]]
  IN f[MaxHops]

\* recordRemint: nothing under src calls it yet, so an operator does.  Ends
\* it leads elsewhere make what was stored or begun by them stale, and so
\* does an id that a walk has passed.
RecordRemint(old, new) ==
  LET table == [alias EXCEPT ![old] = new]
      Same(given) == \A e \in Ends : Follow(table, given[e]) = Follow(alias, given[e])
      Passed(walk) == \E e \in Ends : old \in walk[e].seen \ {walk[e].at}
  IN /\ old # new /\ remints < MaxRemints
     /\ alias' = table /\ remints' = remints + 1
     /\ messages' = {[m EXCEPT !.fresh = @ /\ Same(m.given)] : m \in messages}
     /\ call' = [i \in Workers |->
          IF Busy(i)
          THEN [call[i] EXCEPT !.fresh = @ /\ Same(call[i].given) /\ ~Passed(call[i].walk)]
          ELSE None]
     /\ UNCHANGED calls

\* A refused call, and the badge reads of the routes.
Browse == UNCHANGED aliases

Init ==
  /\ alias = [id \in Ids |-> None]
  /\ remints = 0 /\ calls = 0
  /\ call = [i \in Workers |-> None]
  /\ messages = {}

Next ==
  \/ \E i \in Workers :
       \/ \E do \in {"send", "list", "read"}, route \in BOOLEAN, self, peer \in Ids :
            Begin(i, do, route, self, peer)
       \/ \E e \in Ends : DbLookup(i, e) \/ LookupFails(i, e)
       \/ SendDirectMessage(i) \/ ListThread(i) \/ MarkThreadRead(i)
  \/ \E old, new \in Ids : RecordRemint(old, new)
  \/ Browse

Spec == Init /\ [][Next]_aliases

-----------------------------------------------------------------------------

TypeOK ==
  /\ alias \in [Ids -> Ids \cup {None}]
  /\ \A i \in Workers : Busy(i) =>
       \A e \in Ends : LET w == call[i].walk[e] IN w.at \in w.seen /\ w.hops < MaxHops
  /\ \A m \in messages : m.stored.self # m.stored.peer /\ m.stored.peer \in Registered

\* The chain from this id ends within MAX_HOPS.
Settled(given) == \A e \in Ends : alias[Follow(alias, given[e])] = None

Persons(given) == {Follow(alias, given[e]) : e \in Ends}

\* Whatever ids they use and however walks and remints interleave, two agents
\* whose own ids were not reminted since, nor any id their call's walks had
\* passed, read every message they wrote each other, and none of others;
\* nobody writes to itself by an old id (identity.ts followAliasChain,
\* channels.ts listThread).
HistoryKept ==
  /\ \A m \in messages : m.fresh /\ Settled(m.given) =>
       \A e \in Ends : m.stored[e] = Follow(alias, m.given[e])
  /\ \A i \in Workers :
       At(i, {"list", "read"}) /\ call[i].fresh /\ Settled(call[i].given) =>
         \A m \in messages : m.fresh /\ Settled(m.given) =>
           (m \in Thread(i) <=> Persons(m.given) = Persons(call[i].given))
=============================================================================
