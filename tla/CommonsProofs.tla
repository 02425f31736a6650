---------------------------- MODULE CommonsProofs ----------------------------
(***************************************************************************)
(* What is kept beside the rows of the commons of Economy agrees with      *)
(* them, for every value of the constants: it lags behind by the calls     *)
(* that wrote a row and not yet the rest.  And the types of all three      *)
(* parts.                                                                  *)
(***************************************************************************)
EXTENDS EconomyProofs

-----------------------------------------------------------------------------
(* What is kept beside the rows of the commons *)

\* Where calls are kept apart an agent has one in flight, or all agents have.
CallsApart ==
  /\ overlap # "any" => \A v, w \in Workers :
       job[v] # None /\ job[w] # None /\ job[v].who = job[w].who => v = w
  /\ overlap = "none" => \A v, w \in Workers : job[v] # None /\ job[w] # None => v = w

\* The calls about to count, and those that still have a notice for an agent.
Counting(do) == {w \in Workers : A!At(w, do, "count")}
Telling(a) ==
  {w \in Workers : job[w] # None /\ job[w].at = "notify" /\ a \in job[w].tell \cup job[w].seats}

\* A counter lags behind its rows by the calls about to count.
FeedKept ==
  IF corner # "feed" THEN likes = {} /\ likesCount = 0 /\ comments = 0 /\ commentsCount = 0
  ELSE
    /\ likesCount + Cardinality(Counting("like")) <= begun
    /\ commentsCount + Cardinality(Counting("comment")) <= comments
    /\ ~trouble =>
         /\ commentsCount + Cardinality(Counting("comment")) = comments
         /\ likesCount + Cardinality(Counting("like"))
              >= Cardinality(likes) + Cardinality(Counting("unlike"))
         /\ overlap # "any" =>
              /\ likesCount + Cardinality(Counting("like"))
                   = Cardinality(likes) + Cardinality(Counting("unlike"))
              /\ \A w \in Counting("like") : job[w].who \in likes

\* A notice owed is one that was told or one a call still has to tell.
ChannelsKept ==
  corner = "channels" => \A a \in Agents :
    /\ A!SumFunction(told[a]) + Cardinality(Telling(a)) <= owed[a]
    /\ ~trouble => A!SumFunction(told[a]) + Cardinality(Telling(a)) = owed[a]

\* What a reader has yet to mark it was shown; a badge, or one about to be
\* given, stands for an unread message, until the reader retires its badges.
Unseen(a, b) ==
  {i \in 1..Len(messages) : messages[i].to = a /\ messages[i].from = b /\ ~messages[i].read}
Badge(a, b) == IF \E w \in Telling(a) : job[w].who = b THEN 1 ELSE 0
Retires(a) == \E w \in Workers : A!At(w, "read", "badges") /\ job[w].who = a

ThreadsKept ==
  IF corner # "threads" THEN messages = <<>>
  ELSE overlap = "none" =>
    /\ Len(messages) <= ThreadLimit =>
         /\ \A i \in 1..Len(messages) : messages[i].read => <<messages[i].to, i>> \in shown
         /\ \A w \in Workers : A!At(w, "read", "mark") => \A i \in 1..Len(messages) :
              messages[i].to = job[w].who => <<messages[i].to, i>> \in shown
    /\ ~trouble => \A a, b \in Agents :
         Retires(a) \/ unread[a][b] + Badge(a, b) <= Cardinality(Unseen(a, b))

\* A stake is debited before it is written.  One call at a time, the stakes a
\* call weighs are the claim's, and its sum is of those it has weighed.
Weighed(todos) ==
  [p \in A!Positions |->
    A!SumFunction([a \in Agents |-> IF a \in todos THEN 0 ELSE A!Weight(stakes, scores, a)[p]])]

ClaimsKept ==
  IF corner # "claims"
  THEN stakes = [a \in Agents |-> None] /\ confidence = None /\ resolved = 0
  ELSE
    /\ \A a \in A!Stakers : stakes[a].door = "rest" => debited[a] >= stakes[a].amount
    /\ \A w \in Workers : A!At(w, "stake", "write") =>
         job[w].read \in A!Stakes
         /\ (job[w].read.door = "rest" => debited[job[w].who] >= job[w].read.amount)
    /\ \A w \in Workers : A!At(w, "stake", "weigh") => job[w].read \in A!Weighing \cup {None}
    /\ overlap = "none" =>
         /\ resolved <= 1
         /\ \A w \in Workers : A!At(w, "resolve", "apply") => resolved = 0
         /\ ~trouble /\ resolved = 0 =>
              /\ (\A w \in Workers : ~A!At(w, "stake", "weigh")) =>
                   confidence = A!Confidence(Weighed({}))
              /\ \A w \in Workers : A!At(w, "stake", "weigh") /\ job[w].read # None =>
                   /\ job[w].read.held = stakes /\ job[w].read.todo \subseteq A!Stakers
                   /\ job[w].read.sum = Weighed(job[w].read.todo)

\* What an installation has read of its agent's row, and of the tool, is still
\* so where calls do not overlap; what it has yet to add is known then.
Owners == {a \in Agents : installed[a] # None}
Begins == {w \in Workers : job[w] # None /\ job[w].do = "install"
                           /\ job[w].at \in {"begun", "upsert", "count"}}
Ratio(a) == IF a \in A!Rated THEN installed[a] ELSE 0
Rates(c) == c.read.rating \notin {A!Unrated, c.read.had}
Old(c) == IF c.read.had \in Ratings THEN c.read.had ELSE 0
WillRate(w) == /\ job[w] # None /\ job[w].at \in {"count", "notify", "rate"}
             /\ Rates(job[w])

Installs(w) ==
  job[w] # None =>
    /\ job[w].do = "install" /\ job[w].read.tool.count < begun
    /\ job[w].at \in {"begun", "upsert", "count", "notify", "rate"}
    /\ job[w].at = "begun" => job[w].read \in A!Asking
    /\ job[w].at # "begun" => job[w].read \in A!Installing
    /\ job[w].read.rating \in Ratings \cup {A!Unrated}
    /\ job[w].at = "upsert" /\ job[w].read.had # None => job[w].who \in Owners
    /\ overlap # "any" /\ job[w].at = "upsert" => job[w].read.had = installed[job[w].who]

InstallsKept ==
  /\ tool.installs + Cardinality(Counting("install")) >= Cardinality(Owners)
  /\ overlap # "any" => tool.installs + Cardinality(Counting("install")) = Cardinality(Owners)

RatingsKept ==
  /\ \A w \in Workers : job[w] # None =>
       job[w].read.tool.sum = tool.sum /\ job[w].read.tool.count = tool.count
  /\ (\A w \in Workers : ~WillRate(w)) =>
       /\ tool.count = Cardinality(A!Rated)
       /\ tool.sum = A!SumFunction([a \in Agents |-> Ratio(a)])
  /\ \A w \in Workers : WillRate(w) =>
       /\ tool.count + (IF job[w].read.had \in Ratings THEN 0 ELSE 1) = Cardinality(A!Rated)
       /\ tool.sum + (job[w].read.rating - Old(job[w]))
            = A!SumFunction([a \in Agents |-> Ratio(a)])

MarketKept ==
  IF corner # "market" THEN tool = [installs |-> 0, sum |-> 0, count |-> 0] /\ Owners = {}
  ELSE
    /\ tool.installs + Cardinality(Begins) <= begun /\ tool.count <= begun
    /\ \A w \in Workers : Installs(w)
    /\ ~trouble => InstallsKept
    /\ ~trouble /\ overlap = "none" => RatingsKept

\* An answer is followed by the status.
QueriesKept ==
  IF corner # "queries" THEN answers = 0 /\ answered = FALSE
  ELSE
    /\ \A w \in Workers : A!At(w, "answer", "status") => answers > 0
    /\ answered => answers > 0
    /\ ~trouble /\ answers > 0 =>
         answered \/ \E w \in Workers : A!At(w, "answer", "status")

\* Types, without the bounds that follow from what is kept.
JobsTyped ==
  /\ job \in [Workers -> A!Calls \cup {None}] /\ begun \in Nat
  /\ \A w \in Workers : job[w] # None => begun > 0
  /\ overlap \in {"any", "others", "none"}
RowsOfPosts ==
  /\ likes \in SUBSET Agents /\ likesCount \in Nat /\ follows \in SUBSET Agents
  /\ comments \in Nat /\ commentsCount \in Nat
RowsOfTalk ==
  /\ owed \in [Agents -> Nat] /\ told \in [Agents -> [Agents -> Nat]]
  /\ unread \in [Agents -> [Agents -> Nat]]
  /\ \A a, b \in Agents : unread[a][b] <= told[a][b]
  /\ messages \in Seq([from : Agents, to : Agents, read : BOOLEAN])
RowsOfClaims ==
  /\ stakes \in [Agents -> A!Stakes \cup {None}] /\ scores \in [Agents -> Int]
  /\ debited \in [Agents -> Nat] /\ resolved \in Nat
RowsOfMarket == tool \in A!Tools /\ installed \in [Agents -> Nat \cup {None}]
RowsOfQueries == answers \in Nat /\ answered \in BOOLEAN
CommonsTyped ==
  JobsTyped /\ RowsOfPosts /\ RowsOfTalk /\ RowsOfClaims /\ RowsOfMarket /\ RowsOfQueries

CommonsInv ==
  /\ CommonsTyped /\ CallsApart
  /\ FeedKept /\ ChannelsKept /\ ThreadsKept /\ ClaimsKept /\ MarketKept /\ QueriesKept

LEMMA CommonsSum ==
  ASSUME NEW S, IsFiniteSet(S), NEW f \in [S -> Int]
  PROVE  A!SumFunction(f) \in Int /\ A!SumFunction(f) = L!SumFunction(f)
<1>1. A!SumFunction(f) = L!SumFunction(f)
  BY DEF L!SumFunction, L!SumFunctionOnSet, L!FoldFunctionOnSet, L!MapThenFoldSet,
         A!SumFunction, A!SumFunctionOnSet, A!FoldFunctionOnSet, A!MapThenFoldSet
<1>. QED
  BY <1>1, SumInt

LEMMA CommonsSumEdit ==
  ASSUME NEW S, IsFiniteSet(S), NEW f \in [S -> Int], NEW h \in [S -> Int], NEW e \in S,
         \A x \in S \ {e} : h[x] = f[x]
  PROVE  A!SumFunction(h) = A!SumFunction(f) + (h[e] - f[e])
<1>1. L!SumFunction(h) = L!SumFunction(f) + (h[e] - f[e])
  BY SumEdit
<1>2. A!SumFunction(h) = L!SumFunction(h) /\ A!SumFunction(f) = L!SumFunction(f)
  BY CommonsSum
<1>. QED
  BY <1>1, <1>2

LEMMA CommonsSumZero ==
  ASSUME NEW S, IsFiniteSet(S), NEW f \in [S -> Int], \A x \in S : f[x] = 0
  PROVE  A!SumFunction(f) = 0
<1>1. L!SumFunction(f) = 0
  BY SumZero
<1>. QED
  BY <1>1, CommonsSum

LEMMA CountMoves ==
  ASSUME NEW W, IsFiniteSet(W), NEW S \in SUBSET W, NEW T \in SUBSET W, NEW w \in W,
         \A v \in W \ {w} : v \in S <=> v \in T
  PROVE  /\ Cardinality(S) \in Nat /\ Cardinality(T) \in Nat
         /\ (w \in S <=> w \in T) => Cardinality(T) = Cardinality(S)
         /\ w \in S /\ w \notin T => Cardinality(S) = Cardinality(T) + 1
         /\ w \notin S /\ w \in T => Cardinality(T) = Cardinality(S) + 1
<1>1. IsFiniteSet(S) /\ IsFiniteSet(T) /\ Cardinality(S) \in Nat /\ Cardinality(T) \in Nat
  BY FS_Subset, FS_CardinalityType
<1>2. CASE w \in S <=> w \in T
  <2>1. S = T
    BY <1>2
  <2>. QED
    BY <1>1, <2>1
<1>3. CASE w \in S /\ w \notin T
  <2>1. T = S \ {w}
    BY <1>3
  <2>. QED
    BY <1>1, <1>3, <2>1, FS_RemoveElement
<1>4. CASE w \notin S /\ w \in T
  <2>1. T = S \cup {w}
    BY <1>4
  <2>. QED
    BY <1>1, <1>4, <2>1, FS_AddElement
<1>. QED
  BY <1>2, <1>3, <1>4

LEMMA CommonsCount ==
  ASSUME NEW S PROVE A!Cardinality(S) = Cardinality(S)
BY DEF A!Cardinality, Cardinality

LEMMA Clamped ==
  ASSUME NEW x \in Int
  PROVE  /\ A!Capped(x) \in Int /\ A!Floored(x) \in Nat
         /\ A!Floored(x) >= x /\ (x >= 0 => A!Floored(x) = x)
<1>1. A!Floored(x) = IF x >= 0 THEN x ELSE 0
  <2>. DEFINE S == {0, x}  m == IF x >= 0 THEN x ELSE 0
  <2>1. m \in S /\ \A y \in S : m >= y
    OBVIOUS
  <2>2. \A k \in S : (\A y \in S : k >= y) => k = m
    OBVIOUS
  <2>3. A!Floored(x) \in S /\ \A y \in S : A!Floored(x) >= y
    BY <2>1 DEF A!Floored, A!Max
  <2>. QED
    BY <2>2, <2>3
<1>2. A!Capped(x) \in Int
  <2>. DEFINE S == {100, x}  m == IF x <= 100 THEN x ELSE 100
  <2>1. m \in S /\ \A y \in S : m <= y
    OBVIOUS
  <2>2. A!Capped(x) \in S
    BY <2>1 DEF A!Capped, A!Min
  <2>. QED
    BY <2>2
<1>. QED
  BY <1>1, <1>2

\* The fields of a call.
LEMMA CallFacts ==
  ASSUME JobsTyped, NEW w \in Workers, job[w] # None
  PROVE  /\ job[w] \in A!Calls /\ job[w].who \in Agents /\ begun > 0
         /\ job[w].tell \in SUBSET Agents /\ job[w].seats \in SUBSET Agents
BY DEF JobsTyped, A!Calls

LEMMA NoCallIsNone ==
  /\ \A c \in A!Calls : c # None
  /\ \A s \in A!Stakes : s # None
  /\ None \notin Nat
BY NoneIsNoCall, CommonsConstants

\* After the notices a call notifies on, or rates, or ends.
LEMMA AfterFacts ==
  ASSUME NEW c \in A!Calls, NEW d, d = A!AfterNotices(c)
  PROVE  \/ d = None /\ c.tell \cup c.seats = {} /\ c.do # "install"
         \/ /\ d \in A!Calls /\ d.do = c.do /\ d.who = c.who /\ d.read = c.read
            /\ d.tell = c.tell /\ d.seats = c.seats
            /\ \/ d.at = "notify" /\ c.tell \cup c.seats # {}
               \/ d.at = "rate" /\ c.tell \cup c.seats = {} /\ c.do = "install"
<1>1. CASE c.tell \cup c.seats # {}
  <2>1. d = [c EXCEPT !.at = "notify"]
    BY <1>1 DEF A!AfterNotices
  <2>. QED
    BY <1>1, <2>1 DEF A!Calls
<1>2. CASE c.tell \cup c.seats = {} /\ c.do = "install"
  <2>1. d = [c EXCEPT !.at = "rate"]
    BY <1>2 DEF A!AfterNotices
  <2>. QED
    BY <1>2, <2>1 DEF A!Calls
<1>3. CASE c.tell \cup c.seats = {} /\ c.do # "install"
  BY <1>3 DEF A!AfterNotices
<1>. QED
  BY <1>1, <1>2, <1>3

LEMMA JobMoves ==
  ASSUME JobsTyped, NEW w \in Workers, NEW c, job' = [job EXCEPT ![w] = c]
  PROVE  job'[w] = c /\ \A v \in Workers \ {w} : job'[v] = job[v]
BY DEF JobsTyped

\* A new call is alone, or the only one of its agent, where calls are apart.
LEMMA NewCall ==
  ASSUME JobsTyped, CallsApart, NEW w \in Workers, NEW a, NEW c \in A!Calls, c.who = a,
         A!MayBegin(w, a), A!Begin(w, c), overlap' = overlap
  PROVE  /\ JobsTyped' /\ CallsApart'
         /\ job[w] = None /\ job'[w] = c /\ c # None /\ begun' = begun + 1
         /\ \A v \in Workers \ {w} : job'[v] = job[v]
         /\ overlap # "any" => \A v \in Workers : job[v] # None => job[v].who # a
         /\ overlap = "none" => \A v \in Workers : job[v] = None
<1>1. /\ job[w] = None /\ job'[w] = c /\ begun' = begun + 1 /\ c # None
      /\ \A v \in Workers \ {w} : job'[v] = job[v]
  BY JobMoves, NoCallIsNone DEF A!MayBegin, A!Begin
<1>2. /\ overlap # "any" => \A v \in Workers : job[v] # None => job[v].who # a
      /\ overlap = "none" => \A v \in Workers : job[v] = None
  BY DEF A!MayBegin, JobsTyped
<1>3. JobsTyped'
  BY <1>1 DEF JobsTyped, A!Begin
<1>4. CallsApart'
  <2>1. CASE overlap = "none"
    BY <1>1, <1>2, <2>1 DEF CallsApart
  <2>2. CASE overlap # "none"
    BY <1>1, <1>2, <2>2 DEF CallsApart
  <2>. QED
    BY <2>1, <2>2
<1>. QED
  BY <1>1, <1>2, <1>3, <1>4

\* A call goes on, or ends.
LEMMA NextStatement ==
  ASSUME JobsTyped, CallsApart, NEW w \in Workers, job[w] # None, NEW d \in A!Calls \cup {None},
         d # None => d.who = job[w].who, job' = [job EXCEPT ![w] = d],
         begun' = begun, overlap' = overlap
  PROVE  /\ JobsTyped' /\ CallsApart'
         /\ job'[w] = d /\ \A v \in Workers \ {w} : job'[v] = job[v]
         /\ overlap = "none" => \A v \in Workers \ {w} : job[v] = None
<1>1. job'[w] = d /\ \A v \in Workers \ {w} : job'[v] = job[v]
  BY JobMoves
<1>2. JobsTyped'
  BY <1>1 DEF JobsTyped
<1>3. CallsApart'
  BY <1>1 DEF CallsApart
<1>4. overlap = "none" => \A v \in Workers \ {w} : job[v] = None
  BY DEF CallsApart
<1>. QED
  BY <1>1, <1>2, <1>3, <1>4

\* A call whose row is there already, or that only reads, is counted.
LEMMA Repeated ==
  ASSUME JobsTyped, CallsApart, NEW w, A!Repeat(w), overlap' = overlap
  PROVE  JobsTyped' /\ CallsApart' /\ job' = job /\ begun' = begun + 1
BY DEF A!Repeat, JobsTyped, CallsApart

\* A notice is told, and the call has one less to tell; or its loss ends the
\* call or is passed over.
LEMMA NoticeMoves ==
  ASSUME JobsTyped, CallsApart, NEW w \in Workers, A!CreateNotification(w)
  PROVE  \E a \in job[w].tell \cup job[w].seats :
           \E d \in A!Calls \cup {None} :
             /\ JobsTyped' /\ CallsApart' /\ a \in Agents
             /\ job[w] # None /\ job[w].at = "notify" /\ job'[w] = d
             /\ \A v \in Workers \ {w} : job'[v] = job[v]
             /\ overlap = "none" => \A v \in Workers \ {w} : job[v] = None
             /\ d # None =>
                  /\ d.do = job[w].do /\ d.who = job[w].who /\ d.read = job[w].read
                  /\ d.at \in {"notify", "rate"}
                  /\ d.tell = job[w].tell \ {a} /\ d.seats = job[w].seats \ {a}
                  /\ d.at = "rate" => d.do = "install" /\ d.tell \cup d.seats = {}
             /\ d = None /\ ~trouble =>
                  (job[w].tell \cup job[w].seats) \ {a} = {} /\ job[w].do # "install"
             /\ \/ /\ told' = [told EXCEPT ![a][job[w].who] = @ + 1]
                   /\ unread' = [unread EXCEPT ![a][job[w].who] = @ + 1]
                \/ trouble /\ UNCHANGED <<told, unread>>
<1>1. job[w] # None /\ job[w].at = "notify" /\ begun' = begun /\ overlap' = overlap
  BY DEF A!CreateNotification, A!fixed
<1>2. PICK a \in (IF job[w].tell # {} THEN job[w].tell ELSE job[w].seats) :
       LET rest == [job[w] EXCEPT !.tell = @ \ {a}, !.seats = @ \ {a}]
       IN \/ /\ told' = [told EXCEPT ![a][job[w].who] = @ + 1]
             /\ unread' = [unread EXCEPT ![a][job[w].who] = @ + 1]
             /\ A!Continue(w, A!AfterNotices(rest))
          \/ /\ trouble
             /\ IF job[w].tell # {} THEN A!Return(w)
                ELSE A!Continue(w, A!AfterNotices(rest))
             /\ UNCHANGED A!notices
  BY Zenon DEF A!CreateNotification
<1>3. a \in job[w].tell \cup job[w].seats /\ a \in Agents
  BY <1>1, CallFacts
<1>. DEFINE rest == [job[w] EXCEPT !.tell = @ \ {a}, !.seats = @ \ {a}]
<1>4. /\ rest \in A!Calls /\ rest.do = job[w].do /\ rest.who = job[w].who
      /\ rest.read = job[w].read
      /\ rest.tell = job[w].tell \ {a} /\ rest.seats = job[w].seats \ {a}
  <2>1. job[w] \in A!Calls
    BY <1>1, CallFacts
  <2>. QED
    BY <2>1 DEF A!Calls
<1>. HIDE DEF rest
<1>5. PICK d : d = A!AfterNotices(rest)
  OBVIOUS
<1>6. \/ d = None /\ rest.tell \cup rest.seats = {} /\ rest.do # "install"
      \/ /\ d \in A!Calls /\ d.do = rest.do /\ d.who = rest.who /\ d.read = rest.read
         /\ d.tell = rest.tell /\ d.seats = rest.seats
         /\ \/ d.at = "notify" /\ rest.tell \cup rest.seats # {}
            \/ d.at = "rate" /\ rest.tell \cup rest.seats = {} /\ rest.do = "install"
  BY <1>4, <1>5, AfterFacts
<1>7. \/ /\ told' = [told EXCEPT ![a][job[w].who] = @ + 1]
         /\ unread' = [unread EXCEPT ![a][job[w].who] = @ + 1]
         /\ job' = [job EXCEPT ![w] = d]
      \/ /\ trouble /\ UNCHANGED <<told, unread>>
         /\ \/ job' = [job EXCEPT ![w] = d]
            \/ job' = [job EXCEPT ![w] = None]
  BY <1>2, <1>5 DEF A!Continue, A!Return, A!notices, rest
<1>8. CASE job' = [job EXCEPT ![w] = d]
  <2>1. d \in A!Calls \cup {None} /\ (d # None => d.who = job[w].who)
    BY <1>4, <1>6
  <2>2. /\ JobsTyped' /\ CallsApart' /\ job'[w] = d
        /\ \A v \in Workers \ {w} : job'[v] = job[v]
        /\ overlap = "none" => \A v \in Workers \ {w} : job[v] = None
    BY <1>1, <1>8, <2>1, NextStatement
  <2>3. d # None =>
          /\ d.do = job[w].do /\ d.who = job[w].who /\ d.read = job[w].read
          /\ d.at \in {"notify", "rate"}
          /\ d.tell = job[w].tell \ {a} /\ d.seats = job[w].seats \ {a}
          /\ d.at = "rate" => d.do = "install" /\ d.tell \cup d.seats = {}
    BY <1>4, <1>6
  <2>4. d = None => (job[w].tell \cup job[w].seats) \ {a} = {} /\ job[w].do # "install"
    <3>1. d = None => rest.tell \cup rest.seats = {} /\ rest.do # "install"
      BY <1>6, NoCallIsNone
    <3>. QED
      BY <1>4, <3>1
  <2>5. \/ /\ told' = [told EXCEPT ![a][job[w].who] = @ + 1]
           /\ unread' = [unread EXCEPT ![a][job[w].who] = @ + 1]
        \/ trouble /\ UNCHANGED <<told, unread>>
    BY <1>7
  <2>. QED
    BY <1>1, <1>3, <2>1, <2>2, <2>3, <2>4, <2>5
<1>9. CASE job' = [job EXCEPT ![w] = None] /\ trouble /\ UNCHANGED <<told, unread>>
  <2>1. /\ JobsTyped' /\ CallsApart' /\ job'[w] = None
        /\ \A v \in Workers \ {w} : job'[v] = job[v]
        /\ overlap = "none" => \A v \in Workers \ {w} : job[v] = None
    BY <1>1, <1>9, NextStatement
  <2>. QED
    BY <1>1, <1>3, <1>9, <2>1
<1>. QED
  BY <1>7, <1>8, <1>9

\* A call as it is begun, at some statement and with somebody to tell.
LEMMA BegunFacts ==
  ASSUME NEW do \in {"like", "unlike", "comment", "follow", "channel", "dm", "read", "stake",
                     "resolve", "install", "answer"},
         NEW a \in Agents
  PROVE  LET c == A!Call(do, a)
         IN /\ c \in A!Calls /\ c.do = do /\ c.who = a /\ c.at = "begun"
            /\ c.tell = {} /\ c.seats = {} /\ c.read = None
BY DEF A!Call, A!Calls

Fresh(do, a, at) == [A!Call(do, a) EXCEPT !.at = at]
FreshTo(do, a, at, tell) == [A!Call(do, a) EXCEPT !.at = at, !.tell = tell]

LEMMA FreshFacts ==
  ASSUME NEW do \in {"like", "unlike", "comment", "follow", "channel", "dm", "read", "stake",
                     "resolve", "install", "answer"},
         NEW a \in Agents,
         NEW at \in {"begun", "notify", "count", "mark", "badges", "write", "weigh", "apply",
                     "upsert", "rate", "status"}
  PROVE  LET d == Fresh(do, a, at)
         IN /\ d \in A!Calls /\ d.do = do /\ d.who = a /\ d.at = at
            /\ d.tell = {} /\ d.seats = {} /\ d.read = None
<1>1. PICK c : c = A!Call(do, a)
  OBVIOUS
<1>2. /\ c \in A!Calls /\ c.do = do /\ c.who = a /\ c.at = "begun"
      /\ c.tell = {} /\ c.seats = {} /\ c.read = None
  BY <1>1, BegunFacts
<1>3. PICK d : d = [c EXCEPT !.at = at]
  OBVIOUS
<1>4. /\ d \in A!Calls /\ d.do = do /\ d.who = a /\ d.at = at
      /\ d.tell = {} /\ d.seats = {} /\ d.read = None
  BY <1>2, <1>3 DEF A!Calls
<1>. QED
  BY <1>1, <1>3, <1>4 DEF Fresh

LEMMA FreshToFacts ==
  ASSUME NEW do \in {"like", "unlike", "comment", "follow", "channel", "dm", "read", "stake",
                     "resolve", "install", "answer"},
         NEW a \in Agents, NEW tell \in SUBSET Agents,
         NEW at \in {"begun", "notify", "count", "mark", "badges", "write", "weigh", "apply",
                     "upsert", "rate", "status"}
  PROVE  LET d == FreshTo(do, a, at, tell)
         IN /\ d \in A!Calls /\ d.do = do /\ d.who = a /\ d.at = at
            /\ d.tell = tell /\ d.seats = {} /\ d.read = None
<1>1. PICK c : c = A!Call(do, a)
  OBVIOUS
<1>2. /\ c \in A!Calls /\ c.do = do /\ c.who = a /\ c.at = "begun"
      /\ c.tell = {} /\ c.seats = {} /\ c.read = None
  BY <1>1, BegunFacts
<1>3. PICK d : d = [c EXCEPT !.at = at, !.tell = tell]
  OBVIOUS
<1>4. /\ d \in A!Calls /\ d.do = do /\ d.who = a /\ d.at = at
      /\ d.tell = tell /\ d.seats = {} /\ d.read = None
  BY <1>2, <1>3 DEF A!Calls
<1>. QED
  BY <1>1, <1>3, <1>4 DEF FreshTo

LEMMA CountingMoves ==
  ASSUME NEW w \in Workers, \A v \in Workers \ {w} : job'[v] = job[v], NEW do
  PROVE  /\ Cardinality(Counting(do)) \in Nat /\ Cardinality(Counting(do)') \in Nat
         /\ (A!At(w, do, "count") <=> A!At(w, do, "count")') =>
              Cardinality(Counting(do)') = Cardinality(Counting(do))
         /\ A!At(w, do, "count") /\ ~A!At(w, do, "count")' =>
              Cardinality(Counting(do)) = Cardinality(Counting(do)') + 1
         /\ ~A!At(w, do, "count") /\ A!At(w, do, "count")' =>
              Cardinality(Counting(do)') = Cardinality(Counting(do)) + 1
<1>1. /\ Counting(do) \in SUBSET Workers /\ Counting(do)' \in SUBSET Workers
      /\ w \in Counting(do) <=> A!At(w, do, "count")
      /\ w \in Counting(do)' <=> A!At(w, do, "count")'
      /\ \A v \in Workers \ {w} : v \in Counting(do) <=> v \in Counting(do)'
  BY DEF Counting, A!At
<1>2. IsFiniteSet(Workers)
  BY CommonsConstants
<1>. QED
  BY ONLY <1>1, <1>2, w \in Workers, CountMoves

\* No call begins or ends to count, and no row of the feed changes.
LEMMA FeedStays ==
  ASSUME FeedKept, UNCHANGED <<corner, overlap, trouble>>,
         UNCHANGED <<likes, likesCount, comments, commentsCount>>,
         begun \in Nat, begun' \in Nat, begun' >= begun, likesCount \in Nat,
         NEW w \in Workers, \A v \in Workers \ {w} : job'[v] = job[v],
         \A do \in {"like", "unlike", "comment"} :
           ~A!At(w, do, "count") /\ ~A!At(w, do, "count")'
  PROVE  FeedKept'
<1>1. CASE corner # "feed"
  BY <1>1 DEF FeedKept
<1>2. CASE corner = "feed"
  <2>1. \A do \in {"like", "unlike", "comment"} :
          /\ Cardinality(Counting(do)') = Cardinality(Counting(do))
          /\ Cardinality(Counting(do)) \in Nat
    BY CountingMoves
  <2>2. \A v \in Counting("like")' : v \in Counting("like") /\ job'[v] = job[v]
    BY DEF Counting, A!At
  <2>. QED
    BY <1>2, <2>1, <2>2 DEF FeedKept
<1>. QED
  BY <1>1, <1>2

LEMMA FeedIdles ==
  ASSUME FeedKept, UNCHANGED <<corner, overlap, trouble, job, likes, likesCount, comments,
                               commentsCount>>,
         begun \in Nat, begun' \in Nat, begun' >= begun, likesCount \in Nat
  PROVE  FeedKept'
<1>1. \A do : Counting(do)' = Counting(do)
  BY DEF Counting, A!At
<1>2. \A do : Cardinality(Counting(do)) \in Nat
  BY CommonsConstants, FS_Subset, FS_CardinalityType DEF Counting
<1>. QED
  BY <1>1, <1>2 DEF FeedKept

LEMMA LikeKeeps ==
  ASSUME CommonsTyped, CallsApart, FeedKept, corner = "feed", NEW w \in Workers, NEW a \in Agents,
         UNCHANGED <<corner, overlap, trouble>>, A!LikePost(w, a)
  PROVE  JobsTyped' /\ CallsApart' /\ RowsOfPosts' /\ FeedKept'
<1>1. JobsTyped /\ RowsOfPosts /\ begun \in Nat
  BY DEF CommonsTyped, JobsTyped
<1>2. /\ UNCHANGED <<likesCount, comments, commentsCount, follows>>
      /\ \/ A!Repeat(w) /\ UNCHANGED likes
         \/ /\ a \notin likes /\ likes' = likes \cup {a} /\ A!MayBegin(w, a)
            /\ A!Begin(w, [A!Call("like", a) EXCEPT !.at = "count", !.tell = {Author} \ {a}])
  BY DEF A!LikePost
<1>3. CASE A!Repeat(w) /\ UNCHANGED likes
  <2>1. JobsTyped' /\ CallsApart' /\ job' = job /\ begun' = begun + 1
    BY <1>1, <1>3, Repeated
  <2>2. FeedKept'
    BY <1>1, <1>2, <1>3, <2>1, FeedIdles DEF RowsOfPosts
  <2>. QED
    BY <1>1, <1>2, <1>3, <2>1, <2>2 DEF RowsOfPosts
<1>4. CASE /\ a \notin likes /\ likes' = likes \cup {a} /\ A!MayBegin(w, a)
           /\ A!Begin(w, [A!Call("like", a) EXCEPT !.at = "count", !.tell = {Author} \ {a}])
  <2>1. PICK c \in A!Calls : /\ A!Begin(w, c)
                             /\ c.do = "like" /\ c.at = "count" /\ c.who = a
    <3>1. {Author} \ {a} \in SUBSET Agents
      BY CommonsConstants
    <3>2. A!Begin(w, FreshTo("like", a, "count", {Author} \ {a}))
      BY <1>4 DEF FreshTo
    <3>. QED
      BY <3>1, <3>2, FreshToFacts
  <2>2. /\ JobsTyped' /\ CallsApart'
        /\ job[w] = None /\ job'[w] = c /\ c # None /\ begun' = begun + 1
        /\ \A v \in Workers \ {w} : job'[v] = job[v]
        /\ overlap # "any" => \A v \in Workers : job[v] # None => job[v].who # a
    BY <1>1, <1>4, <2>1, NewCall
  <2>3. /\ \A do : ~A!At(w, do, "count")
        /\ A!At(w, "like", "count")'
        /\ \A do \in {"unlike", "comment"} : ~A!At(w, do, "count")'
    BY <2>1, <2>2 DEF A!At
  <2>4. PICK l, u, k, t \in Nat :
          /\ l = Cardinality(Counting("like")) /\ l + 1 = Cardinality(Counting("like")')
          /\ u = Cardinality(Counting("unlike")) /\ u = Cardinality(Counting("unlike")')
          /\ k = Cardinality(Counting("comment")) /\ k = Cardinality(Counting("comment")')
          /\ t = Cardinality(likes) /\ t + 1 = Cardinality(likes')
    <3>1. \A do : Cardinality(Counting(do)) \in Nat
      BY <2>2, CountingMoves
    <3>2. /\ Cardinality(Counting("like")') = Cardinality(Counting("like")) + 1
          /\ Cardinality(Counting("unlike")') = Cardinality(Counting("unlike"))
          /\ Cardinality(Counting("comment")') = Cardinality(Counting("comment"))
      BY <2>2, <2>3, CountingMoves
    <3>3. Cardinality(likes) \in Nat /\ Cardinality(likes') = Cardinality(likes) + 1
      BY <1>1, <1>4, CommonsConstants, FS_Subset, FS_CardinalityType, FS_AddElement
      DEF RowsOfPosts
    <3>. QED
      BY <3>1, <3>2, <3>3
  <2>5. \A v \in Counting("like")' : v = w \/ (v \in Counting("like") /\ job'[v] = job[v])
    BY <2>2 DEF Counting, A!At
  <2>6. overlap # "any" /\ ~trouble => \A v \in Counting("like")' : job'[v].who \in likes'
    BY <1>4, <2>1, <2>2, <2>5, corner = "feed" DEF FeedKept
  <2>7. FeedKept'
    BY <1>1, <1>2, <2>2, <2>4, <2>6, corner = "feed" DEF FeedKept, RowsOfPosts
  <2>. QED
    BY <1>1, <1>2, <1>4, <2>2, <2>7 DEF RowsOfPosts
<1>. QED
  BY <1>2, <1>3, <1>4

LEMMA UnlikeKeeps ==
  ASSUME CommonsTyped, CallsApart, FeedKept, corner = "feed", NEW w \in Workers, NEW a \in Agents,
         UNCHANGED <<corner, overlap, trouble>>, A!UnlikePost(w, a)
  PROVE  JobsTyped' /\ CallsApart' /\ RowsOfPosts' /\ FeedKept'
<1>1. JobsTyped /\ RowsOfPosts /\ begun \in Nat
  BY DEF CommonsTyped, JobsTyped
<1>2. /\ UNCHANGED <<likesCount, comments, commentsCount, follows>>
      /\ \/ A!Repeat(w) /\ UNCHANGED likes
         \/ /\ a \in likes /\ likes' = likes \ {a} /\ A!MayBegin(w, a)
            /\ A!Begin(w, [A!Call("unlike", a) EXCEPT !.at = "count"])
  BY DEF A!UnlikePost
<1>3. CASE A!Repeat(w) /\ UNCHANGED likes
  <2>1. JobsTyped' /\ CallsApart' /\ job' = job /\ begun' = begun + 1
    BY <1>1, <1>3, Repeated
  <2>2. FeedKept'
    BY <1>1, <1>2, <1>3, <2>1, FeedIdles DEF RowsOfPosts
  <2>. QED
    BY <1>1, <1>2, <1>3, <2>1, <2>2 DEF RowsOfPosts
<1>4. CASE /\ a \in likes /\ likes' = likes \ {a} /\ A!MayBegin(w, a)
           /\ A!Begin(w, [A!Call("unlike", a) EXCEPT !.at = "count"])
  <2>1. PICK c \in A!Calls : /\ A!Begin(w, c)
                             /\ c.do = "unlike" /\ c.at = "count" /\ c.who = a
    <3>1. A!Begin(w, Fresh("unlike", a, "count"))
      BY <1>4 DEF Fresh
    <3>. QED
      BY <3>1, FreshFacts
  <2>2. /\ JobsTyped' /\ CallsApart'
        /\ job[w] = None /\ job'[w] = c /\ c # None /\ begun' = begun + 1
        /\ \A v \in Workers \ {w} : job'[v] = job[v]
        /\ overlap # "any" => \A v \in Workers : job[v] # None => job[v].who # a
    BY <1>1, <1>4, <2>1, NewCall
  <2>3. /\ \A do : ~A!At(w, do, "count")
        /\ A!At(w, "unlike", "count")'
        /\ \A do \in {"like", "comment"} : ~A!At(w, do, "count")'
    BY <2>1, <2>2 DEF A!At
  <2>4. PICK l, u, k, t \in Nat :
          /\ l = Cardinality(Counting("like")) /\ l = Cardinality(Counting("like")')
          /\ u = Cardinality(Counting("unlike")) /\ u + 1 = Cardinality(Counting("unlike")')
          /\ k = Cardinality(Counting("comment")) /\ k = Cardinality(Counting("comment")')
          /\ t + 1 = Cardinality(likes) /\ t = Cardinality(likes')
    <3>1. \A do : Cardinality(Counting(do)) \in Nat
      BY <2>2, CountingMoves
    <3>2. /\ Cardinality(Counting("like")') = Cardinality(Counting("like"))
          /\ Cardinality(Counting("unlike")') = Cardinality(Counting("unlike")) + 1
          /\ Cardinality(Counting("comment")') = Cardinality(Counting("comment"))
      BY <2>2, <2>3, CountingMoves
    <3>3. Cardinality(likes') \in Nat /\ Cardinality(likes') + 1 = Cardinality(likes)
      BY <1>1, <1>4, CommonsConstants, FS_Subset, FS_CardinalityType, FS_RemoveElement
      DEF RowsOfPosts
    <3>. QED
      BY <3>1, <3>2, <3>3
  <2>5. \A v \in Counting("like")' : v \in Counting("like") /\ job'[v] = job[v]
    BY <2>2, <2>3 DEF Counting, A!At
  <2>6. overlap # "any" /\ ~trouble => \A v \in Counting("like")' : job'[v].who \in likes'
    <3>1. SUFFICES ASSUME overlap # "any", ~trouble, NEW v \in Counting("like")'
                   PROVE  job[v].who \in likes /\ job[v].who # a
      BY <1>4, <2>5
    <3>2. v \in Counting("like") /\ job[v] # None /\ v \in Workers
      BY <2>5 DEF Counting, A!At
    <3>. QED
      BY <2>2, <3>1, <3>2, corner = "feed" DEF FeedKept
  <2>7. FeedKept'
    BY <1>1, <1>2, <2>2, <2>4, <2>6, corner = "feed" DEF FeedKept, RowsOfPosts
  <2>. QED
    BY <1>1, <1>2, <1>4, <2>2, <2>7 DEF RowsOfPosts
<1>. QED
  BY <1>2, <1>3, <1>4

LEMMA CommentKeeps ==
  ASSUME CommonsTyped, CallsApart, FeedKept, corner = "feed", NEW w \in Workers, NEW a \in Agents,
         UNCHANGED <<corner, overlap, trouble>>, A!CommentOnPost(w, a)
  PROVE  JobsTyped' /\ CallsApart' /\ RowsOfPosts' /\ FeedKept'
<1>1. JobsTyped /\ RowsOfPosts /\ begun \in Nat
  BY DEF CommonsTyped, JobsTyped
<1>2. /\ UNCHANGED <<likes, likesCount, commentsCount, follows>>
      /\ comments' = comments + 1 /\ A!MayBegin(w, a)
  BY DEF A!CommentOnPost
<1>3. PICK c \in A!Calls : /\ A!Begin(w, c)
                           /\ c.do = "comment" /\ c.at = "count" /\ c.who = a
  <2>1. {Author} \ {a} \in SUBSET Agents
    BY CommonsConstants
  <2>2. A!Begin(w, FreshTo("comment", a, "count", {Author} \ {a}))
    BY DEF FreshTo, A!CommentOnPost
  <2>. QED
    BY <2>1, <2>2, FreshToFacts
<1>4. /\ JobsTyped' /\ CallsApart'
      /\ job[w] = None /\ job'[w] = c /\ c # None /\ begun' = begun + 1
      /\ \A v \in Workers \ {w} : job'[v] = job[v]
  BY <1>1, <1>2, <1>3, NewCall
<1>5. /\ \A do : ~A!At(w, do, "count")
      /\ A!At(w, "comment", "count")'
      /\ \A do \in {"like", "unlike"} : ~A!At(w, do, "count")'
  BY <1>3, <1>4 DEF A!At
<1>6. PICK l, u, k, t \in Nat :
        /\ l = Cardinality(Counting("like")) /\ l = Cardinality(Counting("like")')
        /\ u = Cardinality(Counting("unlike")) /\ u = Cardinality(Counting("unlike")')
        /\ k = Cardinality(Counting("comment")) /\ k + 1 = Cardinality(Counting("comment")')
        /\ t = Cardinality(likes)
  <2>1. \A do : Cardinality(Counting(do)) \in Nat
    BY <1>4, CountingMoves
  <2>2. /\ Cardinality(Counting("like")') = Cardinality(Counting("like"))
        /\ Cardinality(Counting("unlike")') = Cardinality(Counting("unlike"))
        /\ Cardinality(Counting("comment")') = Cardinality(Counting("comment")) + 1
    BY <1>4, <1>5, CountingMoves
  <2>3. Cardinality(likes) \in Nat
    BY <1>1, CommonsConstants, FS_Subset, FS_CardinalityType DEF RowsOfPosts
  <2>. QED
    BY <2>1, <2>2, <2>3
<1>7. \A v \in Counting("like")' : v \in Counting("like") /\ job'[v] = job[v]
  BY <1>4, <1>5 DEF Counting, A!At
<1>8. FeedKept'
  BY <1>1, <1>2, <1>4, <1>6, <1>7, corner = "feed" DEF FeedKept, RowsOfPosts
<1>. QED
  BY <1>1, <1>2, <1>4, <1>8 DEF RowsOfPosts

LEMMA FollowKeeps ==
  ASSUME CommonsTyped, CallsApart, FeedKept, corner = "feed", NEW w \in Workers, NEW a \in Agents,
         UNCHANGED <<corner, overlap, trouble>>, A!FollowAgent(w, a) \/ A!UnfollowAgent(w, a)
  PROVE  JobsTyped' /\ CallsApart' /\ RowsOfPosts' /\ FeedKept'
<1>1. JobsTyped /\ RowsOfPosts /\ begun \in Nat /\ likesCount \in Nat
  BY DEF CommonsTyped, JobsTyped, RowsOfPosts
<1>2. /\ UNCHANGED <<likes, likesCount, comments, commentsCount>>
      /\ follows' \in {follows, follows \cup {a}, follows \ {a}}
      /\ \/ A!Repeat(w)
         \/ /\ A!MayBegin(w, a)
            /\ A!Begin(w, A!AfterNotices([A!Call("follow", a) EXCEPT !.tell = {Author}]))
  BY DEF A!FollowAgent, A!UnfollowAgent
<1>3. RowsOfPosts'
  BY <1>1, <1>2 DEF RowsOfPosts
<1>4. CASE A!Repeat(w)
  <2>1. JobsTyped' /\ CallsApart' /\ job' = job /\ begun' = begun + 1
    BY <1>1, <1>4, Repeated
  <2>2. FeedKept'
    BY <1>1, <1>2, <2>1, FeedIdles
  <2>. QED
    BY <1>3, <2>1, <2>2
<1>5. CASE /\ A!MayBegin(w, a)
           /\ A!Begin(w, A!AfterNotices([A!Call("follow", a) EXCEPT !.tell = {Author}]))
  <2>1. PICK c \in A!Calls : A!Begin(w, c) /\ c.at = "notify" /\ c.who = a
    <3>1. PICK b : b = A!Call("follow", a)
      OBVIOUS
    <3>2. b \in A!Calls /\ b.who = a /\ Author \in Agents
      BY <3>1, BegunFacts, CommonsConstants
    <3>3. PICK d : d = [b EXCEPT !.tell = {Author}]
      OBVIOUS
    <3>4. d \in A!Calls /\ d.tell = {Author} /\ d.who = a
      BY <3>2, <3>3 DEF A!Calls
    <3>5. PICK e : e = A!AfterNotices(d)
      OBVIOUS
    <3>6. e \in A!Calls /\ e.at = "notify" /\ e.who = a
      <4>1. d.tell \cup d.seats # {}
        BY <3>4
      <4>. QED
        BY <3>4, <3>5, <4>1, AfterFacts
    <3>7. A!Begin(w, e)
      BY <1>5, <3>1, <3>3, <3>5
    <3>. QED
      BY <3>6, <3>7
  <2>2. /\ JobsTyped' /\ CallsApart'
        /\ job[w] = None /\ job'[w] = c /\ c # None /\ begun' = begun + 1
        /\ \A v \in Workers \ {w} : job'[v] = job[v]
    BY <1>1, <1>5, <2>1, NewCall
  <2>3. \A do : ~A!At(w, do, "count") /\ ~A!At(w, do, "count")'
    BY <2>1, <2>2 DEF A!At
  <2>4. FeedKept'
    BY <1>1, <1>2, <2>2, <2>3, FeedStays
  <2>. QED
    BY <1>3, <2>2, <2>4
<1>. QED
  BY <1>2, <1>4, <1>5

\* Where likes are not undone before they are counted, the counter is at
\* least what is about to be taken from it.
LEMMA CountKeeps ==
  ASSUME CommonsTyped, CallsApart, FeedKept, corner = "feed", NEW w \in Workers,
         UNCHANGED <<corner, overlap, trouble>>, A!CountPost(w)
  PROVE  JobsTyped' /\ CallsApart' /\ RowsOfPosts' /\ FeedKept'
<1>1. JobsTyped /\ RowsOfPosts /\ begun \in Nat
  BY DEF CommonsTyped, JobsTyped
<1>2. /\ job[w] # None /\ job[w].at = "count"
      /\ UNCHANGED <<begun, likes, comments, follows>>
      /\ A!Continue(w, A!AfterNotices(job[w]))
  BY DEF A!CountPost, A!IncrementLikes, A!DecrementLikes, A!IncrementComments, A!At
<1>3. PICK d : d = A!AfterNotices(job[w])
  OBVIOUS
<1>4. /\ d \in A!Calls \cup {None}
      /\ d # None => d.who = job[w].who /\ d.at # "count"
  BY <1>1, <1>2, <1>3, CallFacts, AfterFacts
<1>5. /\ JobsTyped' /\ CallsApart' /\ job'[w] = d
      /\ \A v \in Workers \ {w} : job'[v] = job[v]
  BY <1>1, <1>2, <1>3, <1>4, NextStatement DEF A!Continue
<1>6. \A do : ~A!At(w, do, "count")'
  BY <1>4, <1>5 DEF A!At
<1>7. \A do : A!At(w, do, "count") <=> job[w].do = do
  BY <1>2 DEF A!At
<1>8. \/ job[w].do = "like" /\ likesCount' = likesCount + 1 /\ UNCHANGED commentsCount
      \/ /\ job[w].do = "unlike" /\ UNCHANGED commentsCount
         /\ likesCount' = A!Floored(likesCount - 1)
      \/ job[w].do = "comment" /\ commentsCount' = commentsCount + 1 /\ UNCHANGED likesCount
      \/ trouble /\ UNCHANGED <<likesCount, commentsCount>>
  BY DEF A!CountPost, A!IncrementLikes, A!DecrementLikes, A!IncrementComments, A!At, A!Floored
<1>9. /\ A!Floored(likesCount - 1) \in Nat /\ A!Floored(likesCount - 1) >= likesCount - 1
      /\ likesCount > 0 => A!Floored(likesCount - 1) = likesCount - 1
      /\ A!Floored(likesCount - 1) <= likesCount
  <2>1. likesCount \in Nat
    BY <1>1 DEF RowsOfPosts
  <2>2. A!Floored(likesCount - 1) = 0 \/ likesCount > 0
    <3>1. ASSUME likesCount = 0 PROVE A!Floored(0 - 1) = 0
      <4>. DEFINE S == {0, 0 - 1}
      <4>1. 0 \in S /\ \A y \in S : 0 >= y
        OBVIOUS
      <4>2. \A k \in S : (\A y \in S : k >= y) => k = 0
        OBVIOUS
      <4>. QED
        BY <4>1, <4>2 DEF A!Floored, A!Max
    <3>. QED
      BY <2>1, <3>1
  <2>3. likesCount > 0 => A!Floored(likesCount - 1) = likesCount - 1
    BY <2>1, Clamped
  <2>4. A!Floored(likesCount - 1) \in Nat /\ A!Floored(likesCount - 1) >= likesCount - 1
    BY <2>1, Clamped
  <2>. QED
    BY <2>1, <2>2, <2>3, <2>4
<1>10. PICK l, u, k, l1, u1, k1, t \in Nat :
        /\ l = Cardinality(Counting("like")) /\ l1 = Cardinality(Counting("like")')
        /\ u = Cardinality(Counting("unlike")) /\ u1 = Cardinality(Counting("unlike")')
        /\ k = Cardinality(Counting("comment")) /\ k1 = Cardinality(Counting("comment")')
        /\ t = Cardinality(likes)
        /\ l = l1 + (IF job[w].do = "like" THEN 1 ELSE 0)
        /\ u = u1 + (IF job[w].do = "unlike" THEN 1 ELSE 0)
        /\ k = k1 + (IF job[w].do = "comment" THEN 1 ELSE 0)
  <2>1. \A do : Cardinality(Counting(do)) \in Nat /\ Cardinality(Counting(do)') \in Nat
    BY <1>5, CountingMoves
  <2>2. \A do : Cardinality(Counting(do)) =
                  Cardinality(Counting(do)') + (IF job[w].do = do THEN 1 ELSE 0)
    <3>1. TAKE do
    <3>2. CASE job[w].do = do
      BY <1>5, <1>6, <1>7, <2>1, <3>2, CountingMoves
    <3>3. CASE job[w].do # do
      BY <1>5, <1>6, <1>7, <2>1, <3>3, CountingMoves
    <3>. QED
      BY <3>2, <3>3
  <2>3. Cardinality(likes) \in Nat
    BY <1>1, CommonsConstants, FS_Subset, FS_CardinalityType DEF RowsOfPosts
  <2>. QED
    BY <2>1, <2>2, <2>3
<1>11. \A v \in Counting("like")' : v \in Counting("like") /\ job'[v] = job[v]
  BY <1>5, <1>6 DEF Counting, A!At
<1>12. overlap # "any" /\ ~trouble => l <= t
  <2>1. SUFFICES ASSUME overlap # "any", ~trouble PROVE Cardinality(Counting("like")) <= t
    BY <1>10
  <2>. DEFINE f == [v \in Counting("like") |-> job[v].who]
  <2>2. \A v \in Counting("like") : v \in Workers /\ job[v] # None /\ job[v].who \in likes
    BY <2>1, corner = "feed" DEF FeedKept, Counting, A!At
  <2>3. f \in Injection(Counting("like"), likes)
    BY <2>1, <2>2 DEF Injection, IsInjective, CallsApart
  <2>4. IsFiniteSet(likes)
    BY <1>1, CommonsConstants, FS_Subset DEF RowsOfPosts
  <2>. QED
    BY <1>10, <2>3, <2>4, FS_Injection
<1>. DEFINE n == likesCount  m == likesCount'  p == commentsCount  q == commentsCount'
<1>13. /\ n \in Nat /\ m \in Nat /\ p \in Nat /\ q \in Nat /\ RowsOfPosts'
       /\ m <= n + (l - l1) /\ q <= p + (k - k1)
       /\ ~trouble => m >= n + (l - l1) - (u - u1) /\ q = p + (k - k1)
       /\ ~trouble /\ n > 0 => m = n + (l - l1) - (u - u1)
  <2>1. n \in Nat /\ p \in Nat
    BY <1>1 DEF RowsOfPosts
  <2>2. m \in Nat /\ q \in Nat
    BY <1>8, <1>9, <2>1
  <2>3. RowsOfPosts'
    BY <1>1, <1>2, <2>2 DEF RowsOfPosts
  <2>4. CASE job[w].do = "like" /\ m = n + 1 /\ q = p
    BY <1>10, <2>1, <2>2, <2>3, <2>4
  <2>5. CASE job[w].do = "unlike" /\ q = p /\ m = A!Floored(n - 1)
    BY <1>9, <1>10, <2>1, <2>2, <2>3, <2>5
  <2>6. CASE job[w].do = "comment" /\ q = p + 1 /\ m = n
    BY <1>10, <2>1, <2>2, <2>3, <2>6
  <2>7. CASE trouble /\ m = n /\ q = p
    BY <1>10, <2>1, <2>2, <2>3, <2>7
  <2>. QED
    BY <1>8, <2>4, <2>5, <2>6, <2>7
<1>. HIDE DEF n, m, p, q
<1>14. /\ n + l <= begun /\ p + k <= comments
       /\ ~trouble => p + k = comments /\ n + l >= t + u
       /\ ~trouble /\ overlap # "any" => n + l = t + u
  BY <1>10, corner = "feed" DEF FeedKept, n, p
<1>15. /\ m + l1 <= begun /\ q + k1 <= comments
       /\ ~trouble => q + k1 = comments /\ m + l1 >= t + u1
       /\ ~trouble /\ overlap # "any" => m + l1 = t + u1
  <2>1. comments \in Nat
    BY <1>1 DEF RowsOfPosts
  <2>2. /\ l \in Nat /\ u \in Nat /\ k \in Nat /\ l1 \in Nat /\ u1 \in Nat /\ k1 \in Nat
        /\ t \in Nat /\ u1 <= u
    BY <1>10
  <2>3. m + l1 <= begun /\ q + k1 <= comments
    BY ONLY <1>1, <1>13, <1>14, <2>1, <2>2
  <2>4. ~trouble => q + k1 = comments /\ m + l1 >= t + u1
    BY ONLY <1>1, <1>13, <1>14, <2>1, <2>2
  <2>5. ~trouble /\ overlap # "any" => m + l1 = t + u1
    <3>1. HAVE ~trouble /\ overlap # "any"
    <3>2. l <= t /\ n + l = t + u
      BY <1>12, <1>14, <3>1
    <3>3. CASE n > 0
      <4>1. m = n + (l - l1) - (u - u1)
        BY <1>13, <3>1, <3>3
      <4>. QED
        BY ONLY <1>13, <2>2, <3>2, <4>1
    <3>4. CASE n = 0
      <4>1. m >= n + (l - l1) - (u - u1) /\ m <= n + (l - l1)
        BY <1>13, <3>1
      <4>. QED
        BY ONLY <1>13, <2>2, <3>2, <3>4, <4>1
    <3>. QED
      BY <1>13, <3>3, <3>4
  <2>. QED
    BY <2>3, <2>4, <2>5
<1>16. FeedKept'
  <2>1. ~trouble /\ overlap # "any" => \A v \in Counting("like")' : job'[v].who \in likes'
    BY <1>2, <1>11, corner = "feed" DEF FeedKept
  <2>. QED
    BY <1>2, <1>10, <1>15, <2>1, corner = "feed" DEF FeedKept, m, q
<1>. QED
  BY <1>5, <1>13, <1>16

LEMMA TellingMoves ==
  ASSUME NEW w \in Workers, \A v \in Workers \ {w} : job'[v] = job[v], NEW a
  PROVE  /\ Cardinality(Telling(a)) \in Nat /\ Cardinality(Telling(a)') \in Nat
         /\ (w \in Telling(a) <=> w \in Telling(a)') =>
              Cardinality(Telling(a)') = Cardinality(Telling(a))
         /\ w \in Telling(a) /\ w \notin Telling(a)' =>
              Cardinality(Telling(a)) = Cardinality(Telling(a)') + 1
         /\ w \notin Telling(a) /\ w \in Telling(a)' =>
              Cardinality(Telling(a)') = Cardinality(Telling(a)) + 1
<1>1. /\ Telling(a) \in SUBSET Workers /\ Telling(a)' \in SUBSET Workers
      /\ \A v \in Workers \ {w} : v \in Telling(a) <=> v \in Telling(a)'
  BY DEF Telling
<1>2. IsFiniteSet(Workers)
  BY CommonsConstants
<1>. QED
  BY ONLY <1>1, <1>2, w \in Workers, CountMoves

\* A call with nobody to tell ends as it begins.
LEMMA NoCall ==
  ASSUME JobsTyped, CallsApart, NEW w \in Workers, NEW a, A!MayBegin(w, a), A!Begin(w, None),
         overlap' = overlap
  PROVE  /\ JobsTyped' /\ CallsApart' /\ job[w] = None /\ job'[w] = None
         /\ \A v \in Workers \ {w} : job'[v] = job[v]
<1>1. job[w] = None /\ job'[w] = None /\ begun' = begun + 1
      /\ \A v \in Workers \ {w} : job'[v] = job[v]
  BY JobMoves DEF A!MayBegin, A!Begin
<1>2. JobsTyped'
  BY <1>1 DEF JobsTyped, A!Begin
<1>3. CallsApart'
  BY <1>1 DEF CallsApart
<1>. QED
  BY <1>1, <1>2, <1>3

LEMMA PostTold ==
  ASSUME JobsTyped, CallsApart, NEW w \in Workers, NEW a \in Agents, A!PostChannelMessage(w, a)
  PROVE  /\ JobsTyped' /\ CallsApart' /\ \A v \in Workers \ {w} : job'[v] = job[v]
         /\ \E all \in SUBSET Agents :
              /\ owed' = [b \in Agents |-> owed[b] + IF b \in all THEN 1 ELSE 0]
              /\ \A b \in Agents : w \notin Telling(b) /\ (w \in Telling(b)' <=> b \in all)
<1>1. PICK mentions \in SUBSET Agents, room \in {"lab", "general"} :
        LET tell == mentions \ {a}
            seats == IF room = "lab" THEN Roster \ (mentions \cup {a}) ELSE {}
        IN /\ A!Begin(w, A!AfterNotices([A!Call("channel", a) EXCEPT !.tell = tell,
                                                                    !.seats = seats]))
           /\ owed' = [b \in Agents |-> owed[b] + IF b \in tell \cup seats THEN 1 ELSE 0]
  BY Zenon DEF A!PostChannelMessage
<1>2. PICK tell \in SUBSET Agents, seats \in SUBSET Agents :
        /\ A!Begin(w, A!AfterNotices([A!Call("channel", a) EXCEPT !.tell = tell,
                                                                 !.seats = seats]))
        /\ owed' = [b \in Agents |-> owed[b] + IF b \in tell \cup seats THEN 1 ELSE 0]
  <2>. DEFINE t == mentions \ {a}
              s == IF room = "lab" THEN Roster \ (mentions \cup {a}) ELSE {}
  <2>1. t \in SUBSET Agents /\ s \in SUBSET Agents
    BY CommonsConstants
  <2>2. /\ A!Begin(w, A!AfterNotices([A!Call("channel", a) EXCEPT !.tell = t, !.seats = s]))
        /\ owed' = [b \in Agents |-> owed[b] + IF b \in t \cup s THEN 1 ELSE 0]
    BY <1>1, Zenon
  <2>. HIDE DEF t, s
  <2>. QED
    BY <2>1, <2>2, Zenon
<1>3. PICK b : b = A!Call("channel", a)
  OBVIOUS
<1>4. b \in A!Calls /\ b.do = "channel" /\ b.who = a
  BY <1>3, BegunFacts
<1>5. PICK c : c = [b EXCEPT !.tell = tell, !.seats = seats]
  OBVIOUS
<1>6. /\ c \in A!Calls /\ c.do = "channel" /\ c.who = a /\ c.tell = tell /\ c.seats = seats
  BY <1>4, <1>5 DEF A!Calls
<1>7. PICK d : d = A!AfterNotices(c)
  OBVIOUS
<1>8. A!Begin(w, d) /\ A!MayBegin(w, a) /\ overlap' = overlap
  BY <1>2, <1>3, <1>5, <1>7 DEF A!PostChannelMessage, A!fixed
<1>9. \/ d = None /\ tell \cup seats = {}
      \/ /\ d \in A!Calls /\ d.who = a /\ d.tell = tell /\ d.seats = seats
         /\ d.at = "notify" /\ tell \cup seats # {}
  BY <1>6, <1>7, AfterFacts
<1>10. CASE d = None /\ tell \cup seats = {}
  <2>1. /\ JobsTyped' /\ CallsApart' /\ job[w] = None /\ job'[w] = None
        /\ \A v \in Workers \ {w} : job'[v] = job[v]
    BY <1>8, <1>10, NoCall
  <2>2. \A x \in Agents : w \notin Telling(x) /\ w \notin Telling(x)'
    BY <2>1 DEF Telling
  <2>. QED
    BY <1>2, <1>10, <2>1, <2>2
<1>11. CASE /\ d \in A!Calls /\ d.who = a /\ d.tell = tell /\ d.seats = seats
            /\ d.at = "notify" /\ tell \cup seats # {}
  <2>1. /\ JobsTyped' /\ CallsApart' /\ job[w] = None /\ job'[w] = d /\ d # None
        /\ \A v \in Workers \ {w} : job'[v] = job[v]
    BY <1>8, <1>11, NewCall
  <2>2. \A x \in Agents : w \notin Telling(x) /\ (w \in Telling(x)' <=> x \in tell \cup seats)
    BY <1>11, <2>1 DEF Telling
  <2>. QED
    BY <1>2, <2>1, <2>2
<1>. QED
  BY <1>9, <1>10, <1>11

LEMMA PostKeeps ==
  ASSUME CommonsTyped, CallsApart, ChannelsKept, NEW w \in Workers, NEW a \in Agents,
         UNCHANGED <<corner, trouble>>, A!PostChannelMessage(w, a)
  PROVE  JobsTyped' /\ CallsApart' /\ RowsOfTalk' /\ ChannelsKept'
<1>1. JobsTyped /\ RowsOfTalk
  BY DEF CommonsTyped
<1>2. /\ JobsTyped' /\ CallsApart' /\ \A v \in Workers \ {w} : job'[v] = job[v]
  BY <1>1, PostTold
<1>3. PICK all \in SUBSET Agents :
              /\ owed' = [b \in Agents |-> owed[b] + IF b \in all THEN 1 ELSE 0]
              /\ \A b \in Agents : w \notin Telling(b) /\ (w \in Telling(b)' <=> b \in all)
  BY <1>1, PostTold
<1>4. UNCHANGED <<told, unread, messages>> /\ corner = "channels"
  BY DEF A!PostChannelMessage, A!notices
<1>5. RowsOfTalk'
  BY <1>1, <1>3, <1>4 DEF RowsOfTalk
<1>6. ASSUME NEW b \in Agents
      PROVE  /\ A!SumFunction(told'[b]) + Cardinality(Telling(b)') <= owed'[b]
             /\ ~trouble => A!SumFunction(told'[b]) + Cardinality(Telling(b)') = owed'[b]
  <2>1. PICK s \in Int : s = A!SumFunction(told[b])
    <3>1. told[b] \in [Agents -> Int]
      BY <1>1 DEF RowsOfTalk
    <3>. QED
      BY <3>1, CommonsConstants, CommonsSum
  <2>2. PICK n \in Nat, m \in Nat, o \in Nat :
          n = Cardinality(Telling(b)) /\ m = Cardinality(Telling(b)') /\ o = owed[b]
    BY <1>1, <1>2, TellingMoves DEF RowsOfTalk
  <2>3. s + n <= o /\ (~trouble => s + n = o)
    BY <1>4, <2>1, <2>2 DEF ChannelsKept
  <2>4. m - n = IF b \in all THEN 1 ELSE 0
    <3>1. CASE b \in all
      BY <1>2, <1>3, <2>2, <3>1, TellingMoves
    <3>2. CASE b \notin all
      BY <1>2, <1>3, <2>2, <3>2, TellingMoves
    <3>. QED
      BY <3>1, <3>2
  <2>5. owed'[b] = o + (m - n)
    BY <1>3, <2>2, <2>4
  <2>6. s + m <= o + (m - n) /\ (~trouble => s + m = o + (m - n))
    BY <2>3
  <2>. QED
    BY <1>4, <2>1, <2>2, <2>5, <2>6
<1>7. ChannelsKept'
  BY <1>4, <1>6 DEF ChannelsKept
<1>. QED
  BY <1>2, <1>5, <1>7

LEMMA OneMore ==
  ASSUME NEW f \in [Agents -> [Agents -> Nat]], NEW g, NEW a \in Agents, NEW b \in Agents,
         g = [f EXCEPT ![a][b] = @ + 1]
  PROVE  /\ g \in [Agents -> [Agents -> Nat]] /\ g[a][b] = f[a][b] + 1
         /\ \A x \in Agents \ {a} : g[x] = f[x]
         /\ \A y \in Agents \ {b} : g[a][y] = f[a][y]
         /\ \A x, y \in Agents : x # a \/ y # b => g[x][y] = f[x][y]
<1>1. PICK h : h = [f[a] EXCEPT ![b] = f[a][b] + 1]
  OBVIOUS
<1>2. f[a] \in [Agents -> Nat] /\ f[a][b] \in Nat
  OBVIOUS
<1>3. /\ h \in [Agents -> Nat] /\ h[b] = f[a][b] + 1
      /\ \A y \in Agents \ {b} : h[y] = f[a][y]
  BY <1>1, <1>2
<1>4. g = [f EXCEPT ![a] = h]
  BY <1>1
<1>5. /\ g \in [Agents -> [Agents -> Nat]] /\ g[a] = h
      /\ \A x \in Agents \ {a} : g[x] = f[x]
  BY <1>3, <1>4
<1>. QED
  BY <1>3, <1>5

\* Who is told keeps its badges at most the notices it got.
LEMMA NoticeTypes ==
  ASSUME CommonsTyped, CallsApart, NEW w \in Workers, A!CreateNotification(w)
  PROVE  RowsOfTalk'
<1>1. JobsTyped /\ RowsOfTalk /\ UNCHANGED <<owed, messages>>
  BY DEF CommonsTyped, A!CreateNotification, A!talk
<1>2. job[w] # None
  BY DEF A!CreateNotification
<1>3. PICK a \in Agents : 
        \/ /\ told' = [told EXCEPT ![a][job[w].who] = @ + 1]
           /\ unread' = [unread EXCEPT ![a][job[w].who] = @ + 1]
        \/ UNCHANGED <<told, unread>>
  BY <1>1, NoticeMoves
<1>4. PICK b \in Agents : b = job[w].who
  BY <1>1, <1>2, CallFacts
<1>5. CASE /\ told' = [told EXCEPT ![a][b] = @ + 1]
           /\ unread' = [unread EXCEPT ![a][b] = @ + 1]
  <2>1. /\ told' \in [Agents -> [Agents -> Nat]] /\ unread' \in [Agents -> [Agents -> Nat]]
        /\ \A x, y \in Agents :
             \/ told'[x][y] = told[x][y] /\ unread'[x][y] = unread[x][y]
             \/ told'[x][y] = told[x][y] + 1 /\ unread'[x][y] = unread[x][y] + 1
    <3>1. told \in [Agents -> [Agents -> Nat]] /\ unread \in [Agents -> [Agents -> Nat]]
      BY <1>1 DEF RowsOfTalk
    <3>2. /\ told' \in [Agents -> [Agents -> Nat]] /\ told'[a][b] = told[a][b] + 1
          /\ \A x, y \in Agents : x # a \/ y # b => told'[x][y] = told[x][y]
      BY <1>5, <3>1, OneMore
    <3>3. /\ unread' \in [Agents -> [Agents -> Nat]] /\ unread'[a][b] = unread[a][b] + 1
          /\ \A x, y \in Agents : x # a \/ y # b => unread'[x][y] = unread[x][y]
      BY <1>5, <3>1, OneMore
    <3>. QED
      BY <3>2, <3>3
  <2>2. ASSUME NEW x \in Agents, NEW y \in Agents PROVE unread'[x][y] <= told'[x][y]
    <3>1. unread[x][y] \in Nat /\ told[x][y] \in Nat /\ unread[x][y] <= told[x][y]
      BY <1>1 DEF RowsOfTalk
    <3>. QED
      BY <2>1, <3>1
  <2>. QED
    BY <1>1, <2>1, <2>2 DEF RowsOfTalk
<1>6. CASE UNCHANGED <<told, unread>>
  BY <1>1, <1>6 DEF RowsOfTalk
<1>. QED
  BY <1>3, <1>4, <1>5, <1>6

LEMMA NoticeKeeps ==
  ASSUME CommonsTyped, CallsApart, ChannelsKept, NEW w \in Workers,
         UNCHANGED <<corner, trouble>>, A!CreateNotification(w)
  PROVE  ChannelsKept'
<1>1. SUFFICES ASSUME corner = "channels", NEW b \in Agents
               PROVE  /\ A!SumFunction(told'[b]) + Cardinality(Telling(b)') <= owed'[b]
                      /\ ~trouble =>
                           A!SumFunction(told'[b]) + Cardinality(Telling(b)') = owed'[b]
  BY DEF ChannelsKept
<1>2. JobsTyped /\ RowsOfTalk /\ UNCHANGED owed
  BY DEF CommonsTyped, A!CreateNotification, A!talk
<1>3. PICK a \in job[w].tell \cup job[w].seats :
           \E d \in A!Calls \cup {None} :
             /\ a \in Agents
             /\ job[w] # None /\ job[w].at = "notify" /\ job'[w] = d
             /\ \A v \in Workers \ {w} : job'[v] = job[v]
             /\ d # None =>
                  /\ d.at \in {"notify", "rate"}
                  /\ d.tell = job[w].tell \ {a} /\ d.seats = job[w].seats \ {a}
                  /\ d.at = "rate" => d.tell \cup d.seats = {}
             /\ d = None /\ ~trouble => (job[w].tell \cup job[w].seats) \ {a} = {}
             /\ \/ told' = [told EXCEPT ![a][job[w].who] = @ + 1]
                \/ trouble /\ UNCHANGED told
  BY <1>2, NoticeMoves
<1>4. /\ a \in Agents /\ \A v \in Workers \ {w} : job'[v] = job[v]
      /\ w \in Telling(a) /\ w \notin Telling(a)'
      /\ b # a /\ w \in Telling(b)' => w \in Telling(b)
      /\ b # a /\ ~trouble => (w \in Telling(b) <=> w \in Telling(b)')
  BY <1>3 DEF Telling
<1>5. PICK s \in Int, n \in Nat, m \in Nat, o \in Nat :
        /\ s = A!SumFunction(told[b]) /\ n = Cardinality(Telling(b))
        /\ m = Cardinality(Telling(b)') /\ o = owed[b]
  <2>1. told[b] \in [Agents -> Int]
    BY <1>2 DEF RowsOfTalk
  <2>. QED
    BY <1>2, <1>4, <2>1, CommonsConstants, CommonsSum, TellingMoves DEF RowsOfTalk
<1>6. s + n <= o /\ (~trouble => s + n = o)
  BY <1>1, <1>5 DEF ChannelsKept
<1>7. /\ b = a => n = m + 1
      /\ b # a => m <= n /\ (~trouble => m = n)
  <2>1. CASE b = a
    BY <1>4, <1>5, <2>1, TellingMoves
  <2>2. CASE b # a
    BY <1>4, <1>5, <2>2, TellingMoves
  <2>. QED
    BY <2>1, <2>2
<1>8. PICK k \in Agents : k = job[w].who
  BY <1>2, <1>3, CallFacts
<1>9. PICK r \in Int :
        /\ r = A!SumFunction(told'[b])
        /\ b # a => r = s
        /\ b = a => r = s + 1 \/ (r = s /\ trouble)
  <2>1. CASE trouble /\ UNCHANGED told
    BY <1>5, <2>1
  <2>2. CASE told' = [told EXCEPT ![a][k] = @ + 1]
    <3>0. told \in [Agents -> [Agents -> Nat]]
      BY <1>2 DEF RowsOfTalk
    <3>1. /\ told[b] \in [Agents -> Int] /\ told'[b] \in [Agents -> Int]
          /\ told'[a][k] = told[a][k] + 1 /\ told[a][k] \in Nat
          /\ \A x \in Agents \ {a} : told'[x] = told[x]
          /\ \A x \in Agents \ {k} : told'[a][x] = told[a][x]
      BY <1>4, <2>2, <3>0, OneMore
    <3>2. CASE b # a
      <4>1. told'[b] = told[b]
        BY <3>1, <3>2
      <4>. QED
        BY <1>5, <3>2, <4>1
    <3>3. CASE b = a
      <4>1. /\ \A x \in Agents \ {k} : told'[b][x] = told[b][x]
            /\ told'[b][k] = told[b][k] + 1 /\ told[b][k] \in Nat
        BY <3>1, <3>3
      <4>2. A!SumFunction(told'[b]) = A!SumFunction(told[b]) + (told'[b][k] - told[b][k])
        BY <3>1, <4>1, CommonsConstants, CommonsSumEdit
      <4>. QED
        BY <1>5, <3>3, <4>1, <4>2
    <3>. QED
      BY <3>2, <3>3
  <2>. QED
    BY <1>3, <1>8, <2>1, <2>2
<1>10. r + m <= o /\ (~trouble => r + m = o)
  <2>1. CASE b = a
    BY <1>6, <1>7, <1>9, <2>1
  <2>2. CASE b # a
    BY <1>6, <1>7, <1>9, <2>2
  <2>. QED
    BY <2>1, <2>2
<1>. QED
  BY <1>2, <1>5, <1>9, <1>10

Messages == [from : Agents, to : Agents, read : BOOLEAN]

LEMMA BadgeIs ==
  ASSUME NEW a, NEW b
  PROVE  /\ Badge(a, b) \in {0, 1}
         /\ Badge(a, b) = 1 <=> \E w \in Telling(a) : job[w].who = b
BY DEF Badge

LEMMA BadgeIsNext ==
  ASSUME NEW a, NEW b
  PROVE  /\ Badge(a, b)' \in {0, 1}
         /\ Badge(a, b)' = 1 <=> \E w \in Telling(a)' : job'[w].who = b
BY DEF Badge

LEMMA UnseenIs ==
  ASSUME RowsOfTalk, NEW a, NEW b
  PROVE  IsFiniteSet(Unseen(a, b)) /\ Cardinality(Unseen(a, b)) \in Nat
<1>1. Len(messages) \in Nat
  BY DEF RowsOfTalk
<1>2. IsFiniteSet(1..Len(messages)) /\ Unseen(a, b) \in SUBSET (1..Len(messages))
  BY <1>1, FS_Interval DEF Unseen
<1>. QED
  BY <1>2, FS_Subset, FS_CardinalityType

LEMMA PeersTalk == A!Peers \subseteq Agents
BY CommonsConstants DEF A!Peers

LEMMA SendKeeps ==
  ASSUME CommonsTyped, CallsApart, ThreadsKept, corner = "threads", NEW w \in Workers,
         NEW from \in Agents, NEW to \in Agents,
         UNCHANGED <<corner, overlap, trouble>>, A!SendDirectMessage(w, from, to)
  PROVE  JobsTyped' /\ CallsApart' /\ RowsOfTalk' /\ ThreadsKept'
<1>1. JobsTyped /\ RowsOfTalk
  BY DEF CommonsTyped
<1>2. /\ messages' = Append(messages, [from |-> from, to |-> to, read |-> FALSE])
      /\ A!MayBegin(w, from) /\ UNCHANGED <<owed, shown, told, unread>>
      /\ A!Begin(w, A!AfterNotices([A!Call("dm", from) EXCEPT !.tell = {to}]))
  BY DEF A!SendDirectMessage, A!notices
<1>3. PICK c \in A!Calls : /\ A!Begin(w, c) /\ c.do = "dm" /\ c.at = "notify" /\ c.who = from
                           /\ c.tell = {to} /\ c.seats = {}
  <2>1. PICK b : b = A!Call("dm", from)
    OBVIOUS
  <2>2. b \in A!Calls /\ b.do = "dm" /\ b.who = from /\ b.seats = {}
    BY <2>1, BegunFacts
  <2>3. PICK d : d = [b EXCEPT !.tell = {to}]
    OBVIOUS
  <2>4. d \in A!Calls /\ d.do = "dm" /\ d.tell = {to} /\ d.who = from /\ d.seats = {}
    BY <2>2, <2>3 DEF A!Calls
  <2>5. PICK e : e = A!AfterNotices(d)
    OBVIOUS
  <2>6. /\ e \in A!Calls /\ e.do = "dm" /\ e.at = "notify" /\ e.who = from
        /\ e.tell = {to} /\ e.seats = {}
    <3>1. d.tell \cup d.seats # {}
      BY <2>4
    <3>. QED
      BY <2>4, <2>5, <3>1, AfterFacts
  <2>7. A!Begin(w, e)
    BY <1>2, <2>1, <2>3, <2>5
  <2>. QED
    BY <2>6, <2>7
<1>4. /\ JobsTyped' /\ CallsApart' /\ job'[w] = c /\ c # None
      /\ \A v \in Workers \ {w} : job'[v] = job[v]
      /\ overlap = "none" => \A v \in Workers : job[v] = None
  BY <1>1, <1>2, <1>3, NewCall
<1>5. PICK n \in Nat : n = Len(messages)
  BY <1>1 DEF RowsOfTalk
<1>6. /\ messages' \in Seq(Messages) /\ Len(messages') = n + 1
      /\ \A i \in 1..n : messages'[i] = messages[i]
      /\ messages'[n + 1] = [from |-> from, to |-> to, read |-> FALSE]
  <2>1. [from |-> from, to |-> to, read |-> FALSE] \in Messages
    BY DEF Messages
  <2>2. messages \in Seq(Messages)
    BY <1>1 DEF RowsOfTalk, Messages
  <2>. QED
    BY <1>2, <1>5, <2>1, <2>2, AppendProperties
<1>7. /\ messages'[n + 1].from = from /\ messages'[n + 1].to = to
      /\ messages'[n + 1].read = FALSE
  BY <1>6
<1>8. RowsOfTalk'
  BY <1>1, <1>2, <1>6 DEF RowsOfTalk, Messages
<1>9. ASSUME overlap = "none"
      PROVE  /\ Len(messages') <= ThreadLimit =>
                  /\ \A i \in 1..Len(messages') :
                       messages'[i].read => <<messages'[i].to, i>> \in shown'
                  /\ \A v \in Workers : ~A!At(v, "read", "mark")'
             /\ ~trouble => \A a, b \in Agents :
                  unread'[a][b] + Badge(a, b)' <= Cardinality(Unseen(a, b)')
  <2>1. ASSUME NEW v \in Workers PROVE ~A!At(v, "read", "mark")'
    BY <1>3, <1>4, <1>9 DEF A!At
  <2>2. ASSUME Len(messages') <= ThreadLimit, NEW i \in 1..Len(messages'), messages'[i].read
        PROVE  <<messages'[i].to, i>> \in shown'
    <3>1. i \in 1..n /\ n <= ThreadLimit
      BY <1>5, <1>6, <1>7, <2>2, CommonsConstants
    <3>. QED
      BY <1>2, <1>5, <1>6, <1>9, <2>2, <3>1, corner = "threads" DEF ThreadsKept
  <2>3. ASSUME ~trouble, NEW a \in Agents, NEW b \in Agents
        PROVE  unread'[a][b] + Badge(a, b)' <= Cardinality(Unseen(a, b)')
    <3>1. \A x : Telling(x) = {} /\ ~Retires(x)
      BY <1>4, <1>9 DEF Telling, Retires, A!At
    <3>2. PICK u \in Nat, s \in Nat : u = unread[a][b] /\ s = Cardinality(Unseen(a, b))
      BY <1>1, UnseenIs DEF RowsOfTalk
    <3>3. u <= s
      <4>1. unread[a][b] + Badge(a, b) <= Cardinality(Unseen(a, b))
        BY <1>9, <2>3, <3>1, corner = "threads" DEF ThreadsKept
      <4>2. Badge(a, b) = 0
        BY <3>1, BadgeIs
      <4>. QED
        BY <3>2, <4>1, <4>2
    <3>4. CASE a = to /\ b = from
      <4>1. Unseen(a, b)' = Unseen(a, b) \cup {n + 1} /\ n + 1 \notin Unseen(a, b)
        <5>1. \A i : i \in 1..(n + 1) <=> i \in 1..n \/ i = n + 1
          OBVIOUS
        <5>2. n + 1 \notin 1..n
          OBVIOUS
        <5>. QED
          BY <1>5, <1>6, <1>7, <3>4, <5>1, <5>2 DEF Unseen
      <4>2. Cardinality(Unseen(a, b)') = s + 1
        BY <1>1, <3>2, <4>1, UnseenIs, FS_AddElement
      <4>3. Badge(a, b)' <= 1 /\ Badge(a, b)' \in Nat
        BY BadgeIsNext
      <4>. QED
        BY <1>2, <3>2, <3>3, <4>2, <4>3
    <3>5. CASE ~(a = to /\ b = from)
      <4>1. Unseen(a, b)' = Unseen(a, b)
        <5>1. \A i : i \in 1..(n + 1) <=> i \in 1..n \/ i = n + 1
          OBVIOUS
        <5>. QED
          BY <1>5, <1>6, <1>7, <3>5, <5>1 DEF Unseen
      <4>2. Badge(a, b)' = 0
        <5>1. \A v \in Telling(a)' : job'[v].who # b
          BY <1>3, <1>4, <1>9, <3>5 DEF Telling
        <5>. QED
          BY <5>1, BadgeIsNext
      <4>. QED
        BY <1>2, <3>2, <3>3, <4>1, <4>2
    <3>. QED
      BY <3>4, <3>5
  <2>. QED
    BY <2>1, <2>2, <2>3
<1>10. ThreadsKept'
  BY <1>9, corner = "threads" DEF ThreadsKept
<1>. QED
  BY <1>4, <1>8, <1>10

LEMMA ListKeeps ==
  ASSUME CommonsTyped, CallsApart, ThreadsKept, corner = "threads", NEW w \in Workers,
         NEW a \in Agents,
         UNCHANGED <<corner, overlap, trouble>>, A!GetDmThread(w, a) \/ A!ReadThread(w, a)
  PROVE  JobsTyped' /\ CallsApart' /\ RowsOfTalk' /\ ThreadsKept'
<1>1. JobsTyped /\ RowsOfTalk
  BY DEF CommonsTyped
<1>2. /\ A!ListThread(a) /\ UNCHANGED <<owed, messages, told, unread>>
      /\ \/ A!Repeat(w)
         \/ A!MayBegin(w, a) /\ A!Begin(w, Fresh("read", a, "mark"))
  BY DEF A!GetDmThread, A!ReadThread, A!notices, Fresh
<1>3. /\ \A p \in shown : p \in shown'
      /\ Len(messages) <= ThreadLimit =>
           \A i \in 1..Len(messages) : <<a, i>> \in shown'
  <2>1. PICK n \in Nat : n = Len(messages)
    BY <1>1 DEF RowsOfTalk
  <2>2. n <= ThreadLimit => A!Min({n, ThreadLimit}) = n
    <3>1. HAVE n <= ThreadLimit
    <3>2. ThreadLimit \in Nat
      BY CommonsConstants
    <3>. DEFINE S == {n, ThreadLimit}
    <3>3. n \in S /\ \A y \in S : n <= y
      BY <3>1, <3>2
    <3>4. \A k \in S : (\A y \in S : k <= y) => k = n
      BY <3>1, <3>2
    <3>. QED
      BY <3>3, <3>4 DEF A!Min
  <2>. QED
    BY <1>2, <2>1, <2>2 DEF A!ListThread
<1>4. RowsOfTalk'
  BY <1>1, <1>2 DEF RowsOfTalk
<1>5. \A x, y : Unseen(x, y)' = Unseen(x, y)
  BY <1>2 DEF Unseen
<1>6. CASE A!Repeat(w)
  <2>1. JobsTyped' /\ CallsApart' /\ job' = job
    BY <1>1, <1>6, Repeated
  <2>2. /\ \A v : A!At(v, "read", "mark")' <=> A!At(v, "read", "mark")
        /\ \A x : (Retires(x)' <=> Retires(x)) /\ Telling(x)' = Telling(x)
    BY <2>1 DEF A!At, Retires, Telling
  <2>3. \A x, y : Badge(x, y)' = Badge(x, y)
    BY <2>1, <2>2 DEF Badge
  <2>4. ThreadsKept'
    BY <1>2, <1>3, <1>5, <2>1, <2>2, <2>3, corner = "threads" DEF ThreadsKept
  <2>. QED
    BY <1>4, <2>1, <2>4
<1>7. CASE A!MayBegin(w, a) /\ A!Begin(w, Fresh("read", a, "mark"))
  <2>1. PICK c \in A!Calls : /\ A!Begin(w, c) /\ c.do = "read" /\ c.at = "mark" /\ c.who = a
    BY <1>7, FreshFacts
  <2>2. /\ JobsTyped' /\ CallsApart' /\ job'[w] = c /\ c # None
        /\ \A v \in Workers \ {w} : job'[v] = job[v]
        /\ overlap = "none" => \A v \in Workers : job[v] = None
    BY <1>1, <1>7, <2>1, NewCall
  <2>3. ASSUME overlap = "none"
        PROVE  /\ Len(messages') <= ThreadLimit =>
                    /\ \A i \in 1..Len(messages') :
                         messages'[i].read => <<messages'[i].to, i>> \in shown'
                    /\ \A v \in Workers : A!At(v, "read", "mark")' =>
                         \A i \in 1..Len(messages') : messages'[i].to = job'[v].who =>
                           <<messages'[i].to, i>> \in shown'
               /\ ~trouble => \A x, y \in Agents :
                    unread'[x][y] + Badge(x, y)' <= Cardinality(Unseen(x, y)')
    <3>1. Len(messages) <= ThreadLimit => \A i \in 1..Len(messages) :
            messages[i].read => <<messages[i].to, i>> \in shown
      BY <2>3, corner = "threads" DEF ThreadsKept
    <3>2. \A v \in Workers : A!At(v, "read", "mark")' => v = w
      BY <2>2, <2>3 DEF A!At
    <3>3. \A x : Telling(x) = {} /\ Telling(x)' = {} /\ ~Retires(x)
      BY <2>1, <2>2, <2>3 DEF Telling, Retires, A!At
    <3>4. \A x, y : Badge(x, y) = 0 /\ Badge(x, y)' = 0
      BY <3>3, BadgeIs, BadgeIsNext
    <3>5. ~trouble => \A x, y \in Agents : unread[x][y] + Badge(x, y) <= Cardinality(Unseen(x, y))
      BY <2>3, <3>3, corner = "threads" DEF ThreadsKept
    <3>6. ~trouble => \A x, y \in Agents :
            unread'[x][y] + Badge(x, y)' <= Cardinality(Unseen(x, y)')
      BY <1>2, <1>5, <3>4, <3>5
    <3>. QED
      BY <1>2, <1>3, <2>1, <2>2, <3>1, <3>2, <3>6
  <2>4. ThreadsKept'
    BY <2>3, corner = "threads" DEF ThreadsKept
  <2>. QED
    BY <1>4, <2>2, <2>4
<1>. QED
  BY <1>2, <1>6, <1>7

\* The thread is marked read only after it was listed.
LEMMA MarkKeeps ==
  ASSUME CommonsTyped, CallsApart, ThreadsKept, corner = "threads", NEW w \in Workers,
         UNCHANGED <<corner, overlap, trouble>>, A!MarkThreadRead(w)
  PROVE  JobsTyped' /\ CallsApart' /\ RowsOfTalk' /\ ThreadsKept'
<1>1. JobsTyped /\ RowsOfTalk
  BY DEF CommonsTyped
<1>2. /\ job[w] # None /\ job[w].do = "read" /\ job[w].at = "mark"
      /\ UNCHANGED <<begun, owed, shown, told, unread>>
  BY DEF A!MarkThreadRead, A!At, A!notices
<1>3. PICK r \in Agents, n \in Nat : r = job[w].who /\ n = Len(messages)
  <2>1. job[w].who \in Agents
    BY <1>1, <1>2, CallFacts
  <2>2. Len(messages) \in Nat
    BY <1>1 DEF RowsOfTalk
  <2>. QED
    BY <2>1, <2>2
<1>4. CASE trouble /\ A!Return(w) /\ UNCHANGED messages
  <2>1. /\ JobsTyped' /\ CallsApart' /\ job'[w] = None
        /\ \A v \in Workers \ {w} : job'[v] = job[v]
    BY <1>1, <1>2, <1>4, NextStatement DEF A!Return
  <2>2. \A v \in Workers : A!At(v, "read", "mark")' =>
          A!At(v, "read", "mark") /\ job'[v] = job[v]
    BY <2>1 DEF A!At
  <2>3. ThreadsKept'
    BY <1>2, <1>4, <2>2, corner = "threads" DEF ThreadsKept
  <2>. QED
    BY <1>1, <1>2, <1>4, <2>1, <2>3 DEF RowsOfTalk
<1>5. CASE /\ messages' = [i \in 1..Len(messages) |->
                IF messages[i].to = job[w].who THEN [messages[i] EXCEPT !.read = TRUE]
                ELSE messages[i]]
           /\ A!Continue(w, [job[w] EXCEPT !.at = "badges"])
  <2>1. PICK d \in A!Calls : /\ d = [job[w] EXCEPT !.at = "badges"]
                             /\ d.do = "read" /\ d.at = "badges" /\ d.who = r
    <3>1. PICK c \in A!Calls : c = job[w]
      BY <1>1, <1>2, CallFacts
    <3>2. PICK d : d = [c EXCEPT !.at = "badges"]
      OBVIOUS
    <3>3. d \in A!Calls /\ d.do = c.do /\ d.at = "badges" /\ d.who = c.who
      BY <3>2 DEF A!Calls
    <3>. QED
      BY <1>2, <1>3, <3>1, <3>2, <3>3
  <2>2. /\ JobsTyped' /\ CallsApart' /\ job'[w] = d
        /\ \A v \in Workers \ {w} : job'[v] = job[v]
        /\ overlap = "none" => \A v \in Workers \ {w} : job[v] = None
    BY <1>1, <1>2, <1>3, <1>5, <2>1, NextStatement DEF A!Continue
  <2>3. d # None
    BY NoCallIsNone
  <2>4. /\ messages' \in Seq(Messages) /\ Len(messages') = n
        /\ \A i \in 1..n : /\ messages'[i].to = messages[i].to
                           /\ messages'[i].from = messages[i].from
                           /\ messages[i].to # r => messages'[i] = messages[i]
    <3>1. messages \in Seq(Messages)
      BY <1>1 DEF RowsOfTalk, Messages
    <3>2. \A i \in 1..n : messages[i] \in Messages
      BY <1>3, <3>1
    <3>3. \A m \in Messages : LET k == [m EXCEPT !.read = TRUE]
                              IN k \in Messages /\ k.to = m.to /\ k.from = m.from
      BY DEF Messages
    <3>4. /\ DOMAIN messages' = 1..n
          /\ \A i \in 1..n : messages'[i] = IF messages[i].to = r
                                            THEN [messages[i] EXCEPT !.read = TRUE]
                                            ELSE messages[i]
      BY <1>3, <1>5
    <3>5. ASSUME NEW i \in 1..n
          PROVE  /\ messages'[i] \in Messages /\ messages'[i].to = messages[i].to
                 /\ messages'[i].from = messages[i].from
                 /\ messages[i].to # r => messages'[i] = messages[i]
      <4>1. CASE messages[i].to = r
        BY <3>2, <3>3, <3>4, <4>1
      <4>2. CASE messages[i].to # r
        BY <3>2, <3>4, <4>2
      <4>. QED
        BY <4>1, <4>2
    <3>6. messages' \in [1..n -> Messages]
      BY <1>3, <1>5, <3>4, <3>5
    <3>. QED
      BY <3>5, <3>6
  <2>5. RowsOfTalk'
    BY <1>1, <1>2, <2>4 DEF RowsOfTalk, Messages
  <2>6. ASSUME overlap = "none"
        PROVE  /\ Len(messages') <= ThreadLimit =>
                    /\ \A i \in 1..Len(messages') :
                         messages'[i].read => <<messages'[i].to, i>> \in shown'
                    /\ \A v \in Workers : ~A!At(v, "read", "mark")'
               /\ ~trouble => \A x, y \in Agents :
                    Retires(x)' \/ unread'[x][y] + Badge(x, y)' <= Cardinality(Unseen(x, y)')
    <3>1. ASSUME NEW v \in Workers PROVE ~A!At(v, "read", "mark")'
      BY <2>1, <2>2, <2>6 DEF A!At
    <3>2. ASSUME Len(messages') <= ThreadLimit, NEW i \in 1..Len(messages'), messages'[i].read
          PROVE  <<messages'[i].to, i>> \in shown'
      <4>1. i \in 1..n /\ n <= ThreadLimit
        BY <2>4, <3>2
      <4>2. CASE messages[i].to = r
        <5>1. A!At(w, "read", "mark")
          BY <1>2 DEF A!At
        <5>2. <<messages[i].to, i>> \in shown
          BY <1>3, <2>6, <4>1, <4>2, <5>1, corner = "threads" DEF ThreadsKept
        <5>. QED
          BY <1>2, <2>4, <4>1, <5>2
      <4>3. CASE messages[i].to # r
        <5>1. messages[i].read
          BY <2>4, <3>2, <4>1, <4>3
        <5>2. <<messages[i].to, i>> \in shown
          BY <1>3, <2>6, <4>1, <5>1, corner = "threads" DEF ThreadsKept
        <5>. QED
          BY <1>2, <2>4, <4>1, <5>2
      <4>. QED
        BY <4>2, <4>3
    <3>3. ASSUME ~trouble, NEW x \in Agents, NEW y \in Agents
          PROVE  Retires(x)' \/ unread'[x][y] + Badge(x, y)' <= Cardinality(Unseen(x, y)')
      <4>1. CASE x = r
        <5>1. A!At(w, "read", "badges")' /\ job'[w].who = x
          BY <2>1, <2>2, <2>3, <4>1 DEF A!At
        <5>. QED
          BY <5>1 DEF Retires
      <4>2. CASE x # r
        <5>1. Telling(x) = {} /\ Telling(x)' = {} /\ ~Retires(x)
          <6>1. /\ \A v \in Workers \ {w} : job[v] = None /\ job'[v] = None
                /\ job[w].at = "mark" /\ job'[w].at = "badges"
            BY <1>2, <2>1, <2>2, <2>6
          <6>2. Telling(x) = {} /\ Telling(x)' = {}
            BY <6>1 DEF Telling
          <6>3. ~Retires(x)
            BY <6>1 DEF Retires, A!At
          <6>. QED
            BY <6>2, <6>3
        <5>2. Badge(x, y) = 0 /\ Badge(x, y)' = 0
          BY <5>1, BadgeIs, BadgeIsNext
        <5>3. unread[x][y] + Badge(x, y) <= Cardinality(Unseen(x, y))
          BY <2>6, <3>3, <5>1, corner = "threads" DEF ThreadsKept
        <5>4. Unseen(x, y)' = Unseen(x, y)
          BY <1>3, <2>4, <4>2 DEF Unseen
        <5>. QED
          BY <1>2, <5>2, <5>3, <5>4
      <4>. QED
        BY <4>1, <4>2
    <3>. QED
      BY <3>1, <3>2, <3>3
  <2>7. ThreadsKept'
    BY <2>6, corner = "threads" DEF ThreadsKept
  <2>. QED
    BY <2>2, <2>5, <2>7
<1>. QED
  BY <1>4, <1>5 DEF A!MarkThreadRead

LEMMA RetireKeeps ==
  ASSUME CommonsTyped, CallsApart, ThreadsKept, corner = "threads", NEW w \in Workers,
         UNCHANGED <<corner, overlap, trouble>>, A!MarkDmNotificationsRead(w)
  PROVE  JobsTyped' /\ CallsApart' /\ RowsOfTalk' /\ ThreadsKept'
<1>1. JobsTyped /\ RowsOfTalk
  BY DEF CommonsTyped
<1>2. /\ job[w] # None /\ job[w].do = "read" /\ job[w].at = "badges"
      /\ UNCHANGED <<begun, owed, messages, shown, told>>
      /\ \/ unread' = [unread EXCEPT ![job[w].who] = [from \in Agents |-> 0]]
         \/ trouble /\ UNCHANGED unread
  BY DEF A!MarkDmNotificationsRead, A!At, A!talk
<1>3. PICK r \in Agents : r = job[w].who
  BY <1>1, <1>2, CallFacts
<1>4. /\ JobsTyped' /\ CallsApart' /\ job'[w] = None
      /\ \A v \in Workers \ {w} : job'[v] = job[v]
      /\ overlap = "none" => \A v \in Workers \ {w} : job[v] = None
  BY <1>1, <1>2, NextStatement DEF A!MarkDmNotificationsRead, A!Return
<1>5. /\ unread' \in [Agents -> [Agents -> Nat]]
      /\ \A x, y \in Agents : unread'[x][y] = unread[x][y] \/ (x = r /\ unread'[x][y] = 0)
      /\ ~trouble => \A y \in Agents : unread'[r][y] = 0
  <2>1. unread \in [Agents -> [Agents -> Nat]]
    BY <1>1 DEF RowsOfTalk
  <2>2. [from \in Agents |-> 0] \in [Agents -> Nat]
    OBVIOUS
  <2>. QED
    BY <1>2, <1>3, <2>1, <2>2
<1>6. RowsOfTalk'
  <2>1. ASSUME NEW x \in Agents, NEW y \in Agents PROVE unread'[x][y] <= told[x][y]
    <3>1. unread[x][y] <= told[x][y] /\ told[x][y] \in Nat
      BY <1>1 DEF RowsOfTalk
    <3>. QED
      BY <1>5, <3>1
  <2>. QED
    BY <1>1, <1>2, <1>5, <2>1 DEF RowsOfTalk
<1>7. \A v \in Workers : A!At(v, "read", "mark")' => A!At(v, "read", "mark") /\ job'[v] = job[v]
  BY <1>4 DEF A!At
<1>8. ASSUME overlap = "none", ~trouble, NEW x \in Agents, NEW y \in Agents
      PROVE  unread'[x][y] + Badge(x, y)' <= Cardinality(Unseen(x, y)')
  <2>1. Telling(x) = {} /\ Telling(x)' = {} /\ (x # r => ~Retires(x))
    BY <1>2, <1>3, <1>4, <1>8 DEF Telling, Retires, A!At
  <2>2. Badge(x, y) = 0 /\ Badge(x, y)' = 0
    BY <2>1, BadgeIs, BadgeIsNext
  <2>3. Unseen(x, y)' = Unseen(x, y) /\ Cardinality(Unseen(x, y)) \in Nat
    <3>1. Unseen(x, y)' = Unseen(x, y)
      BY <1>2 DEF Unseen
    <3>. QED
      BY <1>1, <3>1, UnseenIs
  <2>4. CASE x = r
    BY <1>5, <1>8, <2>2, <2>3, <2>4
  <2>5. CASE x # r
    <3>1. unread[x][y] + Badge(x, y) <= Cardinality(Unseen(x, y))
      BY <1>8, <2>1, <2>5, corner = "threads" DEF ThreadsKept
    <3>2. unread'[x][y] = unread[x][y]
      BY <1>5, <2>5
    <3>. QED
      BY <2>2, <2>3, <3>1, <3>2
  <2>. QED
    BY <2>4, <2>5
<1>9. ThreadsKept'
  BY <1>2, <1>7, <1>8, corner = "threads" DEF ThreadsKept
<1>. QED
  BY <1>4, <1>6, <1>9

LEMMA BadgeReadKeeps ==
  ASSUME CommonsTyped, CallsApart, ThreadsKept, NEW a \in Agents, NEW b \in Agents,
         A!MarkNotificationRead(a, b)
  PROVE  JobsTyped' /\ CallsApart' /\ RowsOfTalk' /\ ThreadsKept'
<1>1. JobsTyped /\ RowsOfTalk /\ corner = "threads"
  BY DEF CommonsTyped, A!MarkNotificationRead
<1>2. /\ UNCHANGED <<corner, overlap, trouble, job, begun, owed, messages, shown, told>>
      /\ unread' = [unread EXCEPT ![a][b] = @ - 1] /\ unread[a][b] > 0
  BY DEF A!MarkNotificationRead, A!fixed, A!talk
<1>3. JobsTyped' /\ CallsApart'
  BY <1>1, <1>2 DEF JobsTyped, CallsApart
<1>4. /\ unread' \in [Agents -> [Agents -> Nat]]
      /\ \A x, y \in Agents : unread'[x][y] <= unread[x][y]
  <2>1. unread \in [Agents -> [Agents -> Nat]]
    BY <1>1 DEF RowsOfTalk
  <2>2. PICK h : h = [unread[a] EXCEPT ![b] = unread[a][b] - 1]
    OBVIOUS
  <2>3. unread[a] \in [Agents -> Nat] /\ unread[a][b] - 1 \in Nat
    BY <1>2, <2>1
  <2>4. h \in [Agents -> Nat] /\ \A y \in Agents : h[y] <= unread[a][y]
    BY <2>2, <2>3
  <2>5. unread' = [unread EXCEPT ![a] = h]
    BY <1>2, <2>2
  <2>6. unread' \in [Agents -> [Agents -> Nat]] /\ unread'[a] = h
        /\ \A x \in Agents \ {a} : unread'[x] = unread[x]
    BY <2>1, <2>4, <2>5
  <2>7. ASSUME NEW x \in Agents, NEW y \in Agents PROVE unread'[x][y] <= unread[x][y]
    BY <2>1, <2>4, <2>6
  <2>. QED
    BY <2>6, <2>7
<1>5. RowsOfTalk'
  <2>1. ASSUME NEW x \in Agents, NEW y \in Agents PROVE unread'[x][y] <= told[x][y]
    <3>1. /\ unread[x][y] <= told[x][y] /\ told[x][y] \in Nat /\ unread[x][y] \in Nat
          /\ unread'[x][y] <= unread[x][y] /\ unread'[x][y] \in Nat
      BY <1>1, <1>4 DEF RowsOfTalk
    <3>. QED
      BY <3>1
  <2>. QED
    BY <1>1, <1>2, <1>4, <2>1 DEF RowsOfTalk
<1>6. /\ \A v : A!At(v, "read", "mark")' <=> A!At(v, "read", "mark")
      /\ \A x : (Retires(x)' <=> Retires(x)) /\ Telling(x)' = Telling(x)
      /\ \A x, y : Unseen(x, y)' = Unseen(x, y)
  BY <1>2 DEF A!At, Retires, Telling, Unseen
<1>7. ASSUME overlap = "none", ~trouble, NEW x \in Agents, NEW y \in Agents
      PROVE  Retires(x)' \/ unread'[x][y] + Badge(x, y)' <= Cardinality(Unseen(x, y)')
  <2>1. Retires(x) \/ unread[x][y] + Badge(x, y) <= Cardinality(Unseen(x, y))
    BY <1>1, <1>7 DEF ThreadsKept
  <2>2. Badge(x, y)' = Badge(x, y) /\ Badge(x, y) \in Nat
    BY <1>2, <1>6, BadgeIs DEF Badge
  <2>3. /\ Cardinality(Unseen(x, y)) \in Nat /\ unread[x][y] \in Nat /\ unread'[x][y] \in Nat
        /\ unread'[x][y] <= unread[x][y]
    BY <1>1, <1>4, UnseenIs DEF RowsOfTalk
  <2>. QED
    BY <1>6, <2>1, <2>2, <2>3
<1>8. ThreadsKept'
  BY <1>1, <1>2, <1>6, <1>7 DEF ThreadsKept
<1>. QED
  BY <1>3, <1>5, <1>8

\* A badge that is given was about to be.
LEMMA ThreadTold ==
  ASSUME CommonsTyped, CallsApart, ThreadsKept, NEW w \in Workers,
         UNCHANGED <<corner, overlap, trouble>>, A!CreateNotification(w)
  PROVE  ThreadsKept'
<1>1. JobsTyped /\ RowsOfTalk /\ UNCHANGED <<messages, shown>>
  BY DEF CommonsTyped, A!CreateNotification, A!talk
<1>2. CASE corner # "threads"
  BY <1>1, <1>2 DEF ThreadsKept
<1>3. CASE corner = "threads" /\ overlap # "none"
  BY <1>1, <1>3 DEF ThreadsKept
<1>4. CASE corner = "threads" /\ overlap = "none"
  <2>1. PICK a \in job[w].tell \cup job[w].seats :
           \E d \in A!Calls \cup {None} :
             /\ a \in Agents
             /\ job[w] # None /\ job[w].at = "notify" /\ job'[w] = d
             /\ \A v \in Workers \ {w} : job'[v] = job[v]
             /\ \A v \in Workers \ {w} : job[v] = None
             /\ d # None =>
                  /\ d.at \in {"notify", "rate"} /\ d.who = job[w].who
                  /\ d.tell = job[w].tell \ {a} /\ d.seats = job[w].seats \ {a}
             /\ ~trouble => unread' = [unread EXCEPT ![a][job[w].who] = @ + 1]
    BY <1>1, <1>4, NoticeMoves
  <2>2. /\ a \in Agents /\ \A v \in Workers \ {w} : job[v] = None /\ job'[v] = None
        /\ w \in Telling(a) /\ Telling(a)' = {} /\ job[w] # None
        /\ \A x : Telling(x)' \subseteq Telling(x)
        /\ \A v \in Workers : job'[v] # None => job'[v].who = job[v].who
        /\ \A x : ~Retires(x) /\ ~Retires(x)'
        /\ \A v \in Workers : ~A!At(v, "read", "mark")'
    BY <2>1 DEF Telling, Retires, A!At
  <2>3. PICK k \in Agents : k = job[w].who
    BY <1>1, <2>2, CallFacts
  <2>4. ASSUME ~trouble, NEW x \in Agents, NEW y \in Agents
        PROVE  unread'[x][y] + Badge(x, y)' <= Cardinality(Unseen(x, y)')
    <3>1. unread[x][y] + Badge(x, y) <= Cardinality(Unseen(x, y))
      BY <1>4, <2>2, <2>4 DEF ThreadsKept
    <3>2. Unseen(x, y)' = Unseen(x, y) /\ Cardinality(Unseen(x, y)) \in Nat
      <4>1. Unseen(x, y)' = Unseen(x, y)
        BY <1>1 DEF Unseen
      <4>. QED
        BY <1>1, <4>1, UnseenIs
    <3>3. /\ unread[x][y] \in Nat /\ unread'[a][k] = unread[a][k] + 1
          /\ x # a \/ y # k => unread'[x][y] = unread[x][y]
      <4>1. unread \in [Agents -> [Agents -> Nat]]
        BY <1>1 DEF RowsOfTalk
      <4>2. unread' = [unread EXCEPT ![a][k] = @ + 1]
        BY <2>1, <2>3, <2>4
      <4>. QED
        BY <2>2, <4>1, <4>2, OneMore
    <3>4. CASE x = a /\ y = k
      <4>1. Badge(x, y) = 1
        BY <2>2, <2>3, <3>4, BadgeIs
      <4>2. Badge(x, y)' = 0
        BY <2>2, <3>4, BadgeIsNext
      <4>. QED
        BY <3>1, <3>2, <3>3, <3>4, <4>1, <4>2
    <3>5. CASE ~(x = a /\ y = k)
      <4>1. Badge(x, y)' = 1 => Badge(x, y) = 1
        <5>1. HAVE Badge(x, y)' = 1
        <5>2. PICK v \in Telling(x)' : job'[v].who = y
          BY <5>1, BadgeIsNext
        <5>3. v \in Telling(x) /\ job[v].who = y
          BY <2>2, <5>2 DEF Telling
        <5>. QED
          BY <5>3, BadgeIs
      <4>2. Badge(x, y)' \in {0, 1} /\ Badge(x, y) \in {0, 1}
        BY BadgeIs, BadgeIsNext
      <4>. QED
        BY <3>1, <3>2, <3>3, <3>5, <4>1, <4>2
    <3>. QED
      BY <3>4, <3>5
  <2>5. Len(messages') <= ThreadLimit => \A i \in 1..Len(messages') :
          messages'[i].read => <<messages'[i].to, i>> \in shown'
    BY <1>1, <1>4 DEF ThreadsKept
  <2>. QED
    BY <1>4, <2>2, <2>4, <2>5 DEF ThreadsKept
<1>. QED
  BY <1>2, <1>3, <1>4

FreshRead(do, a, at, read) == [A!Call(do, a) EXCEPT !.at = at, !.read = read]

LEMMA FreshReadFacts ==
  ASSUME NEW do \in {"like", "unlike", "comment", "follow", "channel", "dm", "read", "stake",
                     "resolve", "install", "answer"},
         NEW a \in Agents,
         NEW read \in {None} \cup A!Stakes \cup A!Weighing \cup A!Resolving \cup A!Asking
                       \cup A!Installing,
         NEW at \in {"begun", "notify", "count", "mark", "badges", "write", "weigh", "apply",
                     "upsert", "rate", "status"}
  PROVE  LET d == FreshRead(do, a, at, read)
         IN /\ d \in A!Calls /\ d.do = do /\ d.who = a /\ d.at = at
            /\ d.tell = {} /\ d.seats = {} /\ d.read = read
<1>1. PICK c : c = A!Call(do, a)
  OBVIOUS
<1>2. /\ c \in A!Calls /\ c.do = do /\ c.who = a /\ c.at = "begun"
      /\ c.tell = {} /\ c.seats = {} /\ c.read = None
  BY <1>1, BegunFacts
<1>3. PICK d : d = [c EXCEPT !.at = at, !.read = read]
  OBVIOUS
<1>4. /\ d \in A!Calls /\ d.do = do /\ d.who = a /\ d.at = at
      /\ d.tell = {} /\ d.seats = {} /\ d.read = read
  BY <1>2, <1>3 DEF A!Calls
<1>. QED
  BY <1>1, <1>3, <1>4 DEF FreshRead

\* What a stake weighs, and what the stakes weigh that are not in todo.
LEMMA WeightIs ==
  ASSUME RowsOfClaims, NEW a \in Agents, NEW p \in A!Positions
  PROVE  /\ A!Weight(stakes, scores, a)[p] \in Int
         /\ a \notin A!Stakers => A!Weight(stakes, scores, a)[p] = 0
<1>1. A!Weight(stakes, scores, a)[p] =
        IF stakes[a] # None /\ stakes[a].position = p THEN stakes[a].amount * scores[a] ELSE 0
  BY DEF A!Weight
<1>2. scores[a] \in Int /\ (stakes[a] # None => stakes[a].amount \in Int)
  BY DEF RowsOfClaims, A!Stakes
<1>3. stakes[a] # None => stakes[a].amount * scores[a] \in Int
  BY <1>2
<1>4. CASE stakes[a] # None /\ stakes[a].position = p
  BY <1>1, <1>3, <1>4 DEF A!Stakers
<1>5. CASE ~(stakes[a] # None /\ stakes[a].position = p)
  BY <1>1, <1>5
<1>. QED
  BY <1>4, <1>5

Weighs(todos, p) == [a \in Agents |-> IF a \in todos THEN 0 ELSE A!Weight(stakes, scores, a)[p]]

LEMMA WeighsIs ==
  ASSUME RowsOfClaims, NEW todos, NEW p \in A!Positions
  PROVE  /\ Weighs(todos, p) \in [Agents -> Int]
         /\ A!SumFunction(Weighs(todos, p)) \in Int
         /\ Weighed(todos)[p] = A!SumFunction(Weighs(todos, p))
<1>1. Weighs(todos, p) \in [Agents -> Int]
  BY WeightIs DEF Weighs
<1>. QED
  BY <1>1, CommonsSum, CommonsConstants DEF Weighed, Weighs

LEMMA WeighedNone ==
  ASSUME RowsOfClaims PROVE Weighed(A!Stakers) = A!Nothing
<1>1. ASSUME NEW p \in A!Positions PROVE A!SumFunction(Weighs(A!Stakers, p)) = 0
  <2>1. \A a \in Agents : Weighs(A!Stakers, p)[a] = 0
    BY WeightIs DEF Weighs
  <2>. QED
    BY <2>1, WeighsIs, CommonsConstants, CommonsSumZero
<1>2. \A p \in A!Positions : Weighed(A!Stakers)[p] = 0
  BY <1>1, WeighsIs
<1>. QED
  BY <1>2 DEF Weighed, A!Nothing

LEMMA WeighedOne ==
  ASSUME RowsOfClaims, NEW todos \in SUBSET Agents, NEW a \in todos
  PROVE  Weighed(todos \ {a}) = A!Plus(Weighed(todos), A!Weight(stakes, scores, a))
<1>1. ASSUME NEW p \in A!Positions
      PROVE  Weighed(todos \ {a})[p] = Weighed(todos)[p] + A!Weight(stakes, scores, a)[p]
  <2>1. PICK f, h \in [Agents -> Int] : f = Weighs(todos, p) /\ h = Weighs(todos \ {a}, p)
    BY WeighsIs
  <2>2. /\ f[a] = 0 /\ h[a] = A!Weight(stakes, scores, a)[p]
        /\ \A x \in Agents \ {a} : h[x] = f[x]
    BY <2>1 DEF Weighs
  <2>3. A!SumFunction(h) = A!SumFunction(f) + (h[a] - f[a])
    BY <2>2, CommonsConstants, CommonsSumEdit
  <2>4. A!SumFunction(f) \in Int /\ A!Weight(stakes, scores, a)[p] \in Int
    BY <2>1, CommonsConstants, CommonsSum, WeightIs
  <2>5. A!SumFunction(h) = A!SumFunction(f) + A!Weight(stakes, scores, a)[p]
    BY ONLY <2>2, <2>3, <2>4
  <2>. QED
    BY <2>1, <2>5, WeighsIs
<1>. QED
  BY <1>1 DEF Weighed, A!Plus

\* No call that stakes or resolves begins or ends, and no row changes.
LEMMA ClaimsStay ==
  ASSUME ClaimsKept, CallsApart, UNCHANGED <<corner, overlap, trouble>>,
         UNCHANGED <<stakes, scores, confidence, debited, resolved>>,
         NEW w \in Workers, \A v \in Workers \ {w} : job'[v] = job[v],
         \A do, at : at \in {"write", "weigh", "apply"} => ~A!At(w, do, at) /\ ~A!At(w, do, at)'
  PROVE  ClaimsKept'
<1>1. \A v \in Workers : \A do, at : at \in {"write", "weigh", "apply"} =>
        /\ A!At(v, do, at)' <=> A!At(v, do, at)
        /\ A!At(v, do, at) => job'[v] = job[v]
  BY DEF A!At
<1>2. A!Stakers' = A!Stakers /\ \A todos : Weighed(todos)' = Weighed(todos)
  BY DEF A!Stakers, Weighed
<1>. QED
  BY <1>1, <1>2 DEF ClaimsKept

LEMMA ClaimsIdle ==
  ASSUME ClaimsKept, UNCHANGED <<corner, overlap, trouble, job>>,
         UNCHANGED <<stakes, scores, confidence, debited, resolved>>
  PROVE  ClaimsKept'
<1>1. \A v, do, at : A!At(v, do, at)' <=> A!At(v, do, at)
  BY DEF A!At
<1>2. A!Stakers' = A!Stakers /\ \A todos : Weighed(todos)' = Weighed(todos)
  BY DEF A!Stakers, Weighed
<1>. QED
  BY <1>1, <1>2 DEF ClaimsKept

LEMMA StakeKeeps ==
  ASSUME CommonsTyped, CallsApart, ClaimsKept, corner = "claims", NEW w \in Workers,
         NEW a \in Agents, UNCHANGED <<corner, overlap, trouble>>, A!StakeClaim(w, a)
  PROVE  JobsTyped' /\ CallsApart' /\ RowsOfClaims' /\ ClaimsKept'
<1>1. JobsTyped /\ RowsOfClaims
  BY DEF CommonsTyped
<1>2. PICK position \in A!Positions, door \in {"rest", "mcp"} :
        \E amount \in IF door = "rest" THEN StakeAmounts ELSE McpAmounts :
          /\ A!MayBegin(w, a)
          /\ debited' = IF door = "rest" THEN [debited EXCEPT ![a] = @ + amount] ELSE debited
          /\ A!Begin(w, [A!Call("stake", a) EXCEPT !.at = "write",
                 !.read = [position |-> position, amount |-> amount, door |-> door]])
          /\ UNCHANGED <<stakes, scores, confidence, resolved>>
  BY Zenon DEF A!StakeClaim
<1>3. PICK amount \in IF door = "rest" THEN StakeAmounts ELSE McpAmounts :
          /\ A!MayBegin(w, a)
          /\ debited' = IF door = "rest" THEN [debited EXCEPT ![a] = @ + amount] ELSE debited
          /\ A!Begin(w, [A!Call("stake", a) EXCEPT !.at = "write",
                 !.read = [position |-> position, amount |-> amount, door |-> door]])
          /\ UNCHANGED <<stakes, scores, confidence, resolved>>
  BY Zenon, <1>2
<1>4. amount \in Int /\ (door = "rest" => amount \in Nat)
  BY CommonsConstants
<1>5. PICK s \in A!Stakes : /\ s = [position |-> position, amount |-> amount, door |-> door]
                            /\ s.door = door /\ s.amount = amount
  <2>1. PICK s : s = [position |-> position, amount |-> amount, door |-> door]
    OBVIOUS
  <2>2. s \in A!Stakes /\ s.door = door /\ s.amount = amount
    BY <1>4, <2>1 DEF A!Stakes
  <2>. QED
    BY <2>1, <2>2
<1>6. PICK c \in A!Calls : /\ A!Begin(w, c) /\ c.do = "stake" /\ c.at = "write" /\ c.who = a
                           /\ c.read = s
  <2>1. A!Begin(w, FreshRead("stake", a, "write", s))
    BY <1>3, <1>5 DEF FreshRead
  <2>. QED
    BY <2>1, FreshReadFacts
<1>7. /\ JobsTyped' /\ CallsApart' /\ job'[w] = c /\ c # None /\ job[w] = None
      /\ \A v \in Workers \ {w} : job'[v] = job[v]
      /\ overlap = "none" => \A v \in Workers : job[v] = None
  BY <1>1, <1>3, <1>6, NewCall
<1>8. /\ debited' \in [Agents -> Nat] /\ \A b \in Agents : debited'[b] >= debited[b]
      /\ door = "rest" => debited'[a] >= amount
  <2>1. debited \in [Agents -> Nat]
    BY <1>1 DEF RowsOfClaims
  <2>2. CASE door = "rest"
    <3>1. debited' = [debited EXCEPT ![a] = debited[a] + amount] /\ amount \in Nat
      BY <1>3, <1>4, <2>2
    <3>. QED
      BY <2>1, <3>1
  <2>3. CASE door # "rest"
    <3>1. debited' = debited
      BY <1>3, <2>3
    <3>. QED
      BY <2>1, <2>3, <3>1
  <2>. QED
    BY <2>2, <2>3
<1>9. RowsOfClaims'
  BY <1>1, <1>3, <1>8 DEF RowsOfClaims
<1>10. \A b \in A!Stakers' : stakes'[b].door = "rest" => debited'[b] >= stakes'[b].amount
  <2>1. SUFFICES ASSUME NEW b \in A!Stakers, stakes[b].door = "rest"
                 PROVE  debited'[b] >= stakes[b].amount
    BY <1>3 DEF A!Stakers
  <2>2. b \in Agents /\ debited[b] >= stakes[b].amount /\ stakes[b] \in A!Stakes
    BY <1>1, <2>1, corner = "claims" DEF ClaimsKept, A!Stakers, RowsOfClaims
  <2>3. stakes[b].amount \in Int /\ debited[b] \in Nat
    BY <1>1, <2>2 DEF RowsOfClaims, A!Stakes
  <2>. QED
    BY <1>8, <2>2, <2>3
<1>11. \A v \in Workers : A!At(v, "stake", "write")' =>
         /\ job'[v].read \in A!Stakes
         /\ job'[v].read.door = "rest" => debited'[job'[v].who] >= job'[v].read.amount
  <2>1. SUFFICES ASSUME NEW v \in Workers, A!At(v, "stake", "write")'
                 PROVE  /\ job'[v].read \in A!Stakes
                        /\ job'[v].read.door = "rest" =>
                             debited'[job'[v].who] >= job'[v].read.amount
    OBVIOUS
  <2>2. CASE v = w
    BY <1>5, <1>6, <1>7, <1>8, <2>2
  <2>3. CASE v # w
    <3>1. A!At(v, "stake", "write") /\ job'[v] = job[v] /\ job[v] # None
      BY <1>7, <2>1, <2>3 DEF A!At
    <3>2. /\ job[v].read \in A!Stakes
          /\ job[v].read.door = "rest" => debited[job[v].who] >= job[v].read.amount
      BY <3>1, corner = "claims" DEF ClaimsKept
    <3>3. job[v].who \in Agents
      BY <1>1, <3>1, CallFacts
    <3>4. job[v].read.amount \in Int /\ debited[job[v].who] \in Nat
      BY <1>1, <3>2, <3>3 DEF RowsOfClaims, A!Stakes
    <3>. QED
      BY <1>8, <3>1, <3>2, <3>3, <3>4
  <2>. QED
    BY <2>2, <2>3
<1>12. \A v \in Workers :
         /\ A!At(v, "stake", "weigh")' => A!At(v, "stake", "weigh") /\ job'[v] = job[v]
         /\ A!At(v, "resolve", "apply")' => A!At(v, "resolve", "apply")
  BY <1>6, <1>7 DEF A!At
<1>13. overlap = "none" =>
         /\ \A v \in Workers : ~A!At(v, "stake", "weigh") /\ ~A!At(v, "stake", "weigh")'
         /\ Weighed({})' = Weighed({})
  BY <1>3, <1>7, <1>12 DEF A!At, Weighed
<1>14. ClaimsKept'
  BY <1>3, <1>10, <1>11, <1>12, <1>13, corner = "claims" DEF ClaimsKept
<1>. QED
  BY <1>7, <1>9, <1>14

LEMMA UpsertStakeKeeps ==
  ASSUME CommonsTyped, CallsApart, ClaimsKept, corner = "claims", NEW w \in Workers,
         UNCHANGED <<corner, overlap, trouble>>, A!UpsertStake(w)
  PROVE  JobsTyped' /\ CallsApart' /\ RowsOfClaims' /\ ClaimsKept'
<1>1. JobsTyped /\ RowsOfClaims
  BY DEF CommonsTyped
<1>2. /\ job[w] # None /\ job[w].do = "stake" /\ job[w].at = "write"
      /\ UNCHANGED <<begun, scores, confidence, debited, resolved>>
  BY DEF A!UpsertStake, A!At
<1>3. /\ job[w].read \in A!Stakes
      /\ job[w].read.door = "rest" => debited[job[w].who] >= job[w].read.amount
  BY <1>2, corner = "claims" DEF ClaimsKept, A!At
<1>4. PICK a \in Agents, s \in A!Stakes : a = job[w].who /\ s = job[w].read
  BY <1>1, <1>2, <1>3, CallFacts
<1>5. CASE trouble /\ A!Return(w) /\ UNCHANGED stakes
  <2>1. /\ JobsTyped' /\ CallsApart' /\ job'[w] = None
        /\ \A v \in Workers \ {w} : job'[v] = job[v]
    BY <1>1, <1>2, <1>5, NextStatement DEF A!Return
  <2>2. \A v \in Workers : \A do, at :
          A!At(v, do, at)' => A!At(v, do, at) /\ job'[v] = job[v]
    BY <2>1 DEF A!At
  <2>3. A!Stakers' = A!Stakers
    BY <1>5 DEF A!Stakers
  <2>4. ClaimsKept'
    BY <1>2, <1>5, <2>2, <2>3, corner = "claims" DEF ClaimsKept
  <2>. QED
    BY <1>1, <1>2, <1>5, <2>1, <2>4 DEF RowsOfClaims
<1>6. CASE /\ stakes' = [stakes EXCEPT ![job[w].who] = job[w].read]
           /\ A!Continue(w, [job[w] EXCEPT !.at = "weigh", !.read = None])
  <2>1. PICK d \in A!Calls : /\ d = [job[w] EXCEPT !.at = "weigh", !.read = None]
                             /\ d.do = "stake" /\ d.at = "weigh" /\ d.who = a /\ d.read = None
    <3>1. PICK c \in A!Calls : c = job[w]
      BY <1>1, <1>2, CallFacts
    <3>2. PICK d : d = [c EXCEPT !.at = "weigh", !.read = None]
      OBVIOUS
    <3>3. d \in A!Calls /\ d.do = c.do /\ d.at = "weigh" /\ d.who = c.who /\ d.read = None
      BY <3>2 DEF A!Calls
    <3>. QED
      BY <1>2, <1>4, <3>1, <3>2, <3>3
  <2>2. /\ JobsTyped' /\ CallsApart' /\ job'[w] = d
        /\ \A v \in Workers \ {w} : job'[v] = job[v]
        /\ overlap = "none" => \A v \in Workers \ {w} : job[v] = None
    BY <1>1, <1>2, <1>4, <1>6, <2>1, NextStatement DEF A!Continue
  <2>3. d # None
    BY NoCallIsNone
  <2>4. /\ stakes' \in [Agents -> A!Stakes \cup {None}] /\ stakes'[a] = s
        /\ \A b \in Agents \ {a} : stakes'[b] = stakes[b]
    BY <1>1, <1>4, <1>6 DEF RowsOfClaims
  <2>5. \A b \in A!Stakers' : stakes'[b].door = "rest" => debited'[b] >= stakes'[b].amount
    <3>1. \A b \in Agents : b # a => (b \in A!Stakers <=> b \in A!Stakers')
      BY <2>4 DEF A!Stakers
    <3>2. \A b \in A!Stakers' : b \in Agents
      BY DEF A!Stakers
    <3>. QED
      BY <1>2, <1>3, <1>4, <2>4, <3>1, <3>2, corner = "claims" DEF ClaimsKept
  <2>6. \A v \in Workers :
          /\ A!At(v, "stake", "write")' => A!At(v, "stake", "write") /\ job'[v] = job[v]
          /\ A!At(v, "resolve", "apply")' => A!At(v, "resolve", "apply")
          /\ A!At(v, "stake", "weigh")' =>
               \/ job'[v].read = None
               \/ v # w /\ A!At(v, "stake", "weigh") /\ job'[v] = job[v]
    BY <2>1, <2>2 DEF A!At
  <2>7. overlap = "none" => \A v \in Workers :
          A!At(v, "stake", "weigh")' => job'[v].read = None
    BY <2>1, <2>2 DEF A!At
  <2>8. A!At(w, "stake", "weigh")'
    BY <2>1, <2>2, <2>3 DEF A!At
  <2>9. ClaimsKept'
    BY <1>2, <2>5, <2>6, <2>7, <2>8, corner = "claims" DEF ClaimsKept
  <2>10. RowsOfClaims'
    BY <1>1, <1>2, <2>4 DEF RowsOfClaims
  <2>. QED
    BY <2>2, <2>9, <2>10
<1>. QED
  BY <1>5, <1>6 DEF A!UpsertStake

LEMMA ReadStakesKeeps ==
  ASSUME CommonsTyped, CallsApart, ClaimsKept, corner = "claims", NEW w \in Workers,
         UNCHANGED <<corner, overlap, trouble>>, A!ReadStakes(w)
  PROVE  JobsTyped' /\ CallsApart' /\ RowsOfClaims' /\ ClaimsKept'
<1>1. JobsTyped /\ RowsOfClaims
  BY DEF CommonsTyped
<1>2. /\ job[w] # None /\ job[w].do = "stake" /\ job[w].at = "weigh" /\ job[w].read = None
      /\ UNCHANGED <<begun, stakes, scores, confidence, debited, resolved>>
      /\ A!Continue(w, [job[w] EXCEPT
           !.read = [held |-> stakes, todo |-> A!Stakers, sum |-> A!Nothing]])
  BY DEF A!ReadStakes, A!At, A!claim
<1>3. PICK a \in Agents : a = job[w].who
  BY <1>1, <1>2, CallFacts
<1>4. PICK r \in A!Weighing :
        /\ r = [held |-> stakes, todo |-> A!Stakers, sum |-> A!Nothing]
        /\ r.held = stakes /\ r.todo = A!Stakers /\ r.sum = A!Nothing
  <2>1. stakes \in [Agents -> A!Stakes \cup {None}] /\ A!Stakers \in SUBSET Agents
    BY <1>1 DEF RowsOfClaims, A!Stakers
  <2>2. A!Nothing \in [A!Positions -> Int]
    BY DEF A!Nothing
  <2>3. PICK r : r = [held |-> stakes, todo |-> A!Stakers, sum |-> A!Nothing]
    OBVIOUS
  <2>4. /\ r \in A!Weighing
        /\ r.held = stakes /\ r.todo = A!Stakers /\ r.sum = A!Nothing
    BY <2>1, <2>2, <2>3 DEF A!Weighing
  <2>. QED
    BY <2>3, <2>4
<1>5. PICK d \in A!Calls : /\ d = [job[w] EXCEPT !.read = r]
                           /\ d.do = "stake" /\ d.at = "weigh" /\ d.who = a /\ d.read = r
  <2>1. PICK c \in A!Calls : c = job[w]
    BY <1>1, <1>2, CallFacts
  <2>2. PICK d : d = [c EXCEPT !.read = r]
    OBVIOUS
  <2>3. d \in A!Calls /\ d.do = c.do /\ d.at = c.at /\ d.who = c.who /\ d.read = r
    BY <2>2 DEF A!Calls
  <2>. QED
    BY <1>2, <1>3, <2>1, <2>2, <2>3
<1>6. /\ JobsTyped' /\ CallsApart' /\ job'[w] = d
      /\ \A v \in Workers \ {w} : job'[v] = job[v]
      /\ overlap = "none" => \A v \in Workers \ {w} : job[v] = None
  <2>1. job' = [job EXCEPT ![w] = d]
    BY <1>2, <1>4, <1>5 DEF A!Continue
  <2>. QED
    BY <1>1, <1>2, <1>3, <1>5, <2>1, NextStatement
<1>7. d # None
  BY NoCallIsNone
<1>8. RowsOfClaims'
  BY <1>1, <1>2 DEF RowsOfClaims
<1>9. \A v \in Workers :
        /\ A!At(v, "stake", "write")' => A!At(v, "stake", "write") /\ job'[v] = job[v]
        /\ A!At(v, "resolve", "apply")' => A!At(v, "resolve", "apply")
        /\ A!At(v, "stake", "weigh")' =>
             \/ v = w /\ job'[v].read = r
             \/ v # w /\ A!At(v, "stake", "weigh") /\ job'[v] = job[v]
  BY <1>5, <1>6 DEF A!At
<1>10. A!At(w, "stake", "weigh")'
  BY <1>5, <1>6, <1>7 DEF A!At
<1>11. overlap = "none" => \A v \in Workers : A!At(v, "stake", "weigh")' => v = w
  BY <1>6, <1>9 DEF A!At
<1>12. /\ A!Stakers' = A!Stakers
       /\ Weighed(r.todo)' = Weighed(r.todo) /\ Weighed(r.todo) = r.sum
  BY <1>1, <1>2, <1>4, WeighedNone DEF A!Stakers, Weighed
<1>13. overlap = "none" => \A v \in Workers : A!At(v, "stake", "weigh")' =>
         /\ job'[v].read.held = stakes' /\ job'[v].read.todo \subseteq A!Stakers'
         /\ (job[v].read.sum = Weighed(job[v].read.todo))'
  <2>1. SUFFICES ASSUME overlap = "none", NEW v \in Workers, A!At(v, "stake", "weigh")'
                 PROVE  /\ job'[v].read.held = stakes'
                        /\ job'[v].read.todo \subseteq A!Stakers'
                        /\ (job[v].read.sum = Weighed(job[v].read.todo))'
    OBVIOUS
  <2>2. job'[v].read = r
    BY <1>9, <1>11, <2>1
  <2>3. (job[v].read.sum = Weighed(job[v].read.todo))'
    <3>1. r.sum = Weighed(r.todo)'
      BY <1>12
    <3>. QED
      BY <2>2, <3>1 DEF Weighed
  <2>. QED
    BY <1>2, <1>4, <1>12, <2>2, <2>3
<1>14. ClaimsKept'
  BY <1>2, <1>9, <1>10, <1>12, <1>13, corner = "claims" DEF ClaimsKept
<1>. QED
  BY <1>6, <1>8, <1>14

LEMMA WeightTyped ==
  ASSUME RowsOfClaims, NEW held \in [Agents -> A!Stakes \cup {None}], NEW a \in Agents
  PROVE  A!Weight(held, scores, a) \in [A!Positions -> Int]
<1>1. scores[a] \in Int /\ (held[a] # None => held[a].amount \in Int)
  BY DEF RowsOfClaims, A!Stakes
<1>2. held[a] # None => held[a].amount * scores[a] \in Int
  BY <1>1
<1>. QED
  BY <1>2 DEF A!Weight

\* A call that weighs has one stake less to weigh.
OneLess(c, a, x) == [c EXCEPT !.read.todo = @ \ {a}, !.read.sum = A!Plus(@, x)]

LEMMA ScoreRead ==
  ASSUME NEW c \in A!Calls, NEW r \in A!Weighing, c.read = r, NEW a,
         NEW x \in [A!Positions -> Int], NEW d, d = OneLess(c, a, x)
  PROVE  /\ d \in A!Calls /\ d.do = c.do /\ d.who = c.who /\ d.at = c.at
         /\ d.read \in A!Weighing /\ d.read.held = r.held
         /\ d.read.todo = r.todo \ {a} /\ d.read.sum = A!Plus(r.sum, x)
<1>1. PICK q : q = [r EXCEPT !.todo = r.todo \ {a}, !.sum = A!Plus(r.sum, x)]
  OBVIOUS
<1>2. A!Plus(r.sum, x) \in [A!Positions -> Int]
  BY DEF A!Weighing, A!Plus
<1>3. /\ q \in A!Weighing /\ q.held = r.held
      /\ q.todo = r.todo \ {a} /\ q.sum = A!Plus(r.sum, x)
  BY <1>1, <1>2 DEF A!Weighing
<1>4. d = [c EXCEPT !.read = q]
  BY <1>1 DEF OneLess
<1>5. d \in A!Calls /\ d.do = c.do /\ d.who = c.who /\ d.at = c.at /\ d.read = q
  BY <1>3, <1>4 DEF A!Calls
<1>. QED
  BY <1>3, <1>5

LEMMA ReadScoreKeeps ==
  ASSUME CommonsTyped, CallsApart, ClaimsKept, corner = "claims", NEW w \in Workers,
         UNCHANGED <<corner, overlap, trouble>>, A!ReadScore(w)
  PROVE  JobsTyped' /\ CallsApart' /\ RowsOfClaims' /\ ClaimsKept'
<1>1. JobsTyped /\ RowsOfClaims
  BY DEF CommonsTyped
<1>2. /\ job[w] # None /\ job[w].do = "stake" /\ job[w].at = "weigh" /\ job[w].read # None
      /\ UNCHANGED <<begun, stakes, scores, confidence, debited, resolved>>
  BY DEF A!ReadScore, A!At, A!claim
<1>3. PICK a \in job[w].read.todo :
       A!Continue(w, [job[w] EXCEPT
         !.read.todo = @ \ {a},
         !.read.sum = A!Plus(@, A!Weight(job[w].read.held, scores, a))])
  BY Zenon DEF A!ReadScore
<1>4. A!At(w, "stake", "weigh") /\ job[w].read \in A!Weighing
  BY <1>2, corner = "claims" DEF ClaimsKept, A!At
<1>5. PICK c \in A!Calls, r \in A!Weighing : c = job[w] /\ r = job[w].read
  BY <1>1, <1>2, <1>4, CallFacts
<1>6. r.held \in [Agents -> A!Stakes \cup {None}] /\ a \in r.todo /\ r.todo \in SUBSET Agents
  BY <1>3, <1>5 DEF A!Weighing
<1>7. PICK x \in [A!Positions -> Int] : x = A!Weight(r.held, scores, a)
  BY <1>1, <1>6, WeightTyped
<1>8. PICK d : d = OneLess(c, a, x)
  OBVIOUS
<1>9. /\ d \in A!Calls /\ d.do = c.do /\ d.who = c.who /\ d.at = c.at
      /\ d.read \in A!Weighing /\ d.read.held = r.held
      /\ d.read.todo = r.todo \ {a} /\ d.read.sum = A!Plus(r.sum, x)
  BY <1>5, <1>8, ScoreRead
<1>10. /\ JobsTyped' /\ CallsApart' /\ job'[w] = d
       /\ \A v \in Workers \ {w} : job'[v] = job[v]
       /\ overlap = "none" => \A v \in Workers \ {w} : job[v] = None
  <2>1. job' = [job EXCEPT ![w] = d]
    BY <1>3, <1>5, <1>7, <1>8 DEF A!Continue, OneLess
  <2>. QED
    BY <1>1, <1>2, <1>5, <1>9, <2>1, NextStatement
<1>11. RowsOfClaims'
  BY <1>1, <1>2 DEF RowsOfClaims
<1>12. \A v \in Workers :
        /\ A!At(v, "stake", "write")' => A!At(v, "stake", "write") /\ job'[v] = job[v]
        /\ A!At(v, "resolve", "apply")' => A!At(v, "resolve", "apply")
        /\ A!At(v, "stake", "weigh")' =>
             \/ v = w /\ job'[v] = d
             \/ v # w /\ A!At(v, "stake", "weigh") /\ job'[v] = job[v]
  BY <1>2, <1>5, <1>9, <1>10 DEF A!At
<1>13. A!At(w, "stake", "weigh")'
  BY <1>2, <1>5, <1>9, <1>10, NoCallIsNone DEF A!At
<1>14. overlap = "none" => \A v \in Workers : A!At(v, "stake", "weigh")' => v = w
  BY <1>10, <1>12 DEF A!At
<1>15. ASSUME overlap = "none", ~trouble, resolved = 0
       PROVE  /\ d.read.held = stakes /\ d.read.todo \subseteq A!Stakers
              /\ d.read.sum = Weighed(d.read.todo)
  <2>1. r.held = stakes /\ r.todo \subseteq A!Stakers /\ r.sum = Weighed(r.todo)
    BY <1>2, <1>4, <1>5, <1>15, corner = "claims" DEF ClaimsKept
  <2>2. Weighed(r.todo \ {a}) = A!Plus(Weighed(r.todo), A!Weight(stakes, scores, a))
    BY <1>1, <1>6, WeighedOne
  <2>3. d.read.sum = A!Plus(Weighed(r.todo), A!Weight(stakes, scores, a))
    BY <1>7, <1>9, <2>1
  <2>4. Weighed(d.read.todo) = Weighed(r.todo \ {a})
    BY <1>9
  <2>. QED
    BY <1>9, <2>1, <2>2, <2>3, <2>4
<1>16. A!Stakers' = A!Stakers
  BY <1>2 DEF A!Stakers
<1>17. overlap = "none" /\ ~trouble /\ resolved = 0 => \A v \in Workers :
         A!At(v, "stake", "weigh")' =>
           /\ job'[v].read.held = stakes' /\ job'[v].read.todo \subseteq A!Stakers'
           /\ (job[v].read.sum = Weighed(job[v].read.todo))'
  <2>1. SUFFICES ASSUME overlap = "none", ~trouble, resolved = 0, NEW v \in Workers,
                        A!At(v, "stake", "weigh")'
                 PROVE  /\ job'[v].read.held = stakes'
                        /\ job'[v].read.todo \subseteq A!Stakers'
                        /\ (job[v].read.sum = Weighed(job[v].read.todo))'
    OBVIOUS
  <2>2. job'[v] = d
    BY <1>12, <1>14, <2>1
  <2>3. (job[v].read.sum = Weighed(job[v].read.todo))'
    <3>1. d.read.sum = Weighed(d.read.todo)
      BY <1>15, <2>1
    <3>. QED
      BY <1>2, <2>2, <3>1 DEF Weighed
  <2>. QED
    BY <1>2, <1>15, <1>16, <2>1, <2>2, <2>3
<1>18. ClaimsKept'
  BY <1>2, <1>9, <1>12, <1>13, <1>16, <1>17, corner = "claims" DEF ClaimsKept
<1>. QED
  BY <1>10, <1>11, <1>18

LEMMA ConfidenceKeeps ==
  ASSUME CommonsTyped, CallsApart, ClaimsKept, corner = "claims", NEW w \in Workers,
         UNCHANGED <<corner, overlap, trouble>>, A!UpdateConfidence(w)
  PROVE  JobsTyped' /\ CallsApart' /\ RowsOfClaims' /\ ClaimsKept'
<1>1. JobsTyped /\ RowsOfClaims
  BY DEF CommonsTyped
<1>2. /\ job[w] # None /\ A!At(w, "stake", "weigh") /\ job[w].read # None /\ job[w].read.todo = {}
      /\ UNCHANGED <<begun, stakes, scores, debited, resolved>>
      /\ ~trouble => confidence' = A!Confidence(job[w].read.sum)
  BY DEF A!UpdateConfidence, A!At
<1>3. /\ JobsTyped' /\ CallsApart' /\ job'[w] = None
      /\ \A v \in Workers \ {w} : job'[v] = job[v]
      /\ overlap = "none" => \A v \in Workers \ {w} : job[v] = None
  BY <1>1, <1>2, NextStatement DEF A!UpdateConfidence, A!Return
<1>4. RowsOfClaims'
  BY <1>1, <1>2 DEF RowsOfClaims
<1>5. \A v \in Workers : \A do, at :
        A!At(v, do, at)' => A!At(v, do, at) /\ job'[v] = job[v] /\ (overlap # "none")
  BY <1>3 DEF A!At
<1>6. overlap = "none" /\ ~trouble /\ resolved = 0 => confidence' = A!Confidence(Weighed({})')
  <2>1. Weighed({})' = Weighed({})
    BY <1>2 DEF Weighed
  <2>2. SUFFICES ASSUME overlap = "none", ~trouble, resolved = 0
                 PROVE  confidence' = A!Confidence(Weighed({}))
    BY <2>1
  <2>3. job[w].read.sum = Weighed(job[w].read.todo)
    BY <1>2, <2>2, corner = "claims" DEF ClaimsKept
  <2>. QED
    BY <1>2, <2>2, <2>3
<1>7. A!Stakers' = A!Stakers
  BY <1>2 DEF A!Stakers
<1>8. ClaimsKept'
  BY <1>2, <1>5, <1>6, <1>7, corner = "claims" DEF ClaimsKept
<1>. QED
  BY <1>3, <1>4, <1>8

LEMMA ResolveKeeps ==
  ASSUME CommonsTyped, CallsApart, ClaimsKept, corner = "claims", NEW w \in Workers,
         NEW a \in Agents, UNCHANGED <<corner, overlap, trouble>>, A!ResolveClaim(w, a)
  PROVE  JobsTyped' /\ CallsApart' /\ RowsOfClaims' /\ ClaimsKept'
<1>1. JobsTyped /\ RowsOfClaims
  BY DEF CommonsTyped
<1>2. UNCHANGED <<stakes, scores, confidence, debited, resolved>> /\ A!MayBegin(w, a)
  BY DEF A!ResolveClaim, A!claim
<1>3. RowsOfClaims'
  BY <1>1, <1>2 DEF RowsOfClaims
<1>4. CASE A!Repeat(w)
  <2>1. JobsTyped' /\ CallsApart' /\ job' = job
    BY <1>1, <1>4, Repeated
  <2>2. ClaimsKept'
    BY <1>2, <2>1, ClaimsIdle
  <2>. QED
    BY <1>3, <2>1, <2>2
<1>5. ASSUME resolved = 0, NEW resolution \in {"correct", "incorrect", "unverifiable"},
             A!Begin(w, [A!Call("resolve", a) EXCEPT !.at = "apply",
                           !.read = [resolution |-> resolution]])
      PROVE  JobsTyped' /\ CallsApart' /\ ClaimsKept'
  <2>1. PICK c \in A!Calls : A!Begin(w, c) /\ c.do = "resolve" /\ c.at = "apply" /\ c.who = a
    <3>1. [resolution |-> resolution] \in A!Resolving
      BY DEF A!Resolving
    <3>2. A!Begin(w, FreshRead("resolve", a, "apply", [resolution |-> resolution]))
      BY <1>5 DEF FreshRead
    <3>. QED
      BY <3>1, <3>2, FreshReadFacts
  <2>2. /\ JobsTyped' /\ CallsApart' /\ job'[w] = c /\ c # None /\ job[w] = None
        /\ \A v \in Workers \ {w} : job'[v] = job[v]
    BY <1>1, <1>2, <2>1, NewCall
  <2>3. \A v \in Workers :
          /\ A!At(v, "stake", "write")' => A!At(v, "stake", "write") /\ job'[v] = job[v]
          /\ A!At(v, "stake", "weigh")' <=> A!At(v, "stake", "weigh")
          /\ A!At(v, "stake", "weigh") => job'[v] = job[v]
    BY <2>1, <2>2 DEF A!At
  <2>4. A!Stakers' = A!Stakers /\ \A todos : Weighed(todos)' = Weighed(todos)
    BY <1>2 DEF A!Stakers, Weighed
  <2>5. ClaimsKept'
    BY <1>2, <1>5, <2>3, <2>4, corner = "claims" DEF ClaimsKept
  <2>. QED
    BY <2>2, <2>5
<1>. QED
  BY <1>3, <1>4, <1>5 DEF A!ResolveClaim

\* Where calls do not overlap the claim is still open when it is marked.
LEMMA ApplyKeeps ==
  ASSUME CommonsTyped, CallsApart, ClaimsKept, corner = "claims", NEW w \in Workers,
         UNCHANGED <<corner, overlap, trouble>>, A!ApplyResolution(w)
  PROVE  JobsTyped' /\ CallsApart' /\ RowsOfClaims' /\ ClaimsKept'
<1>1. JobsTyped /\ RowsOfClaims
  BY DEF CommonsTyped
<1>2. /\ job[w] # None /\ A!At(w, "resolve", "apply")
      /\ resolved' = resolved + 1 /\ UNCHANGED <<begun, stakes, confidence, debited>>
      /\ scores' = [a \in Agents |-> A!Scored(scores[a], job[w].read.resolution, a)]
  BY DEF A!ApplyResolution, A!At
<1>3. /\ JobsTyped' /\ CallsApart' /\ job'[w] = None
      /\ \A v \in Workers \ {w} : job'[v] = job[v]
      /\ overlap = "none" => \A v \in Workers \ {w} : job[v] = None
  BY <1>1, <1>2, NextStatement DEF A!ApplyResolution, A!Return
<1>4. ASSUME NEW a \in Agents, NEW res
      PROVE  A!Scored(scores[a], res, a) \in Int
  <2>1. PICK s \in Int : s = scores[a]
    BY <1>1 DEF RowsOfClaims
  <2>2. stakes[a] # None => stakes[a].amount \div 2 \in Int
    BY <1>1 DEF RowsOfClaims, A!Stakes
  <2>. DEFINE winning == IF res = "correct" THEN "endorse" ELSE "dispute"
              staked == IF stakes[a] = None THEN s
                ELSE IF stakes[a].position = winning THEN A!Capped(s + stakes[a].amount \div 2)
                ELSE A!Floored(s - stakes[a].amount \div 2)
  <2>3. PICK t \in Int : t = staked
    <3>1. CASE stakes[a] = None
      BY <2>1, <3>1
    <3>2. CASE stakes[a] # None
      <4>1. PICK h \in Int : h = stakes[a].amount \div 2
        BY <2>2, <3>2
      <4>2. s + h \in Int /\ s - h \in Int
        OBVIOUS
      <4>3. A!Capped(s + h) \in Int /\ A!Floored(s - h) \in Int
        BY <4>2, Clamped
      <4>. QED
        BY <3>2, <4>1, <4>3
    <3>. QED
      BY <3>1, <3>2
  <2>4. A!Capped(t + 5) \in Int /\ A!Floored(t - 5) \in Int
    BY Clamped
  <2>5. A!Scored(scores[a], res, a) =
          IF res = "unverifiable" THEN s ELSE IF a # Author THEN t
          ELSE IF res = "correct" THEN A!Capped(t + 5) ELSE A!Floored(t - 5)
    BY <2>1, <2>3 DEF A!Scored
  <2>. QED
    BY <2>4, <2>5
<1>5. RowsOfClaims'
  BY <1>1, <1>2, <1>4 DEF RowsOfClaims
<1>6. \A v \in Workers : \A do, at :
        A!At(v, do, at)' => A!At(v, do, at) /\ job'[v] = job[v] /\ (overlap # "none")
  BY <1>3 DEF A!At
<1>7. A!Stakers' = A!Stakers
  BY <1>2 DEF A!Stakers
<1>8. overlap = "none" => resolved = 0
  BY <1>2, corner = "claims" DEF ClaimsKept
<1>9. ClaimsKept'
  BY <1>2, <1>6, <1>7, <1>8, corner = "claims" DEF ClaimsKept
<1>. QED
  BY <1>3, <1>5, <1>9

LEMMA BeginsMoves ==
  ASSUME NEW w \in Workers, \A v \in Workers \ {w} : job'[v] = job[v]
  PROVE  /\ Cardinality(Begins) \in Nat /\ Cardinality(Begins') \in Nat
         /\ (w \in Begins <=> w \in Begins') => Cardinality(Begins') = Cardinality(Begins)
         /\ w \in Begins /\ w \notin Begins' => Cardinality(Begins) = Cardinality(Begins') + 1
         /\ w \notin Begins /\ w \in Begins' => Cardinality(Begins') = Cardinality(Begins) + 1
<1>1. /\ Begins \in SUBSET Workers /\ Begins' \in SUBSET Workers
      /\ \A v \in Workers \ {w} : v \in Begins <=> v \in Begins'
  BY DEF Begins
<1>2. IsFiniteSet(Workers)
  BY CommonsConstants
<1>. QED
  BY ONLY <1>1, <1>2, w \in Workers, CountMoves

\* A call of another worker still fits where no agent loses the tool and the
\* row of its agent is as it was.
LEMMA InstallsStays ==
  ASSUME NEW v \in Workers, job'[v] = job[v], Installs(v), begun \in Nat, begun' \in Nat,
         begun' >= begun, overlap' = overlap, Owners \subseteq Owners',
         job[v] \in A!Calls \cup {None},
         overlap # "any" /\ job[v] # None => installed'[job[v].who] = installed[job[v].who]
  PROVE  Installs(v)'
<1>1. CASE job[v] = None
  BY <1>1 DEF Installs
<1>2. CASE job[v] # None
  <2>1. job[v].read.tool.count \in Nat
    BY <1>2 DEF Installs, A!Asking, A!Installing, A!Tools
  <2>2. job[v].read.tool.count < begun'
    BY <1>2, <2>1 DEF Installs
  <2>. QED
    BY <1>2, <2>2 DEF Installs
<1>. QED
  BY <1>1, <1>2

LEMMA InstalledIs ==
  ASSUME RowsOfMarket
  PROVE  /\ tool.installs \in Nat /\ tool.sum \in Int /\ tool.count \in Nat
         /\ IsFiniteSet(Owners) /\ Cardinality(Owners) \in Nat
         /\ IsFiniteSet(A!Rated) /\ Cardinality(A!Rated) \in Nat
         /\ \A a \in Agents : Ratio(a) \in Nat
         /\ A!SumFunction([a \in Agents |-> Ratio(a)]) \in Int
<1>1. tool.installs \in Nat /\ tool.sum \in Int /\ tool.count \in Nat
  BY DEF RowsOfMarket, A!Tools
<1>2. Owners \in SUBSET Agents /\ A!Rated \in SUBSET Agents
  BY DEF Owners, A!Rated
<1>3. /\ IsFiniteSet(Owners) /\ Cardinality(Owners) \in Nat
      /\ IsFiniteSet(A!Rated) /\ Cardinality(A!Rated) \in Nat
  BY <1>2, CommonsConstants, FS_Subset, FS_CardinalityType
<1>4. \A a \in Agents : Ratio(a) \in Nat
  BY CommonsConstants DEF Ratio, A!Rated
<1>5. [a \in Agents |-> Ratio(a)] \in [Agents -> Int]
  BY <1>4
<1>. QED
  BY <1>1, <1>3, <1>4, <1>5, CommonsSum, CommonsConstants

\* Only calls begin, go on or end, and none of them counts an install or
\* knows a rating to be added.
LEMMA RatingsStay ==
  ASSUME RatingsKept, UNCHANGED installed,
         tool'.sum = tool.sum, tool'.count = tool.count,
         \A v \in Workers : job'[v] # None =>
           job'[v].read.tool.sum = tool.sum /\ job'[v].read.tool.count = tool.count,
         \A v \in Workers : WillRate(v)' <=> WillRate(v),
         \A v \in Workers : WillRate(v)' => job'[v].read = job[v].read
  PROVE  RatingsKept'
<1>1. A!Rated' = A!Rated /\ \A a \in Agents : Ratio(a)' = Ratio(a)
  BY DEF A!Rated, Ratio
<1>2. [a \in Agents |-> Ratio(a)]' = [a \in Agents |-> Ratio(a)]
  BY <1>1
<1>3. ASSUME NEW v \in Workers, WillRate(v)'
      PROVE  /\ tool'.count + (IF job'[v].read.had \in Ratings THEN 0 ELSE 1)
                  = Cardinality(A!Rated')
             /\ (tool.sum + (job[v].read.rating - Old(job[v]))
                  = A!SumFunction([a \in Agents |-> Ratio(a)]))'
  <2>1. /\ tool.count + (IF job[v].read.had \in Ratings THEN 0 ELSE 1) = Cardinality(A!Rated)
        /\ tool.sum + (job[v].read.rating - Old(job[v]))
             = A!SumFunction([a \in Agents |-> Ratio(a)])
        /\ job'[v].read = job[v].read
    BY <1>3 DEF RatingsKept
  <2>2. (tool.sum + (job[v].read.rating - Old(job[v])))'
          = tool.sum + (job[v].read.rating - Old(job[v]))
    BY <2>1 DEF Old
  <2>. QED
    BY <1>1, <1>2, <2>1, <2>2
<1>4. (\A v \in Workers : ~WillRate(v)') =>
        /\ tool'.count = Cardinality(A!Rated')
        /\ (tool.sum = A!SumFunction([a \in Agents |-> Ratio(a)]))'
  BY <1>1, <1>2 DEF RatingsKept
<1>. QED
  BY <1>3, <1>4 DEF RatingsKept

LEMMA InstallKeeps ==
  ASSUME CommonsTyped, CallsApart, MarketKept, corner = "market", NEW w \in Workers,
         NEW a \in Agents, UNCHANGED <<corner, overlap, trouble>>, A!InstallTool(w, a)
  PROVE  JobsTyped' /\ CallsApart' /\ RowsOfMarket' /\ MarketKept'
<1>1. JobsTyped /\ RowsOfMarket
  BY DEF CommonsTyped
<1>2. PICK rating \in Ratings \cup {A!Unrated} :
        /\ A!MayBegin(w, a)
        /\ A!Begin(w, [A!Call("install", a) EXCEPT !.read = [tool |-> tool, rating |-> rating]])
        /\ UNCHANGED A!market
  BY Zenon DEF A!InstallTool
<1>3. PICK r \in A!Asking : /\ r = [tool |-> tool, rating |-> rating]
                            /\ r.tool = tool /\ r.rating = rating
  <2>1. tool \in A!Tools /\ rating \in Nat
    BY <1>1, CommonsConstants DEF RowsOfMarket, A!Unrated
  <2>2. PICK r : r = [tool |-> tool, rating |-> rating]
    OBVIOUS
  <2>3. r \in A!Asking /\ r.tool = tool /\ r.rating = rating
    BY <2>1, <2>2 DEF A!Asking
  <2>. QED
    BY <2>2, <2>3
<1>4. PICK c \in A!Calls : /\ A!Begin(w, c) /\ c.do = "install" /\ c.at = "begun" /\ c.who = a
                           /\ c.read = r
  <2>1. A!Begin(w, FreshRead("install", a, "begun", r))
    <3>1. PICK b : b = A!Call("install", a)
      OBVIOUS
    <3>2. b \in A!Calls /\ b.at = "begun"
      BY <3>1, BegunFacts
    <3>3. [b EXCEPT !.read = r] = [b EXCEPT !.at = "begun", !.read = r]
      BY <3>2 DEF A!Calls
    <3>4. FreshRead("install", a, "begun", r) = [b EXCEPT !.read = r]
      BY <3>1, <3>3 DEF FreshRead
    <3>. QED
      BY <1>2, <1>3, <3>1, <3>4
  <2>. QED
    BY <2>1, FreshReadFacts
<1>5. /\ JobsTyped' /\ CallsApart' /\ job'[w] = c /\ c # None /\ job[w] = None
      /\ begun' = begun + 1 /\ begun \in Nat
      /\ \A v \in Workers \ {w} : job'[v] = job[v]
      /\ overlap = "none" => \A v \in Workers : job[v] = None
  BY <1>1, <1>2, <1>4, NewCall DEF JobsTyped
<1>6. UNCHANGED <<tool, installed>> /\ RowsOfMarket'
  BY <1>1, <1>2 DEF A!market, RowsOfMarket
<1>7. Owners' = Owners
  BY <1>6 DEF Owners
<1>8. /\ tool'.installs + Cardinality(Begins') <= begun' /\ tool'.count <= begun'
      /\ tool.count < begun'
  <2>1. tool.installs + Cardinality(Begins) <= begun /\ tool.count <= begun
    BY corner = "market" DEF MarketKept
  <2>2. Cardinality(Begins') = Cardinality(Begins) + 1 /\ Cardinality(Begins) \in Nat
    <3>1. w \notin Begins /\ w \in Begins'
      BY <1>4, <1>5 DEF Begins
    <3>. QED
      BY <1>5, <3>1, BeginsMoves
  <2>. QED
    BY <1>1, <1>5, <1>6, <2>1, <2>2, InstalledIs
<1>9. ASSUME NEW v \in Workers PROVE Installs(v)'
  <2>1. CASE v = w
    BY <1>3, <1>4, <1>5, <1>8, <2>1 DEF Installs
  <2>2. CASE v # w
    <3>1. Installs(v) /\ job[v] \in A!Calls \cup {None}
      BY <1>1, corner = "market" DEF MarketKept, JobsTyped
    <3>. QED
      BY <1>5, <1>6, <1>7, <2>2, <3>1, InstallsStays
  <2>. QED
    BY <2>1, <2>2
<1>10. ~trouble => InstallsKept'
  <2>1. Cardinality(Counting("install")') = Cardinality(Counting("install"))
    <3>1. ~A!At(w, "install", "count") /\ ~A!At(w, "install", "count")'
      BY <1>4, <1>5 DEF A!At
    <3>. QED
      BY <1>5, <3>1, CountingMoves
  <2>. QED
    BY <1>6, <1>7, <2>1, corner = "market" DEF MarketKept, InstallsKept
<1>11. ~trouble /\ overlap = "none" => RatingsKept'
  <2>1. SUFFICES ASSUME ~trouble, overlap = "none" PROVE RatingsKept'
    OBVIOUS
  <2>2. \A v \in Workers : job'[v] # None => v = w /\ ~WillRate(v)'
    BY <1>4, <1>5, <2>1 DEF WillRate
  <2>3. \A v \in Workers : ~WillRate(v) /\ ~WillRate(v)'
    BY <1>5, <2>1, <2>2 DEF WillRate
  <2>4. \A v \in Workers : job'[v] # None =>
           job'[v].read.tool.sum = tool.sum /\ job'[v].read.tool.count = tool.count
    BY <1>3, <1>4, <1>5, <2>2
  <2>5. RatingsKept
    BY <2>1, corner = "market" DEF MarketKept
  <2>. QED
    BY <1>6, <2>3, <2>4, <2>5, RatingsStay
<1>12. MarketKept'
  BY <1>8, <1>9, <1>10, <1>11, corner = "market" DEF MarketKept
<1>. QED
  BY <1>5, <1>6, <1>12

LEMMA ReadInstallKeeps ==
  ASSUME CommonsTyped, CallsApart, MarketKept, corner = "market", NEW w \in Workers,
         UNCHANGED <<corner, overlap, trouble>>, A!ReadInstall(w)
  PROVE  JobsTyped' /\ CallsApart' /\ RowsOfMarket' /\ MarketKept'
<1>1. JobsTyped /\ RowsOfMarket
  BY DEF CommonsTyped
<1>2. /\ job[w] # None /\ job[w].do = "install" /\ job[w].at = "begun"
      /\ UNCHANGED <<begun, tool, installed>>
      /\ A!Continue(w, [job[w] EXCEPT !.at = "upsert",
           !.read = [tool |-> @.tool, rating |-> @.rating, had |-> installed[job[w].who]]])
  BY DEF A!ReadInstall, A!At, A!market
<1>3. /\ job[w].read \in A!Asking /\ job[w].read.tool.count < begun
      /\ job[w].read.rating \in Ratings \cup {A!Unrated}
  BY <1>2, corner = "market" DEF MarketKept, Installs
<1>4. PICK c \in A!Calls, a \in Agents, r \in A!Asking, h \in Nat \cup {None} :
        c = job[w] /\ a = c.who /\ r = c.read /\ h = installed[a]
  <2>1. job[w] \in A!Calls /\ job[w].who \in Agents
    BY <1>1, <1>2, CallFacts
  <2>2. installed[job[w].who] \in Nat \cup {None}
    BY <1>1, <2>1 DEF RowsOfMarket
  <2>. QED
    BY <1>3, <2>1, <2>2
<1>5. PICK q \in A!Installing : /\ q = [tool |-> r.tool, rating |-> r.rating, had |-> h]
                                /\ q.tool = r.tool /\ q.rating = r.rating /\ q.had = h
  <2>1. r.tool \in A!Tools /\ r.rating \in Nat
    BY DEF A!Asking
  <2>2. PICK q : q = [tool |-> r.tool, rating |-> r.rating, had |-> h]
    OBVIOUS
  <2>3. q \in A!Installing /\ q.tool = r.tool /\ q.rating = r.rating /\ q.had = h
    BY <2>1, <2>2 DEF A!Installing
  <2>. QED
    BY <2>2, <2>3
<1>6. PICK d \in A!Calls : /\ d = [c EXCEPT !.at = "upsert", !.read = q]
                           /\ d.do = "install" /\ d.at = "upsert" /\ d.who = a /\ d.read = q
  <2>1. PICK d : d = [c EXCEPT !.at = "upsert", !.read = q]
    OBVIOUS
  <2>2. d \in A!Calls /\ d.do = c.do /\ d.at = "upsert" /\ d.who = c.who /\ d.read = q
    BY <2>1 DEF A!Calls
  <2>. QED
    BY <1>2, <1>4, <2>1, <2>2
<1>7. /\ JobsTyped' /\ CallsApart' /\ job'[w] = d
      /\ \A v \in Workers \ {w} : job'[v] = job[v]
      /\ overlap = "none" => \A v \in Workers \ {w} : job[v] = None
  <2>1. job' = [job EXCEPT ![w] = d]
    BY <1>2, <1>4, <1>5, <1>6 DEF A!Continue
  <2>. QED
    BY <1>1, <1>2, <1>4, <1>6, <2>1, NextStatement
<1>8. d # None
  BY NoCallIsNone
<1>9. RowsOfMarket' /\ Owners' = Owners /\ begun \in Nat
  BY <1>1, <1>2 DEF RowsOfMarket, Owners, JobsTyped
<1>10. tool'.installs + Cardinality(Begins') <= begun' /\ tool'.count <= begun'
  <2>1. w \in Begins /\ w \in Begins'
    BY <1>2, <1>6, <1>7, <1>8 DEF Begins
  <2>2. Cardinality(Begins') = Cardinality(Begins)
    BY <1>7, <2>1, BeginsMoves
  <2>. QED
    BY <1>2, <2>2, corner = "market" DEF MarketKept
<1>11. ASSUME NEW v \in Workers PROVE Installs(v)'
  <2>1. CASE v = w
    <3>1. h # None => a \in Owners
      BY <1>4 DEF Owners
    <3>2. /\ job'[v] = d /\ d.do = "install" /\ d.at = "upsert" /\ d.who = a
          /\ d.read = q /\ q \in A!Installing /\ q.had = h
      BY <1>5, <1>6, <1>7, <2>1
    <3>3. q.tool.count < begun' /\ q.rating \in Ratings \cup {A!Unrated}
      BY <1>2, <1>3, <1>4, <1>5
    <3>4. h = installed'[a] /\ Owners' = Owners
      BY <1>2, <1>4, <1>9
    <3>. QED
      BY <3>1, <3>2, <3>3, <3>4 DEF Installs
  <2>2. CASE v # w
    <3>1. Installs(v) /\ job[v] \in A!Calls \cup {None}
      BY <1>1, corner = "market" DEF MarketKept, JobsTyped
    <3>. QED
      BY <1>2, <1>7, <1>9, <2>2, <3>1, InstallsStays
  <2>. QED
    BY <2>1, <2>2
<1>12. ~trouble => InstallsKept'
  <2>1. Cardinality(Counting("install")') = Cardinality(Counting("install"))
    <3>1. ~A!At(w, "install", "count") /\ ~A!At(w, "install", "count")'
      BY <1>2, <1>6, <1>7 DEF A!At
    <3>. QED
      BY <1>7, <3>1, CountingMoves
  <2>. QED
    BY <1>2, <1>9, <2>1, corner = "market" DEF MarketKept, InstallsKept
<1>13. ~trouble /\ overlap = "none" => RatingsKept'
  <2>1. SUFFICES ASSUME ~trouble, overlap = "none" PROVE RatingsKept'
    OBVIOUS
  <2>2. RatingsKept
    BY <2>1, corner = "market" DEF MarketKept
  <2>3. \A v \in Workers : v = w \/ (job[v] = None /\ job'[v] = None)
    BY <1>7, <2>1
  <2>4. \A v \in Workers : ~WillRate(v) /\ ~WillRate(v)'
    BY <1>2, <1>6, <1>7, <2>3 DEF WillRate
  <2>5. \A v \in Workers : job'[v] # None =>
           job'[v].read.tool.sum = tool.sum /\ job'[v].read.tool.count = tool.count
    <3>1. r.tool.sum = tool.sum /\ r.tool.count = tool.count
      BY <1>2, <1>4, <2>2 DEF RatingsKept
    <3>2. job'[w].read.tool = r.tool
      BY <1>5, <1>6, <1>7
    <3>. QED
      BY <2>3, <3>1, <3>2
  <2>. QED
    BY <1>2, <2>2, <2>4, <2>5, RatingsStay
<1>14. MarketKept'
  BY <1>10, <1>11, <1>12, <1>13, corner = "market" DEF MarketKept
<1>. QED
  BY <1>7, <1>9, <1>14

LEMMA CountInstallKeeps ==
  ASSUME CommonsTyped, CallsApart, MarketKept, corner = "market", NEW w \in Workers,
         UNCHANGED <<corner, overlap, trouble>>, A!CountInstall(w)
  PROVE  JobsTyped' /\ CallsApart' /\ RowsOfMarket' /\ MarketKept'
<1>1. JobsTyped /\ RowsOfMarket
  BY DEF CommonsTyped
<1>2. /\ job[w] # None /\ job[w].do = "install" /\ job[w].at = "count"
      /\ UNCHANGED <<begun, installed>>
      /\ A!Continue(w, A!AfterNotices(job[w]))
      /\ tool' = [tool EXCEPT !.installs = @ + 1] \/ (trouble /\ UNCHANGED tool)
  BY DEF A!CountInstall, A!At
<1>3. PICK c, d : c = job[w] /\ d = A!AfterNotices(c) /\ c \in A!Calls
  BY <1>1, <1>2, CallFacts
<1>4. /\ d \in A!Calls /\ d.do = "install" /\ d.who = c.who /\ d.read = c.read
      /\ d.at \in {"notify", "rate"}
  BY <1>2, <1>3, AfterFacts
<1>5. /\ JobsTyped' /\ CallsApart' /\ job'[w] = d
      /\ \A v \in Workers \ {w} : job'[v] = job[v]
      /\ overlap = "none" => \A v \in Workers \ {w} : job[v] = None
  <2>1. job' = [job EXCEPT ![w] = d]
    BY <1>2, <1>3 DEF A!Continue
  <2>. QED
    BY <1>1, <1>2, <1>3, <1>4, <2>1, NextStatement
<1>6. d # None
  BY <1>4, NoCallIsNone
<1>7. /\ tool' \in A!Tools /\ tool'.sum = tool.sum /\ tool'.count = tool.count
      /\ tool'.installs = tool.installs + 1 \/ (trouble /\ tool'.installs = tool.installs)
  BY <1>1, <1>2 DEF RowsOfMarket, A!Tools
<1>8. RowsOfMarket' /\ Owners' = Owners /\ begun \in Nat
  BY <1>1, <1>2, <1>7 DEF RowsOfMarket, Owners, JobsTyped
<1>9. tool'.installs + Cardinality(Begins') <= begun' /\ tool'.count <= begun'
  <2>1. w \in Begins /\ w \notin Begins'
    BY <1>2, <1>4, <1>5, <1>6 DEF Begins
  <2>2. Cardinality(Begins) = Cardinality(Begins') + 1 /\ Cardinality(Begins') \in Nat
    BY <1>5, <2>1, BeginsMoves
  <2>3. tool.installs + Cardinality(Begins) <= begun /\ tool.count <= begun
    BY corner = "market" DEF MarketKept
  <2>. QED
    BY <1>1, <1>2, <1>7, <1>8, <2>2, <2>3, InstalledIs
<1>10. ASSUME NEW v \in Workers PROVE Installs(v)'
  <2>1. Installs(v) /\ job[v] \in A!Calls \cup {None}
    BY <1>1, corner = "market" DEF MarketKept, JobsTyped
  <2>2. CASE v = w
    BY <1>2, <1>3, <1>4, <1>5, <2>1, <2>2 DEF Installs
  <2>3. CASE v # w
    BY <1>2, <1>5, <1>8, <2>1, <2>3, InstallsStays
  <2>. QED
    BY <2>2, <2>3
<1>11. ~trouble => InstallsKept'
  <2>1. PICK n \in Nat : n = Cardinality(Counting("install")')
                         /\ n + 1 = Cardinality(Counting("install"))
    <3>1. A!At(w, "install", "count") /\ ~A!At(w, "install", "count")'
      BY <1>2, <1>4, <1>5 DEF A!At
    <3>. QED
      BY <1>5, <3>1, CountingMoves
  <2>2. PICK i \in Nat, h \in Nat : i = tool.installs /\ h = Cardinality(Owners)
    BY <1>1, InstalledIs
  <2>3. SUFFICES ASSUME ~trouble PROVE InstallsKept'
    OBVIOUS
  <2>4. tool'.installs = i + 1
    BY <1>7, <2>2, <2>3
  <2>5. i + (n + 1) >= h /\ (overlap # "any" => i + (n + 1) = h)
    BY <2>1, <2>2, <2>3, corner = "market" DEF MarketKept, InstallsKept
  <2>6. (i + 1) + n >= h /\ (overlap # "any" => (i + 1) + n = h)
    BY <2>5
  <2>. QED
    BY <1>8, <2>1, <2>2, <2>4, <2>6 DEF InstallsKept
<1>12. ~trouble /\ overlap = "none" => RatingsKept'
  <2>1. SUFFICES ASSUME ~trouble, overlap = "none" PROVE RatingsKept'
    OBVIOUS
  <2>2. RatingsKept
    BY <2>1, corner = "market" DEF MarketKept
  <2>3. \A v \in Workers : v = w \/ (job[v] = None /\ job'[v] = None)
    BY <1>5, <2>1
  <2>4. \A v \in Workers :
          (WillRate(v)' <=> WillRate(v)) /\ (WillRate(v)' => job'[v].read = job[v].read)
    BY <1>2, <1>3, <1>4, <1>5, <1>6, <2>3 DEF WillRate, Rates
  <2>5. \A v \in Workers : job'[v] # None =>
           job'[v].read.tool.sum = tool.sum /\ job'[v].read.tool.count = tool.count
    BY <1>2, <1>3, <1>4, <1>5, <2>2, <2>3 DEF RatingsKept
  <2>. QED
    BY <1>2, <1>7, <2>2, <2>4, <2>5, RatingsStay
<1>13. MarketKept'
  BY <1>9, <1>10, <1>11, <1>12, corner = "market" DEF MarketKept
<1>. QED
  BY <1>5, <1>8, <1>13

\* One row of the installations is written: what its rating changes of the sums.
LEMMA RowWritten ==
  ASSUME RowsOfMarket, NEW a \in Agents, NEW x \in Nat, installed' = [installed EXCEPT ![a] = x]
  PROVE  LET now == IF x \in Ratings THEN x ELSE 0
         IN /\ installed' \in [Agents -> Nat \cup {None}] /\ Owners' = Owners \cup {a}
            /\ Cardinality(A!Rated') =
                 IF a \in A!Rated <=> x \in Ratings THEN Cardinality(A!Rated)
                 ELSE IF x \in Ratings THEN Cardinality(A!Rated) + 1
                 ELSE Cardinality(A!Rated) - 1
            /\ A!SumFunction([b \in Agents |-> Ratio(b)]')
                 = A!SumFunction([b \in Agents |-> Ratio(b)]) + (now - Ratio(a))
<1>1. installed \in [Agents -> Nat \cup {None}]
  BY DEF RowsOfMarket
<1>2. /\ installed' \in [Agents -> Nat \cup {None}] /\ installed'[a] = x
      /\ \A b \in Agents \ {a} : installed'[b] = installed[b]
  BY <1>1
<1>3. Owners' = Owners \cup {a}
  BY <1>2, CommonsConstants DEF Owners
<1>4. Cardinality(A!Rated') =
        IF a \in A!Rated <=> x \in Ratings THEN Cardinality(A!Rated)
        ELSE IF x \in Ratings THEN Cardinality(A!Rated) + 1
        ELSE Cardinality(A!Rated) - 1
  <2>1. /\ A!Rated \in SUBSET Agents /\ A!Rated' \in SUBSET Agents
        /\ a \in A!Rated' <=> x \in Ratings
        /\ \A b \in Agents \ {a} : b \in A!Rated <=> b \in A!Rated'
    BY <1>2 DEF A!Rated
  <2>2. IsFiniteSet(Agents)
    BY CommonsConstants
  <2>3. PICK R, Q \in SUBSET Agents : R = A!Rated /\ Q = A!Rated'
    BY <2>1
  <2>4. /\ Cardinality(R) \in Nat /\ Cardinality(Q) \in Nat
        /\ (a \in R <=> a \in Q) => Cardinality(Q) = Cardinality(R)
        /\ a \in R /\ a \notin Q => Cardinality(R) = Cardinality(Q) + 1
        /\ a \notin R /\ a \in Q => Cardinality(Q) = Cardinality(R) + 1
    BY <2>1, <2>2, <2>3, CountMoves
  <2>5. PICK m, n \in Nat : m = Cardinality(R) /\ n = Cardinality(Q)
    BY <2>4
  <2>6. n = IF a \in R <=> a \in Q THEN m ELSE IF a \in Q THEN m + 1 ELSE m - 1
    <3>1. CASE a \in R <=> a \in Q
      BY <2>4, <2>5, <3>1
    <3>2. CASE a \in R /\ a \notin Q
      BY <2>4, <2>5, <3>2
    <3>3. CASE a \notin R /\ a \in Q
      BY <2>4, <2>5, <3>3
    <3>. QED
      BY <3>1, <3>2, <3>3
  <2>. QED
    BY <2>1, <2>3, <2>5, <2>6
<1>5. PICK f, h \in [Agents -> Int] :
        f = [b \in Agents |-> Ratio(b)] /\ h = [b \in Agents |-> Ratio(b)]'
  <2>1. \A b \in Agents : Ratio(b) \in Nat
    BY InstalledIs
  <2>2. \A b \in Agents : Ratio(b)' \in Nat
    BY CommonsConstants DEF Ratio, A!Rated
  <2>3. [b \in Agents |-> Ratio(b)] \in [Agents -> Int]
    BY <2>1
  <2>4. [b \in Agents |-> Ratio(b)]' \in [Agents -> Int]
    BY <2>2
  <2>. QED
    BY ONLY <2>3, <2>4
<1>6. h[a] = (IF x \in Ratings THEN x ELSE 0) /\ f[a] = Ratio(a)
  BY <1>2, <1>5 DEF Ratio, A!Rated
<1>7. \A b \in Agents \ {a} : h[b] = f[b]
  BY <1>2, <1>5 DEF Ratio, A!Rated
<1>8. A!SumFunction(h) = A!SumFunction(f) + (h[a] - f[a])
  BY <1>7, CommonsConstants, CommonsSumEdit
<1>. QED
  BY <1>2, <1>3, <1>4, <1>5, <1>6, <1>8

LEMMA UpsertInstallKeeps ==
  ASSUME CommonsTyped, CallsApart, MarketKept, corner = "market", NEW w \in Workers,
         UNCHANGED <<corner, overlap, trouble>>, A!UpsertInstall(w)
  PROVE  JobsTyped' /\ CallsApart' /\ RowsOfMarket' /\ MarketKept'
<1>1. JobsTyped /\ RowsOfMarket
  BY DEF CommonsTyped
<1>2. /\ job[w] # None /\ job[w].do = "install" /\ job[w].at = "upsert"
      /\ UNCHANGED <<begun, tool>>
      /\ installed' = [installed EXCEPT ![job[w].who] =
           IF job[w].read.rating # A!Unrated THEN job[w].read.rating
           ELSE IF job[w].read.had # None THEN job[w].read.had ELSE A!Unrated]
      /\ A!Continue(w, [job[w] EXCEPT
           !.at = IF job[w].read.had = None THEN "count" ELSE "rate",
           !.tell = IF job[w].read.had = None THEN {Author} \ {job[w].who} ELSE {}])
  BY DEF A!UpsertInstall, A!At
<1>3. Installs(w)
  BY corner = "market" DEF MarketKept
<1>4. PICK c \in A!Calls, a \in Agents, r \in A!Installing :
        /\ c = job[w] /\ a = c.who /\ r = c.read
        /\ r.had \in Nat \cup {None} /\ r.rating \in Ratings \cup {0} /\ r.rating \in Nat
        /\ r.tool.count < begun
        /\ r.had # None => a \in Owners
        /\ overlap # "any" => r.had = installed[a]
  <2>1. job[w] \in A!Calls /\ job[w].who \in Agents
    BY <1>1, <1>2, CallFacts
  <2>2. /\ job[w].read \in A!Installing /\ job[w].read.tool.count < begun
        /\ job[w].read.rating \in Ratings \cup {0}
        /\ job[w].read.had # None => job[w].who \in Owners
        /\ overlap # "any" => job[w].read.had = installed[job[w].who]
    BY <1>2, <1>3 DEF Installs, A!Unrated
  <2>3. job[w].read.had \in Nat \cup {None} /\ job[w].read.rating \in Nat
    BY <2>2 DEF A!Installing
  <2>. QED
    BY <2>1, <2>2, <2>3
<1>5. PICK x \in Nat : /\ x = IF r.rating # 0 THEN r.rating ELSE IF r.had # None THEN r.had ELSE 0
                       /\ installed' = [installed EXCEPT ![a] = x]
  BY <1>2, <1>4 DEF A!Unrated
<1>6. PICK t \in SUBSET Agents : t = IF r.had = None THEN {Author} \ {a} ELSE {}
  BY CommonsConstants
<1>7. PICK at \in {"count", "rate"} : at = IF r.had = None THEN "count" ELSE "rate"
  OBVIOUS
<1>8. PICK d \in A!Calls : /\ d = [c EXCEPT !.at = at, !.tell = t]
                           /\ d.do = "install" /\ d.at = at /\ d.who = a /\ d.read = r
  <2>1. PICK d : d = [c EXCEPT !.at = at, !.tell = t]
    OBVIOUS
  <2>2. d \in A!Calls /\ d.do = c.do /\ d.at = at /\ d.who = c.who /\ d.read = c.read
    BY <2>1 DEF A!Calls
  <2>. QED
    BY <1>2, <1>4, <2>1, <2>2
<1>9. /\ JobsTyped' /\ CallsApart' /\ job'[w] = d
      /\ \A v \in Workers \ {w} : job'[v] = job[v]
      /\ overlap = "none" => \A v \in Workers \ {w} : job[v] = None
  <2>1. job' = [job EXCEPT ![w] = d]
    BY <1>2, <1>4, <1>6, <1>7, <1>8 DEF A!Continue
  <2>. QED
    BY <1>1, <1>2, <1>4, <1>8, <2>1, NextStatement
<1>10. d # None
  BY NoCallIsNone
<1>11. /\ installed' \in [Agents -> Nat \cup {None}] /\ Owners' = Owners \cup {a}
       /\ Cardinality(A!Rated') =
            IF a \in A!Rated <=> x \in Ratings THEN Cardinality(A!Rated)
            ELSE IF x \in Ratings THEN Cardinality(A!Rated) + 1
            ELSE Cardinality(A!Rated) - 1
       /\ A!SumFunction([b \in Agents |-> Ratio(b)]')
            = A!SumFunction([b \in Agents |-> Ratio(b)])
                + ((IF x \in Ratings THEN x ELSE 0) - Ratio(a))
  BY <1>1, <1>5, RowWritten
<1>12. RowsOfMarket' /\ begun \in Nat
  BY <1>1, <1>2, <1>11 DEF RowsOfMarket, JobsTyped
<1>13. tool'.installs + Cardinality(Begins') <= begun' /\ tool'.count <= begun'
  <2>1. w \in Begins
    BY <1>2 DEF Begins
  <2>2. PICK m, n \in Nat : /\ m = Cardinality(Begins) /\ n = Cardinality(Begins')
                            /\ n = m \/ n + 1 = m
    <3>1. CASE w \in Begins'
      BY <1>9, <2>1, <3>1, BeginsMoves
    <3>2. CASE w \notin Begins'
      BY <1>9, <2>1, <3>2, BeginsMoves
    <3>. QED
      BY <3>1, <3>2
  <2>3. tool.installs + m <= begun /\ tool.count <= begun
    BY <2>2, corner = "market" DEF MarketKept
  <2>. QED
    BY <1>1, <1>2, <1>12, <2>2, <2>3, InstalledIs
<1>14. ASSUME NEW v \in Workers PROVE Installs(v)'
  <2>1. Installs(v) /\ job[v] \in A!Calls \cup {None}
    BY <1>1, corner = "market" DEF MarketKept, JobsTyped
  <2>2. CASE v = w
    BY <1>2, <1>4, <1>7, <1>8, <1>9, <2>2 DEF Installs, A!Unrated
  <2>3. CASE v # w
    <3>1. ASSUME overlap # "any", job[v] # None
          PROVE  installed'[job[v].who] = installed[job[v].who]
      <4>1. job[v].who \in Agents \ {a}
        BY <1>1, <1>2, <1>4, <2>3, <3>1, CallFacts DEF CallsApart
      <4>2. installed \in [Agents -> Nat \cup {None}]
        BY <1>1 DEF RowsOfMarket
      <4>. QED
        BY <1>5, <4>1, <4>2
    <3>. QED
      BY <1>2, <1>9, <1>11, <1>12, <2>1, <2>3, <3>1, InstallsStays
  <2>. QED
    BY <2>2, <2>3
<1>15. ~trouble => InstallsKept'
  <2>1. SUFFICES ASSUME ~trouble PROVE InstallsKept'
    OBVIOUS
  <2>2. PICK i, h, m, n \in Nat :
          /\ i = tool.installs /\ h = Cardinality(Owners)
          /\ m = Cardinality(Counting("install")) /\ n = Cardinality(Counting("install")')
          /\ n = IF r.had = None THEN m + 1 ELSE m
    <3>1. ~A!At(w, "install", "count") /\ (A!At(w, "install", "count")' <=> r.had = None)
      BY <1>2, <1>7, <1>8, <1>9, <1>10 DEF A!At
    <3>2. tool.installs \in Nat /\ Cardinality(Owners) \in Nat
      BY <1>1, InstalledIs
    <3>3. /\ Cardinality(Counting("install")) \in Nat
          /\ Cardinality(Counting("install")') \in Nat
      BY <1>9, CountingMoves
    <3>4. Cardinality(Counting("install")') =
            IF r.had = None THEN Cardinality(Counting("install")) + 1
            ELSE Cardinality(Counting("install"))
      <4>1. CASE r.had = None
        BY <1>9, <3>1, <4>1, CountingMoves
      <4>2. CASE r.had # None
        BY <1>9, <3>1, <4>2, CountingMoves
      <4>. QED
        BY <4>1, <4>2
    <3>. QED
      BY <3>2, <3>3, <3>4
  <2>3. i + m >= h /\ (overlap # "any" => i + m = h)
    BY <2>1, <2>2, corner = "market" DEF MarketKept, InstallsKept
  <2>4. Cardinality(Owners') = IF a \in Owners THEN h ELSE h + 1
    <3>1. CASE a \in Owners
      <4>1. Owners' = Owners
        BY <1>11, <3>1
      <4>. QED
        BY <2>2, <3>1, <4>1
    <3>2. CASE a \notin Owners
      BY <1>1, <1>11, <2>2, <3>2, InstalledIs, FS_AddElement
    <3>. QED
      BY <3>1, <3>2
  <2>5. overlap # "any" => (a \in Owners <=> r.had # None)
    BY <1>4 DEF Owners
  <2>6. /\ i + n >= Cardinality(Owners')
        /\ overlap # "any" => i + n = Cardinality(Owners')
    <3>1. CASE r.had = None
      BY <2>2, <2>3, <2>4, <2>5, <3>1
    <3>2. CASE r.had # None
      BY <1>4, <2>2, <2>3, <2>4, <2>5, <3>2
    <3>. QED
      BY <3>1, <3>2
  <2>. QED
    BY <1>2, <2>2, <2>6 DEF InstallsKept
<1>16. ~trouble /\ overlap = "none" => RatingsKept'
  <2>1. SUFFICES ASSUME ~trouble, overlap = "none" PROVE RatingsKept'
    OBVIOUS
  <2>2. RatingsKept
    BY <2>1, corner = "market" DEF MarketKept
  <2>3. \A v \in Workers : v = w \/ (job[v] = None /\ job'[v] = None)
    BY <1>9, <2>1
  <2>4. /\ tool.count = Cardinality(A!Rated)
        /\ tool.sum = A!SumFunction([b \in Agents |-> Ratio(b)])
    <3>1. \A v \in Workers : ~WillRate(v)
      BY <1>2, <2>3 DEF WillRate
    <3>. QED
      BY <2>2, <3>1 DEF RatingsKept
  <2>5. /\ a \in A!Rated <=> r.had \in Ratings
        /\ Ratio(a) = IF r.had \in Ratings THEN r.had ELSE 0
    BY <1>4, <2>1 DEF A!Rated, Ratio
  <2>6. None \notin Ratings /\ 0 \notin Ratings
    BY CommonsConstants
  <2>7. PICK n \in Nat, s \in Int, q \in Nat :
          n = Cardinality(A!Rated) /\ s = A!SumFunction([b \in Agents |-> Ratio(b)]) /\ q = Ratio(a)
    BY <1>1, InstalledIs
  <2>8. \A v \in Workers : WillRate(v)' <=> v = w /\ r.rating \notin {0, r.had}
    BY <1>7, <1>8, <1>9, <1>10, <2>3 DEF WillRate, Rates, A!Unrated
  <2>9. \A v \in Workers : job'[v] # None =>
           job'[v].read.tool.sum = tool'.sum /\ job'[v].read.tool.count = tool'.count
    <3>1. r.tool.sum = tool.sum /\ r.tool.count = tool.count
      BY <1>2, <1>4, <2>2 DEF RatingsKept
    <3>2. job'[w].read = r
      BY <1>8, <1>9
    <3>. QED
      BY <1>2, <2>3, <3>1, <3>2
  <2>10. CASE r.rating \notin {0, r.had}
    <3>1. x = r.rating /\ x \in Ratings
      BY <1>4, <1>5, <2>10
    <3>2. Cardinality(A!Rated') = n + IF r.had \in Ratings THEN 0 ELSE 1
      BY <1>11, <2>5, <2>7, <3>1
    <3>3. A!SumFunction([b \in Agents |-> Ratio(b)]') = s + (r.rating - q)
      BY <1>11, <2>7, <3>1
    <3>5. Old(job[w])' = q
      BY <1>8, <1>9, <2>5, <2>7 DEF Old
    <3>6. \A v \in Workers : WillRate(v)' =>
            /\ tool'.count + (IF job'[v].read.had \in Ratings THEN 0 ELSE 1)
                 = Cardinality(A!Rated')
            /\ tool'.sum + (job'[v].read.rating - Old(job[v])')
                 = A!SumFunction([b \in Agents |-> Ratio(b)]')
      <4>1. job'[w].read = r /\ tool'.count = n /\ tool'.sum = s
        BY <1>2, <1>8, <1>9, <2>4, <2>7
      <4>. QED
        BY <2>8, <3>2, <3>3, <3>5, <4>1
    <3>7. \E v \in Workers : WillRate(v)'
      BY <2>8, <2>10
    <3>. QED
      BY <2>9, <3>6, <3>7 DEF RatingsKept
  <2>11. CASE r.rating \in {0, r.had}
    <3>1. (x \in Ratings <=> a \in A!Rated) /\ (x \in Ratings => x = q)
      BY <1>4, <1>5, <2>5, <2>6, <2>7, <2>11
    <3>2. a \notin A!Rated => q = 0
      BY <2>5, <2>7
    <3>3. Cardinality(A!Rated') = n
      BY <1>11, <2>7, <3>1
    <3>4. A!SumFunction([b \in Agents |-> Ratio(b)]') = s
      BY <1>11, <2>7, <3>1, <3>2
    <3>5. \A v \in Workers : ~WillRate(v)'
      BY <2>8, <2>11
    <3>6. tool'.count = n /\ tool'.sum = s
      BY <1>2, <2>4, <2>7
    <3>. QED
      BY <2>9, <3>3, <3>4, <3>5, <3>6 DEF RatingsKept
  <2>. QED
    BY <2>10, <2>11
<1>17. MarketKept'
  BY <1>13, <1>14, <1>15, <1>16, corner = "market" DEF MarketKept
<1>. QED
  BY <1>9, <1>12, <1>17

LEMMA RateKeeps ==
  ASSUME CommonsTyped, CallsApart, MarketKept, corner = "market", NEW w \in Workers,
         UNCHANGED <<corner, overlap, trouble>>, A!RateTool(w)
  PROVE  JobsTyped' /\ CallsApart' /\ RowsOfMarket' /\ MarketKept'
<1>1. JobsTyped /\ RowsOfMarket /\ begun \in Nat
  BY DEF CommonsTyped, JobsTyped
<1>2. /\ job[w] # None /\ job[w].do = "install" /\ job[w].at = "rate" /\ A!Return(w)
      /\ UNCHANGED <<begun, installed>>
      /\ \/ job[w].read.rating \in {A!Unrated, job[w].read.had} /\ UNCHANGED tool
         \/ /\ job[w].read.rating \notin {A!Unrated, job[w].read.had}
            /\ tool' = [tool EXCEPT
                 !.sum = job[w].read.tool.sum + job[w].read.rating
                           - IF job[w].read.had \in Ratings THEN job[w].read.had ELSE 0,
                 !.count = job[w].read.tool.count + IF job[w].read.had \in Ratings THEN 0 ELSE 1]
         \/ trouble /\ UNCHANGED tool
  BY DEF A!RateTool, A!At
<1>3. PICK r \in A!Installing :
        /\ r = job[w].read /\ r.tool.count < begun
        /\ r.rating \in Nat /\ r.tool.sum \in Int /\ r.tool.count \in Nat
  <2>1. Installs(w)
    BY corner = "market" DEF MarketKept
  <2>2. job[w].read \in A!Installing /\ job[w].read.tool.count < begun
    BY <1>2, <2>1 DEF Installs
  <2>3. /\ job[w].read.rating \in Nat /\ job[w].read.tool.sum \in Int
        /\ job[w].read.tool.count \in Nat
    BY <2>2 DEF A!Installing, A!Tools
  <2>. QED
    BY <2>2, <2>3
<1>4. PICK o \in Nat : o = IF r.had \in Ratings THEN r.had ELSE 0
  BY CommonsConstants
<1>5. PICK n \in {0, 1} : n = IF r.had \in Ratings THEN 0 ELSE 1
  OBVIOUS
<1>6. /\ JobsTyped' /\ CallsApart' /\ job'[w] = None
      /\ \A v \in Workers \ {w} : job'[v] = job[v]
      /\ overlap = "none" => \A v \in Workers \ {w} : job[v] = None
  BY <1>1, <1>2, NextStatement DEF A!Return
<1>7. /\ tool' \in A!Tools /\ tool'.installs = tool.installs
      /\ \/ r.rating \in {0, r.had} /\ tool' = tool
         \/ /\ r.rating \notin {0, r.had}
            /\ tool'.sum = r.tool.sum + r.rating - o /\ tool'.count = r.tool.count + n
         \/ trouble /\ tool' = tool
  <2>1. tool \in A!Tools
    BY <1>1 DEF RowsOfMarket
  <2>2. r.tool.sum + r.rating - o \in Int /\ r.tool.count + n \in Nat
    BY <1>3
  <2>3. \/ r.rating \in {0, r.had} /\ tool' = tool
        \/ /\ r.rating \notin {0, r.had}
           /\ tool' = [tool EXCEPT !.sum = r.tool.sum + r.rating - o, !.count = r.tool.count + n]
        \/ trouble /\ tool' = tool
    BY <1>2, <1>3, <1>4, <1>5 DEF A!Unrated
  <2>4. CASE tool' = [tool EXCEPT !.sum = r.tool.sum + r.rating - o, !.count = r.tool.count + n]
    <3>1. /\ tool' \in A!Tools /\ tool'.installs = tool.installs
          /\ tool'.sum = r.tool.sum + r.rating - o /\ tool'.count = r.tool.count + n
      BY <2>1, <2>2, <2>4 DEF A!Tools
    <3>. QED
      BY <2>1, <2>3, <3>1
  <2>5. CASE tool' = tool
    BY <2>1, <2>3, <2>4, <2>5
  <2>. QED
    BY <2>3, <2>4, <2>5
<1>8. RowsOfMarket' /\ Owners' = Owners
  BY <1>1, <1>2, <1>7 DEF RowsOfMarket, Owners
<1>9. tool'.installs + Cardinality(Begins') <= begun' /\ tool'.count <= begun'
  <2>1. w \notin Begins /\ w \notin Begins'
    BY <1>2, <1>6 DEF Begins
  <2>2. Cardinality(Begins') = Cardinality(Begins)
    BY <1>6, <2>1, BeginsMoves
  <2>3. tool.installs + Cardinality(Begins) <= begun /\ tool.count <= begun
    BY corner = "market" DEF MarketKept
  <2>4. tool'.count <= begun
    BY <1>1, <1>3, <1>5, <1>7, <2>3
  <2>. QED
    BY <1>2, <1>7, <2>2, <2>3, <2>4
<1>10. ASSUME NEW v \in Workers PROVE Installs(v)'
  <2>1. Installs(v) /\ job[v] \in A!Calls \cup {None}
    BY <1>1, corner = "market" DEF MarketKept, JobsTyped
  <2>2. CASE v = w
    BY <1>6, <2>2 DEF Installs
  <2>3. CASE v # w
    BY <1>1, <1>2, <1>6, <1>8, <2>1, <2>3, InstallsStays
  <2>. QED
    BY <2>2, <2>3
<1>11. ~trouble => InstallsKept'
  <2>1. Cardinality(Counting("install")') = Cardinality(Counting("install"))
    <3>1. ~A!At(w, "install", "count") /\ ~A!At(w, "install", "count")'
      BY <1>2, <1>6 DEF A!At
    <3>. QED
      BY <1>6, <3>1, CountingMoves
  <2>. QED
    BY <1>7, <1>8, <2>1, corner = "market" DEF MarketKept, InstallsKept
<1>12. ~trouble /\ overlap = "none" => RatingsKept'
  <2>1. SUFFICES ASSUME ~trouble, overlap = "none" PROVE RatingsKept'
    OBVIOUS
  <2>2. RatingsKept
    BY <2>1, corner = "market" DEF MarketKept
  <2>3. \A v \in Workers : job'[v] = None /\ (v # w => job[v] = None)
    BY <1>6, <2>1
  <2>4. A!Rated' = A!Rated /\ [b \in Agents |-> Ratio(b)]' = [b \in Agents |-> Ratio(b)]
    BY <1>2 DEF A!Rated, Ratio
  <2>5. r.tool.sum = tool.sum /\ r.tool.count = tool.count
    BY <1>2, <1>3, <2>2 DEF RatingsKept
  <2>6. PICK c \in Nat, s, x \in Int : c = tool.count /\ s = tool.sum /\ x = r.rating
    BY <1>1, <1>3, InstalledIs
  <2>7. /\ tool'.count = Cardinality(A!Rated)
        /\ tool'.sum = A!SumFunction([b \in Agents |-> Ratio(b)])
    <3>1. CASE r.rating \in {0, r.had}
      <4>1. tool' = tool /\ \A v \in Workers : ~WillRate(v)
        BY <1>2, <1>3, <1>7, <2>1, <2>3, <3>1 DEF WillRate, Rates, A!Unrated
      <4>. QED
        BY <2>2, <4>1 DEF RatingsKept
    <3>2. CASE r.rating \notin {0, r.had}
      <4>1. WillRate(w) /\ Old(job[w]) = o
        BY <1>2, <1>3, <1>4, <3>2 DEF WillRate, Rates, A!Unrated, Old
      <4>2. /\ c + n = Cardinality(A!Rated)
            /\ s + (x - o) = A!SumFunction([b \in Agents |-> Ratio(b)])
        BY <1>3, <1>5, <2>2, <2>6, <4>1 DEF RatingsKept
      <4>3. tool'.sum = s + x - o /\ tool'.count = c + n
        BY <1>7, <2>1, <2>5, <2>6, <3>2
      <4>4. s + x - o = s + (x - o)
        OBVIOUS
      <4>. QED
        BY <4>2, <4>3, <4>4
    <3>. QED
      BY <3>1, <3>2
  <2>8. \A v \in Workers : ~WillRate(v)'
    BY <2>3 DEF WillRate
  <2>. QED
    BY <2>3, <2>4, <2>7, <2>8 DEF RatingsKept
<1>13. MarketKept'
  BY <1>9, <1>10, <1>11, <1>12, corner = "market" DEF MarketKept
<1>. QED
  BY <1>6, <1>8, <1>13

\* An install is told to the author, and goes on to its rating.
LEMMA InstallTold ==
  ASSUME CommonsTyped, CallsApart, MarketKept, NEW w \in Workers,
         UNCHANGED <<corner, overlap, trouble>>, A!CreateNotification(w)
  PROVE  MarketKept'
<1>1. /\ JobsTyped /\ RowsOfMarket /\ UNCHANGED <<begun, tool, installed>> /\ begun \in Nat
      /\ Owners' = Owners
  BY DEF CommonsTyped, A!CreateNotification, A!market, JobsTyped, Owners
<1>2. CASE corner # "market"
  BY <1>1, <1>2 DEF MarketKept
<1>3. CASE corner = "market"
  <2>1. PICK d \in A!Calls \cup {None} :
             /\ job[w] # None /\ job[w].at = "notify" /\ job'[w] = d
             /\ \A v \in Workers \ {w} : job'[v] = job[v]
             /\ overlap = "none" => \A v \in Workers \ {w} : job[v] = None
             /\ d # None =>
                  /\ d.do = job[w].do /\ d.who = job[w].who /\ d.read = job[w].read
                  /\ d.at \in {"notify", "rate"}
             /\ d = None /\ ~trouble => job[w].do # "install"
    BY <1>1, NoticeMoves
  <2>2. \A v \in Workers : Installs(v) /\ job[v] \in A!Calls \cup {None}
    BY <1>1, <1>3 DEF MarketKept, JobsTyped
  <2>3. job[w].do = "install" /\ (~trouble => d # None)
    BY <2>1, <2>2 DEF Installs
  <2>4. Cardinality(Begins') = Cardinality(Begins)
    <3>1. w \notin Begins /\ w \notin Begins'
      BY <2>1 DEF Begins
    <3>. QED
      BY <2>1, <3>1, BeginsMoves
  <2>5. Cardinality(Counting("install")') = Cardinality(Counting("install"))
    <3>1. ~A!At(w, "install", "count") /\ ~A!At(w, "install", "count")'
      BY <2>1 DEF A!At
    <3>. QED
      BY <2>1, <3>1, CountingMoves
  <2>6. ASSUME NEW v \in Workers PROVE Installs(v)'
    <3>1. CASE v = w
      BY <1>1, <2>1, <2>2, <3>1 DEF Installs
    <3>2. CASE v # w
      BY <1>1, <2>1, <2>2, <3>2, InstallsStays
    <3>. QED
      BY <3>1, <3>2
  <2>7. ~trouble => InstallsKept'
    BY <1>1, <1>3, <2>5 DEF MarketKept, InstallsKept
  <2>8. ~trouble /\ overlap = "none" => RatingsKept'
    <3>1. SUFFICES ASSUME ~trouble, overlap = "none" PROVE RatingsKept'
      OBVIOUS
    <3>2. RatingsKept
      BY <1>3, <3>1 DEF MarketKept
    <3>3. \A v \in Workers : v = w \/ (job[v] = None /\ job'[v] = None)
      BY <2>1, <3>1
    <3>4. \A v \in Workers :
            (WillRate(v)' <=> WillRate(v)) /\ (WillRate(v)' => job'[v].read = job[v].read)
      BY <2>1, <2>3, <3>1, <3>3 DEF WillRate, Rates
    <3>5. \A v \in Workers : job'[v] # None =>
            job'[v].read.tool.sum = tool.sum /\ job'[v].read.tool.count = tool.count
      BY <2>1, <3>2, <3>3 DEF RatingsKept
    <3>. QED
      BY <1>1, <3>2, <3>4, <3>5, RatingsStay
  <2>9. tool'.installs + Cardinality(Begins') <= begun' /\ tool'.count <= begun'
    BY <1>1, <1>3, <2>4 DEF MarketKept
  <2>. QED
    BY <1>3, <2>6, <2>7, <2>8, <2>9 DEF MarketKept
<1>. QED
  BY <1>2, <1>3

-----------------------------------------------------------------------------
(* Answers *)

\* No answer begins or ends, and no row changes.
LEMMA QueriesStay ==
  ASSUME QueriesKept, UNCHANGED <<corner, trouble, answers, answered>>,
         NEW w \in Workers, \A v \in Workers \ {w} : job'[v] = job[v],
         ~A!At(w, "answer", "status") /\ ~A!At(w, "answer", "status")'
  PROVE  QueriesKept'
<1>1. \A v \in Workers : A!At(v, "answer", "status")' <=> A!At(v, "answer", "status")
  BY DEF A!At
<1>. QED
  BY <1>1 DEF QueriesKept

LEMMA AnswerKeeps ==
  ASSUME CommonsTyped, CallsApart, QueriesKept, corner = "queries", NEW w \in Workers,
         NEW a \in Agents, UNCHANGED <<corner, overlap, trouble>>, A!AnswerQuery(w, a)
  PROVE  JobsTyped' /\ CallsApart' /\ RowsOfQueries' /\ QueriesKept'
<1>1. JobsTyped /\ RowsOfQueries
  BY DEF CommonsTyped
<1>2. /\ A!MayBegin(w, a) /\ answers' = answers + 1 /\ UNCHANGED answered
      /\ A!Begin(w, Fresh("answer", a, "status"))
  BY DEF A!AnswerQuery, Fresh
<1>3. PICK c \in A!Calls : A!Begin(w, c) /\ c.do = "answer" /\ c.at = "status" /\ c.who = a
  BY <1>2, FreshFacts
<1>4. /\ JobsTyped' /\ CallsApart' /\ job'[w] = c /\ c # None
      /\ \A v \in Workers \ {w} : job'[v] = job[v]
  BY <1>1, <1>2, <1>3, NewCall
<1>5. RowsOfQueries' /\ answers' > 0
  BY <1>1, <1>2 DEF RowsOfQueries
<1>6. A!At(w, "answer", "status")'
  BY <1>3, <1>4 DEF A!At
<1>7. QueriesKept'
  BY <1>5, <1>6, corner = "queries" DEF QueriesKept
<1>. QED
  BY <1>4, <1>5, <1>7

LEMMA StatusKeeps ==
  ASSUME CommonsTyped, CallsApart, QueriesKept, corner = "queries", NEW w \in Workers,
         UNCHANGED <<corner, overlap, trouble>>, A!SetAnswered(w)
  PROVE  JobsTyped' /\ CallsApart' /\ RowsOfQueries' /\ QueriesKept'
<1>1. JobsTyped /\ RowsOfQueries
  BY DEF CommonsTyped
<1>2. /\ A!At(w, "answer", "status") /\ job[w] # None /\ UNCHANGED <<begun, answers>>
      /\ answered' = TRUE \/ (trouble /\ UNCHANGED answered)
  BY DEF A!SetAnswered, A!At
<1>3. /\ JobsTyped' /\ CallsApart' /\ job'[w] = None
      /\ \A v \in Workers \ {w} : job'[v] = job[v]
  BY <1>1, <1>2, NextStatement DEF A!SetAnswered, A!Return
<1>4. answers > 0
  BY <1>2, corner = "queries" DEF QueriesKept
<1>5. RowsOfQueries'
  BY <1>1, <1>2 DEF RowsOfQueries
<1>6. QueriesKept'
  BY <1>2, <1>4, corner = "queries" DEF QueriesKept
<1>. QED
  BY <1>3, <1>5, <1>6

LEMMA PredictionKeeps ==
  ASSUME CommonsTyped, CallsApart, QueriesKept, NEW w \in Workers,
         NEW a \in Agents, UNCHANGED <<corner, overlap, trouble>>, A!ResolvePrediction(w, a)
  PROVE  JobsTyped' /\ CallsApart' /\ RowsOfQueries' /\ QueriesKept'
<1>1. JobsTyped /\ RowsOfQueries
  BY DEF CommonsTyped
<1>2. A!Repeat(w) /\ UNCHANGED <<answers, answered>>
  BY DEF A!ResolvePrediction
<1>3. JobsTyped' /\ CallsApart' /\ job' = job
  BY <1>1, <1>2, Repeated
<1>4. QueriesKept'
  BY <1>2, <1>3 DEF QueriesKept, A!At
<1>5. RowsOfQueries'
  BY <1>1, <1>2 DEF RowsOfQueries
<1>. QED
  BY <1>3, <1>4, <1>5

-----------------------------------------------------------------------------
(* Every step of the commons *)

\* What is kept of a corner stays so where its rows do and calls are made
\* elsewhere.
LEMMA Elsewhere ==
  ASSUME CommonsInv, UNCHANGED corner
  PROVE  /\ corner # "feed" /\ UNCHANGED A!feed => FeedKept'
         /\ corner # "channels" => ChannelsKept'
         /\ corner # "threads" /\ UNCHANGED messages => ThreadsKept'
         /\ corner # "claims" /\ UNCHANGED A!claim => ClaimsKept'
         /\ corner # "market" /\ UNCHANGED A!market => MarketKept'
         /\ corner # "queries" /\ UNCHANGED <<answers, answered>> => QueriesKept'
         /\ UNCHANGED A!feed => RowsOfPosts'
         /\ UNCHANGED <<owed, messages, told, unread>> => RowsOfTalk'
         /\ UNCHANGED A!claim => RowsOfClaims'
         /\ UNCHANGED A!market => RowsOfMarket'
         /\ UNCHANGED <<answers, answered>> => RowsOfQueries'
<1>1. /\ corner # "feed" /\ UNCHANGED A!feed => FeedKept'
      /\ UNCHANGED A!feed => RowsOfPosts'
  BY DEF CommonsInv, CommonsTyped, FeedKept, RowsOfPosts, A!feed
<1>2. /\ corner # "channels" => ChannelsKept'
      /\ corner # "threads" /\ UNCHANGED messages => ThreadsKept'
      /\ UNCHANGED <<owed, messages, told, unread>> => RowsOfTalk'
  BY DEF CommonsInv, CommonsTyped, ChannelsKept, ThreadsKept, RowsOfTalk
<1>3. /\ corner # "claims" /\ UNCHANGED A!claim => ClaimsKept'
      /\ UNCHANGED A!claim => RowsOfClaims'
  BY DEF CommonsInv, CommonsTyped, ClaimsKept, RowsOfClaims, A!claim
<1>4. /\ corner # "market" /\ UNCHANGED A!market => MarketKept'
      /\ UNCHANGED A!market => RowsOfMarket'
  BY DEF CommonsInv, CommonsTyped, MarketKept, RowsOfMarket, A!market, Owners
<1>5. /\ corner # "queries" /\ UNCHANGED <<answers, answered>> => QueriesKept'
      /\ UNCHANGED <<answers, answered>> => RowsOfQueries'
  BY DEF CommonsInv, CommonsTyped, QueriesKept, RowsOfQueries
<1>. QED
  BY <1>1, <1>2, <1>3, <1>4, <1>5

LEMMA NoticeStep ==
  ASSUME CommonsInv, NEW w \in Workers, A!CreateNotification(w)
  PROVE  CommonsInv'
<1>1. /\ CommonsTyped /\ CallsApart /\ JobsTyped /\ begun \in Nat /\ likesCount \in Nat
      /\ FeedKept /\ ChannelsKept /\ ThreadsKept /\ ClaimsKept /\ MarketKept /\ QueriesKept
  BY DEF CommonsInv, CommonsTyped, JobsTyped, RowsOfPosts
<1>2. UNCHANGED <<corner, overlap, trouble, begun, A!claim, A!feed, A!market, answers, answered>>
  BY DEF A!CreateNotification, A!fixed, A!query
<1>3. UNCHANGED <<likes, likesCount, comments, commentsCount, stakes, scores, confidence,
                  debited, resolved>>
  BY <1>2 DEF A!claim, A!feed
<1>4. /\ JobsTyped' /\ CallsApart' /\ \A v \in Workers \ {w} : job'[v] = job[v]
      /\ \A do, at : at \notin {"notify", "rate"} => ~A!At(w, do, at) /\ ~A!At(w, do, at)'
  <2>1. PICK d \in A!Calls \cup {None} :
          /\ JobsTyped' /\ CallsApart'
          /\ job[w] # None /\ job[w].at = "notify" /\ job'[w] = d
          /\ \A v \in Workers \ {w} : job'[v] = job[v]
          /\ d # None => d.at \in {"notify", "rate"}
    BY <1>1, NoticeMoves
  <2>. QED
    BY <2>1 DEF A!At
<1>5. FeedKept'
  BY <1>1, <1>2, <1>3, <1>4, FeedStays
<1>6. ChannelsKept' /\ ThreadsKept' /\ MarketKept' /\ RowsOfTalk'
  BY <1>1, <1>2, NoticeKeeps, ThreadTold, InstallTold, NoticeTypes
<1>7. ClaimsKept'
  BY <1>1, <1>2, <1>3, <1>4, ClaimsStay
<1>8. QueriesKept'
  BY <1>1, <1>2, <1>4, QueriesStay
<1>9. RowsOfPosts' /\ RowsOfClaims' /\ RowsOfMarket' /\ RowsOfQueries'
  BY <1>2, Elsewhere
<1>. QED
  BY <1>4, <1>5, <1>6, <1>7, <1>8, <1>9 DEF CommonsInv, CommonsTyped

LEMMA FeedStep ==
  ASSUME CommonsInv, NEW w \in Workers, A!Feed(w)
  PROVE  CommonsInv'
<1>1. CommonsTyped /\ CallsApart /\ FeedKept /\ corner = "feed"
  BY DEF CommonsInv, A!Feed
<1>2. UNCHANGED <<corner, overlap, trouble>>
  BY DEF A!Feed, A!fixed
<1>3. UNCHANGED <<A!claim, A!market, answers, answered, owed, messages, told, unread>>
  BY DEF A!Feed, A!query, A!talk, A!notices
<1>4. JobsTyped' /\ CallsApart' /\ RowsOfPosts' /\ FeedKept'
  <2>1. CASE A!CountPost(w)
    BY <1>1, <1>2, <2>1, CountKeeps
  <2>2. ASSUME NEW a \in Agents,
               \/ A!LikePost(w, a) \/ A!UnlikePost(w, a) \/ A!CommentOnPost(w, a)
               \/ A!FollowAgent(w, a) \/ A!UnfollowAgent(w, a)
        PROVE  JobsTyped' /\ CallsApart' /\ RowsOfPosts' /\ FeedKept'
    BY <1>1, <1>2, <2>2, LikeKeeps, UnlikeKeeps, CommentKeeps, FollowKeeps
  <2>. QED
    BY <2>1, <2>2 DEF A!Feed
<1>. QED
  BY <1>1, <1>2, <1>3, <1>4, Elsewhere DEF CommonsInv, CommonsTyped

LEMMA ThreadsStep ==
  ASSUME CommonsInv, NEW w \in Workers, A!Threads(w)
  PROVE  CommonsInv'
<1>1. CommonsTyped /\ CallsApart /\ ThreadsKept /\ corner = "threads"
  BY DEF CommonsInv, A!Threads
<1>2. UNCHANGED <<corner, overlap, trouble>>
  BY DEF A!Threads, A!fixed
<1>3. UNCHANGED <<A!claim, A!feed, A!market, answers, answered>>
  BY DEF A!Threads, A!query
<1>4. JobsTyped' /\ CallsApart' /\ RowsOfTalk' /\ ThreadsKept'
  <2>1. CASE A!MarkThreadRead(w) \/ A!MarkDmNotificationsRead(w)
    BY <1>1, <1>2, <2>1, MarkKeeps, RetireKeeps
  <2>2. ASSUME NEW a \in A!Peers, A!GetDmThread(w, a) \/ A!ReadThread(w, a)
        PROVE  JobsTyped' /\ CallsApart' /\ RowsOfTalk' /\ ThreadsKept'
    BY <1>1, <1>2, <2>2, PeersTalk, ListKeeps
  <2>3. ASSUME NEW a \in A!Peers, NEW to \in A!Peers, A!SendDirectMessage(w, a, to)
        PROVE  JobsTyped' /\ CallsApart' /\ RowsOfTalk' /\ ThreadsKept'
    BY <1>1, <1>2, <2>3, PeersTalk, SendKeeps
  <2>. QED
    BY <2>1, <2>2, <2>3 DEF A!Threads
<1>. QED
  BY <1>1, <1>2, <1>3, <1>4, Elsewhere DEF CommonsInv, CommonsTyped

LEMMA ClaimsStep ==
  ASSUME CommonsInv, NEW w \in Workers, A!Claims(w)
  PROVE  CommonsInv'
<1>1. CommonsTyped /\ CallsApart /\ ClaimsKept /\ corner = "claims"
  BY DEF CommonsInv, A!Claims
<1>2. UNCHANGED <<corner, overlap, trouble>>
  BY DEF A!Claims, A!fixed
<1>3. UNCHANGED <<A!feed, A!market, answers, answered, owed, messages, told, unread>>
  BY DEF A!Claims, A!query, A!talk, A!notices
<1>4. JobsTyped' /\ CallsApart' /\ RowsOfClaims' /\ ClaimsKept'
  <2>1. CASE A!UpsertStake(w) \/ A!ReadStakes(w)
    BY <1>1, <1>2, <2>1, UpsertStakeKeeps, ReadStakesKeeps
  <2>2. CASE A!ReadScore(w) \/ A!UpdateConfidence(w) \/ A!ApplyResolution(w)
    BY <1>1, <1>2, <2>2, ReadScoreKeeps, ConfidenceKeeps, ApplyKeeps
  <2>3. ASSUME NEW a \in Agents, A!StakeClaim(w, a) \/ A!ResolveClaim(w, a)
        PROVE  JobsTyped' /\ CallsApart' /\ RowsOfClaims' /\ ClaimsKept'
    BY <1>1, <1>2, <2>3, StakeKeeps, ResolveKeeps
  <2>. QED
    BY <2>1, <2>2, <2>3 DEF A!Claims
<1>. QED
  BY <1>1, <1>2, <1>3, <1>4, Elsewhere DEF CommonsInv, CommonsTyped

LEMMA MarketStep ==
  ASSUME CommonsInv, NEW w \in Workers, A!Market(w)
  PROVE  CommonsInv'
<1>1. CommonsTyped /\ CallsApart /\ MarketKept /\ corner = "market"
  BY DEF CommonsInv, A!Market
<1>2. UNCHANGED <<corner, overlap, trouble>>
  BY DEF A!Market, A!fixed
<1>3. UNCHANGED <<A!claim, A!feed, answers, answered, owed, messages, told, unread>>
  BY DEF A!Market, A!query, A!talk, A!notices
<1>4. JobsTyped' /\ CallsApart' /\ RowsOfMarket' /\ MarketKept'
  <2>1. CASE A!ReadInstall(w) \/ A!UpsertInstall(w)
    BY <1>1, <1>2, <2>1, ReadInstallKeeps, UpsertInstallKeeps
  <2>2. CASE A!CountInstall(w) \/ A!RateTool(w)
    BY <1>1, <1>2, <2>2, CountInstallKeeps, RateKeeps
  <2>3. ASSUME NEW a \in Agents, A!InstallTool(w, a)
        PROVE  JobsTyped' /\ CallsApart' /\ RowsOfMarket' /\ MarketKept'
    BY <1>1, <1>2, <2>3, InstallKeeps
  <2>. QED
    BY <2>1, <2>2, <2>3 DEF A!Market
<1>. QED
  BY <1>1, <1>2, <1>3, <1>4, Elsewhere DEF CommonsInv, CommonsTyped

LEMMA QueriesStep ==
  ASSUME CommonsInv, NEW w \in Workers, A!Queries(w)
  PROVE  CommonsInv'
<1>1. CommonsTyped /\ CallsApart /\ QueriesKept /\ corner = "queries"
  BY DEF CommonsInv, A!Queries
<1>2. UNCHANGED <<corner, overlap, trouble>>
  BY DEF A!Queries, A!fixed
<1>3. UNCHANGED <<A!claim, A!feed, A!market, owed, messages, told, unread>>
  BY DEF A!Queries, A!talk, A!notices
<1>4. JobsTyped' /\ CallsApart' /\ RowsOfQueries' /\ QueriesKept'
  <2>1. CASE A!SetAnswered(w)
    BY <1>1, <1>2, <2>1, StatusKeeps
  <2>2. ASSUME NEW a \in Agents, A!AnswerQuery(w, a) \/ A!ResolvePrediction(w, a)
        PROVE  JobsTyped' /\ CallsApart' /\ RowsOfQueries' /\ QueriesKept'
    BY <1>1, <1>2, <2>2, AnswerKeeps, PredictionKeeps
  <2>. QED
    BY <2>1, <2>2 DEF A!Queries
<1>. QED
  BY <1>1, <1>2, <1>3, <1>4, Elsewhere DEF CommonsInv, CommonsTyped

LEMMA ChannelsStep ==
  ASSUME CommonsInv, NEW w \in Workers, NEW a \in Agents, A!PostChannelMessage(w, a)
  PROVE  CommonsInv'
<1>1. CommonsTyped /\ CallsApart /\ ChannelsKept /\ corner = "channels"
  BY DEF CommonsInv, A!PostChannelMessage
<1>2. UNCHANGED <<corner, overlap, trouble>>
  BY DEF A!PostChannelMessage, A!fixed
<1>3. UNCHANGED <<A!claim, A!feed, A!market, answers, answered, messages>>
  BY DEF A!PostChannelMessage, A!query
<1>4. JobsTyped' /\ CallsApart' /\ RowsOfTalk' /\ ChannelsKept'
  BY <1>1, <1>2, PostKeeps
<1>. QED
  BY <1>1, <1>2, <1>3, <1>4, Elsewhere DEF CommonsInv, CommonsTyped

LEMMA BadgeStep ==
  ASSUME CommonsInv, NEW a \in Agents, NEW b \in Agents, A!MarkNotificationRead(a, b)
  PROVE  CommonsInv'
<1>1. CommonsTyped /\ CallsApart /\ ThreadsKept /\ corner = "threads"
  BY DEF CommonsInv, A!MarkNotificationRead
<1>2. UNCHANGED <<corner, A!claim, A!feed, A!market, answers, answered>>
  BY DEF A!MarkNotificationRead, A!fixed, A!query
<1>3. JobsTyped' /\ CallsApart' /\ RowsOfTalk' /\ ThreadsKept'
  BY <1>1, BadgeReadKeeps
<1>. QED
  BY <1>1, <1>2, <1>3, Elsewhere DEF CommonsInv, CommonsTyped

LEMMA CommonsRests ==
  ASSUME CommonsInv, UNCHANGED commons
  PROVE  CommonsInv'
<1>1. CommonsTyped' /\ CallsApart'
  BY DEF commons, CommonsInv, CommonsTyped, JobsTyped, RowsOfPosts, RowsOfTalk, RowsOfClaims,
         RowsOfMarket, RowsOfQueries, CallsApart
<1>2. FeedKept' /\ ChannelsKept' /\ QueriesKept'
  BY DEF commons, CommonsInv, FeedKept, ChannelsKept, QueriesKept, Counting, Telling, A!At
<1>3. ThreadsKept'
  BY DEF commons, CommonsInv, ThreadsKept, Telling, Badge, Retires, Unseen, A!At
<1>4. ClaimsKept'
  BY DEF commons, CommonsInv, ClaimsKept, Weighed, A!Stakers, A!At
<1>5. MarketKept'
  BY DEF commons, CommonsInv, MarketKept, Owners, Begins, Installs, InstallsKept, RatingsKept,
         Ratio, Rates, Old, WillRate, Counting, A!Rated, A!At
<1>. QED
  BY <1>1, <1>2, <1>3, <1>4, <1>5 DEF CommonsInv

LEMMA CommonsStep ==
  ASSUME CommonsInv, [Next]_vars
  PROVE  CommonsInv'
<1>1. CASE A!Next
  <2>1. CASE A!Browse
    BY <2>1, CommonsRests DEF A!Browse, A!commons, commons, A!fixed, A!claim, A!feed, A!talk,
                              A!notices, A!market, A!query
  <2>2. CASE \E a, b \in Agents : A!MarkNotificationRead(a, b)
    BY <2>2, BadgeStep
  <2>3. ASSUME NEW w \in Workers,
               \/ A!CreateNotification(w) \/ A!Feed(w) \/ A!Threads(w) \/ A!Claims(w)
               \/ A!Market(w) \/ A!Queries(w)
        PROVE  CommonsInv'
    BY <2>3, NoticeStep, FeedStep, ThreadsStep, ClaimsStep, MarketStep, QueriesStep
  <2>4. CASE \E w \in Workers, a \in Agents : A!PostChannelMessage(w, a)
    BY <2>4, ChannelsStep
  <2>. QED
    BY <1>1, <2>1, <2>2, <2>3, <2>4 DEF A!Next
<1>2. CASE UNCHANGED commons
  BY <1>2, CommonsRests
<1>. QED
  BY <1>1, <1>2 DEF Next, vars

LEMMA CommonsStarts ==
  ASSUME Init PROVE CommonsInv
<1>1. A!Init /\ \A w \in Workers : job[w] = None
  BY DEF Init, A!Init
<1>2. CommonsTyped
  <2>1. JobsTyped /\ RowsOfPosts
    BY <1>1 DEF A!Init, JobsTyped, RowsOfPosts
  <2>2. [a \in Agents |-> 0] \in [Agents -> Nat]
    OBVIOUS
  <2>3. RowsOfTalk
    BY <1>1, <2>2 DEF A!Init, RowsOfTalk
  <2>4. RowsOfClaims
    BY <1>1 DEF A!Init, RowsOfClaims
  <2>5. RowsOfMarket /\ RowsOfQueries
    <3>1. [installs |-> 0, sum |-> 0, count |-> 0] \in A!Tools
      BY DEF A!Tools
    <3>2. installed \in [Agents -> Nat \cup {None}]
      BY <1>1 DEF A!Init
    <3>. QED
      BY <1>1, <3>1, <3>2 DEF A!Init, RowsOfMarket, RowsOfQueries
  <2>. QED
    BY <2>1, <2>3, <2>4, <2>5 DEF CommonsTyped
<1>3. CallsApart
  BY <1>1 DEF CallsApart
<1>4. /\ \A do : Counting(do) = {}
      /\ \A a : Telling(a) = {} /\ ~Retires(a)
      /\ \A w \in Workers : (\A do, at : ~A!At(w, do, at)) /\ ~WillRate(w) /\ Installs(w)
      /\ Begins = {} /\ Owners = {} /\ A!Stakers = {}
  BY <1>1 DEF Counting, Telling, Retires, Begins, Owners, A!Stakers, A!At, WillRate, Installs,
              A!Init
<1>5. /\ Cardinality({}) = 0 /\ \A do : Cardinality(Counting(do)) = 0
      /\ \A a : Cardinality(Telling(a)) = 0
      /\ Cardinality(Begins) = 0 /\ Cardinality(Owners) = 0
  BY <1>4, FS_EmptySet
<1>6. FeedKept
  BY <1>1, <1>4, <1>5 DEF A!Init, FeedKept
<1>7. ChannelsKept
  <2>1. ASSUME NEW a \in Agents PROVE A!SumFunction(told[a]) = 0 /\ owed[a] = 0
    <3>1. told[a] = [b \in Agents |-> 0] /\ owed[a] = 0
      BY <1>1 DEF A!Init
    <3>. QED
      BY <3>1, CommonsConstants, CommonsSumZero
  <2>. QED
    BY <1>5, <2>1 DEF ChannelsKept
<1>8. ThreadsKept
  <2>1. messages = <<>> /\ Len(messages) = 0 /\ \A a, b \in Agents : unread[a][b] = 0
    BY <1>1 DEF A!Init
  <2>2. \A a, b \in Agents : Badge(a, b) = 0 /\ Cardinality(Unseen(a, b)) \in Nat
    BY <1>2, <1>4, BadgeIs, UnseenIs DEF CommonsTyped
  <2>. QED
    BY <1>4, <2>1, <2>2 DEF ThreadsKept
<1>9. ClaimsKept
  <2>1. Weighed({}) = A!Nothing
    <3>1. Weighed(A!Stakers) = A!Nothing
      BY <1>2, WeighedNone DEF CommonsTyped
    <3>. QED
      BY <1>4, <3>1
  <2>2. A!Confidence(A!Nothing) = None
    BY DEF A!Confidence, A!Nothing, A!Positions
  <2>. QED
    BY <1>1, <1>4, <2>1, <2>2 DEF A!Init, ClaimsKept
<1>10. MarketKept
  <2>1. tool = [installs |-> 0, sum |-> 0, count |-> 0] /\ begun = 0
    BY <1>1 DEF A!Init
  <2>2. A!Rated = {} /\ \A a \in Agents : Ratio(a) = 0
    BY <1>1, CommonsConstants DEF A!Init, A!Rated, Ratio
  <2>3. A!SumFunction([a \in Agents |-> Ratio(a)]) = 0 /\ Cardinality(A!Rated) = 0
    <3>1. [a \in Agents |-> Ratio(a)] \in [Agents -> Int]
      BY <2>2
    <3>. QED
      BY <1>5, <2>2, <3>1, CommonsConstants, CommonsSumZero
  <2>4. InstallsKept /\ RatingsKept
    BY <1>1, <1>4, <1>5, <2>1, <2>3 DEF InstallsKept, RatingsKept
  <2>. QED
    BY <1>4, <1>5, <2>1, <2>4 DEF MarketKept
<1>11. QueriesKept
  BY <1>1, <1>4 DEF A!Init, QueriesKept
<1>. QED
  BY <1>2, <1>3, <1>6, <1>7, <1>8, <1>9, <1>10, <1>11 DEF CommonsInv

\* Once no call is left there is nothing more to count, tell or weigh.
LEMMA RestsCounted ==
  ASSUME CommonsInv PROVE A!CountsMatch
<1>1. /\ CommonsTyped /\ RowsOfPosts /\ RowsOfTalk /\ RowsOfClaims /\ RowsOfMarket
      /\ FeedKept /\ ChannelsKept /\ ThreadsKept /\ ClaimsKept /\ MarketKept /\ QueriesKept
  BY DEF CommonsInv, CommonsTyped
<1>2. ASSUME A!Idle
      PROVE  /\ \A do : Counting(do) = {} /\ Cardinality(Counting(do)) = 0
             /\ \A a : Telling(a) = {} /\ Cardinality(Telling(a)) = 0 /\ ~Retires(a)
             /\ \A w \in Workers : job[w] = None /\ (\A do, at : ~A!At(w, do, at)) /\ ~WillRate(w)
  <2>1. \A w \in Workers : job[w] = None
    BY <1>2 DEF A!Idle
  <2>2. /\ \A do : Counting(do) = {}
        /\ \A a : Telling(a) = {} /\ ~Retires(a)
        /\ \A w \in Workers : (\A do, at : ~A!At(w, do, at)) /\ ~WillRate(w)
    BY <2>1 DEF Counting, Telling, Retires, A!At, WillRate
  <2>. QED
    BY <2>1, <2>2, FS_EmptySet
<1>3. A!FeedCounted
  <2>1. SUFFICES ASSUME ~trouble, A!Idle
                 PROVE  /\ commentsCount = comments
                        /\ likesCount >= A!Cardinality(likes)
                        /\ overlap # "any" => likesCount = A!Cardinality(likes)
    BY DEF A!FeedCounted
  <2>2. \A do : Cardinality(Counting(do)) = 0
    BY <1>2, <2>1
  <2>3. Cardinality(likes) \in Nat /\ A!Cardinality(likes) = Cardinality(likes)
    BY <1>1, CommonsConstants, CommonsCount, FS_Subset, FS_CardinalityType DEF RowsOfPosts
  <2>4. CASE corner # "feed"
    <3>1. Cardinality(likes) = 0
      BY <1>1, <2>4, FS_EmptySet DEF FeedKept
    <3>. QED
      BY <1>1, <2>3, <2>4, <3>1 DEF FeedKept
  <2>5. CASE corner = "feed"
    BY <1>1, <2>1, <2>2, <2>3, <2>5 DEF FeedKept, RowsOfPosts
  <2>. QED
    BY <2>4, <2>5
<1>4. A!ToldOnce
  <2>1. SUFFICES ASSUME corner = "channels", NEW a \in Agents
                 PROVE  /\ A!SumFunction(told[a]) <= owed[a]
                        /\ ~trouble /\ A!Idle => A!SumFunction(told[a]) = owed[a]
    BY DEF A!ToldOnce
  <2>2. PICK s \in Int, n \in Nat, o \in Nat :
          s = A!SumFunction(told[a]) /\ n = Cardinality(Telling(a)) /\ o = owed[a]
    <3>1. told[a] \in [Agents -> Int] /\ owed[a] \in Nat
      BY <1>1 DEF RowsOfTalk
    <3>2. Cardinality(Telling(a)) \in Nat
      BY CommonsConstants, FS_Subset, FS_CardinalityType DEF Telling
    <3>. QED
      BY <3>1, <3>2, CommonsConstants, CommonsSum
  <2>3. s + n <= o /\ (~trouble => s + n = o)
    BY <1>1, <2>1, <2>2 DEF ChannelsKept
  <2>4. A!Idle => n = 0
    BY <1>2, <2>2
  <2>. QED
    BY <2>2, <2>3, <2>4
<1>5. A!ReadWasShown
  <2>1. SUFFICES ASSUME overlap = "none", Len(messages) <= ThreadLimit
                 PROVE  /\ \A i \in 1..Len(messages) :
                             messages[i].read => <<messages[i].to, i>> \in shown
                        /\ A!Idle /\ ~trouble /\ corner = "threads" => \A a, b \in Agents :
                             unread[a][b] <= A!Cardinality(Unseen(a, b))
    BY DEF A!ReadWasShown, Unseen
  <2>2. CASE corner # "threads"
    <3>1. messages = <<>> /\ Len(messages) = 0
      BY <1>1, <2>2 DEF ThreadsKept
    <3>. QED
      BY <2>2, <3>1
  <2>3. CASE corner = "threads"
    <3>1. \A i \in 1..Len(messages) : messages[i].read => <<messages[i].to, i>> \in shown
      BY <1>1, <2>1, <2>3 DEF ThreadsKept
    <3>2. ASSUME A!Idle, ~trouble, NEW a \in Agents, NEW b \in Agents
          PROVE  unread[a][b] <= A!Cardinality(Unseen(a, b))
      <4>1. Telling(a) = {} /\ ~Retires(a)
        BY <1>2, <3>2
      <4>2. Badge(a, b) = 0
        BY <4>1, BadgeIs
      <4>3. unread[a][b] + Badge(a, b) <= Cardinality(Unseen(a, b)) /\ unread[a][b] \in Nat
        BY <1>1, <2>1, <2>3, <3>2, <4>1 DEF ThreadsKept, RowsOfTalk
      <4>4. A!Cardinality(Unseen(a, b)) = Cardinality(Unseen(a, b))
        BY CommonsCount
      <4>. QED
        BY <4>2, <4>3, <4>4
    <3>. QED
      BY <3>1, <3>2
  <2>. QED
    BY <2>2, <2>3
<1>6. A!StakesWeigh
  <2>1. ASSUME NEW a \in A!Stakers, stakes[a].door = "rest"
        PROVE  debited[a] >= stakes[a].amount
    BY <1>1, <2>1 DEF ClaimsKept, A!Stakers
  <2>2. ASSUME overlap = "none" PROVE A!ResolvedOnce
    BY <1>1, <2>2 DEF ClaimsKept, A!ResolvedOnce
  <2>3. ASSUME overlap = "none", ~trouble, A!Idle, resolved = 0
        PROVE  confidence = A!Confidence(Weighed({}))
    <3>1. CASE corner # "claims"
      <4>1. confidence = None /\ A!Stakers = {}
        BY <1>1, <3>1 DEF ClaimsKept, A!Stakers
      <4>2. Weighed({}) = A!Nothing
        BY <1>1, <4>1, WeighedNone
      <4>3. A!Confidence(A!Nothing) = None
        BY DEF A!Confidence, A!Nothing, A!Positions
      <4>. QED
        BY <4>1, <4>2, <4>3
    <3>2. CASE corner = "claims"
      <4>1. \A w \in Workers : ~A!At(w, "stake", "weigh")
        BY <1>2, <2>3
      <4>. QED
        BY <1>1, <2>3, <3>2, <4>1 DEF ClaimsKept
    <3>. QED
      BY <3>1, <3>2
  <2>4. Weighed({}) = [p \in A!Positions |->
                        A!SumFunction([a \in Agents |-> A!Weight(stakes, scores, a)[p]])]
    BY DEF Weighed
  <2>. QED
    BY <2>1, <2>2, <2>3, <2>4 DEF A!StakesWeigh
<1>7. A!RatingsAddUp
  <2>1. SUFFICES ASSUME ~trouble, A!Idle
                 PROVE  /\ tool.installs >= A!Cardinality(Owners)
                        /\ overlap # "any" => tool.installs = A!Cardinality(Owners)
                        /\ overlap = "none" =>
                             /\ tool.count = A!Cardinality(A!Rated)
                             /\ tool.sum = A!SumFunction([a \in Agents |-> Ratio(a)])
    BY DEF A!RatingsAddUp, Owners, Ratio
  <2>2. A!Cardinality(Owners) = Cardinality(Owners) /\ A!Cardinality(A!Rated) = Cardinality(A!Rated)
    BY CommonsCount
  <2>3. CASE corner # "market"
    <3>1. tool = [installs |-> 0, sum |-> 0, count |-> 0] /\ Owners = {}
      BY <1>1, <2>3 DEF MarketKept
    <3>2. A!Rated = {} /\ \A a \in Agents : Ratio(a) = 0
      BY <3>1, CommonsConstants DEF A!Rated, Ratio, Owners
    <3>3. [a \in Agents |-> Ratio(a)] \in [Agents -> Int]
      BY <3>2
    <3>4. A!SumFunction([a \in Agents |-> Ratio(a)]) = 0
      BY <3>2, <3>3, CommonsConstants, CommonsSumZero
    <3>5. Cardinality({}) = 0
      BY FS_EmptySet
    <3>. QED
      BY <2>2, <3>1, <3>2, <3>4, <3>5
  <2>4. CASE corner = "market"
    <3>1. Cardinality(Counting("install")) = 0 /\ \A w \in Workers : ~WillRate(w)
      BY <1>2, <2>1
    <3>2. InstallsKept /\ (overlap = "none" => RatingsKept)
      BY <1>1, <2>1, <2>4 DEF MarketKept
    <3>3. tool.installs \in Nat
      BY <1>1, InstalledIs
    <3>4. tool.installs + 0 = tool.installs
      BY <3>3
    <3>5. /\ tool.installs >= Cardinality(Owners)
          /\ overlap # "any" => tool.installs = Cardinality(Owners)
      BY <3>1, <3>2, <3>4 DEF InstallsKept
    <3>6. overlap = "none" => /\ tool.count = Cardinality(A!Rated)
                              /\ tool.sum = A!SumFunction([a \in Agents |-> Ratio(a)])
      BY <3>1, <3>2 DEF RatingsKept
    <3>. QED
      BY <2>2, <3>5, <3>6
  <2>. QED
    BY <2>3, <2>4
<1>8. ~trouble /\ A!Idle => (answered <=> answers > 0)
  <2>1. answers \in Nat /\ answered \in BOOLEAN
    BY <1>1 DEF CommonsTyped, RowsOfQueries
  <2>2. CASE corner # "queries"
    BY <1>1, <2>2 DEF QueriesKept
  <2>3. CASE corner = "queries"
    BY <1>1, <1>2, <2>3 DEF QueriesKept
  <2>. QED
    BY <2>2, <2>3
<1>. QED
  BY <1>3, <1>4, <1>5, <1>6, <1>7, <1>8 DEF A!CountsMatch

\* What is kept beside the rows of the commons agrees with them, for any
\* number of agents and of calls: comments are counted, notices told once,
\* badges stand for unread messages, stakes were paid and weigh what they
\* did, installs and ratings add up, an answered query has its status
\* (social.ts, channels.ts, reputation.ts, marketplace.ts, comms.ts).
THEOREM CountsAgree == Spec => []CountsMatch
<1>1. Init => CommonsInv
  BY CommonsStarts
<1>2. CommonsInv /\ [Next]_vars => CommonsInv'
  BY CommonsStep
<1>3. CommonsInv => CountsMatch
  BY RestsCounted DEF CountsMatch
<1>. QED
  BY <1>1, <1>2, <1>3, PTL DEF Spec

-----------------------------------------------------------------------------
(* Types *)

\* A call is about somebody as long as it has steps left.
BusyIsNotIdle == \A i \in Invocations : L!Idle(i) <=> busy[i] = {}

LEMMA BusyBegins ==
  ASSUME QueuesTyped, BusyIsNotIdle, NEW i \in Invocations, NEW subjects, subjects # {},
         NEW steps, L!Begin(i, subjects, steps)
  PROVE  BusyIsNotIdle'
<1>1. /\ todo'[i] = steps /\ busy'[i] = IF steps = <<>> THEN {} ELSE subjects
      /\ \A j \in Invocations \ {i} : todo'[j] = todo[j] /\ busy'[j] = busy[j]
  BY DEF L!Begin, QueuesTyped
<1>. QED
  BY <1>1 DEF BusyIsNotIdle, L!Idle

LEMMA BusyStep ==
  ASSUME LedgerTyped, BusyIsNotIdle, L!Next PROVE BusyIsNotIdle'
<1>0. QueuesTyped
  BY DEF LedgerTyped
<1>1. ASSUME UNCHANGED <<todo, busy>> PROVE BusyIsNotIdle'
  BY <1>1 DEF BusyIsNotIdle, L!Idle
<1>2. ASSUME NEW i \in Invocations, L!Call(i) PROVE BusyIsNotIdle'
  <2>1. ASSUME NEW p \in Participants, NEW q \in Participants, NEW n \in Amounts,
               L!Transfer(i, p, q, n)
        PROVE  BusyIsNotIdle'
    BY <1>0, <2>1, BusyBegins DEF L!Transfer
  <2>2. ASSUME NEW p \in Participants, NEW s \in Services, NEW u \in Units,
               NEW cap \in WarrantCaps, L!Spend(i, p, s, u, cap)
        PROVE  BusyIsNotIdle'
    BY <1>0, <2>2, BusyBegins DEF L!Spend
  <2>3. ASSUME NEW p \in Participants, NEW r \in Participants \cup {None},
               NEW promo \in BOOLEAN, NEW counted \in BOOLEAN,
               L!Register(i, p, r, promo, counted)
        PROVE  BusyIsNotIdle'
    <3>1. \E steps : L!Begin(i, ({p, r} \ {None})
                                  \cup (IF promo \/ r # None THEN {Code} ELSE {}), steps)
      BY <2>3 DEF L!Register
    <3>2. p \in ({p, r} \ {None}) \cup (IF promo \/ r # None THEN {Code} ELSE {})
      BY LedgerConstants
    <3>. QED
      BY <1>0, <3>1, <3>2, BusyBegins
  <2>4. ASSUME NEW e \in Events, L!Deliver(i, e) PROVE BusyIsNotIdle'
    BY <1>0, <2>4, BusyBegins DEF L!Deliver
  <2>5. ASSUME L!Practice(i) PROVE BusyIsNotIdle'
    BY <1>0, <2>5, BusyBegins DEF L!Practice
  <2>6. ASSUME L!Look(i) PROVE BusyIsNotIdle'
    BY <1>1, <2>6 DEF L!Look, L!vars
  <2>. QED
    BY <1>2, <2>1, <2>2, <2>3, <2>4, <2>5, <2>6 DEF L!Call
<1>3. ASSUME NEW i \in Invocations, NEW q, todo[i] # <<>>, Has(i, q) PROVE BusyIsNotIdle'
  BY <1>0, <1>3, HasFacts DEF BusyIsNotIdle, L!Idle
<1>4. ASSUME NEW i \in Invocations, L!Advance(i) PROVE BusyIsNotIdle'
  BY <1>0, <1>3, <1>4, Advances, Proceeds, Fails
<1>5. ASSUME NEW p \in Participants, L!Expire(p) PROVE BusyIsNotIdle'
  BY <1>1, <1>5 DEF L!Expire
<1>. QED
  BY <1>2, <1>4, <1>5 DEF L!Next

LEMMA LedgerTypes == ASSUME LedgerTyped, BusyIsNotIdle PROVE L!TypeOK
<1>1. ASSUME NEW p \in L!Rows PROVE row[p] \in ARow
  BY DEF LedgerTyped, RowsTyped, L!Rows, L!Registered
<1>2. ASSUME NEW i \in Invocations, NEW s \in L!StepsOf(i)
      PROVE  s.who \in Participants /\ s.n \in Int
  <2>1. todo[i] \in Seq(Steps(Tags \cup Events))
    BY DEF LedgerTyped, QueuesTyped, ASteps
  <2>2. s \in Steps(Tags \cup Events)
    BY <2>1 DEF L!StepsOf
  <2>. QED
    BY <2>2 DEF Steps
<1>. QED
  BY <1>1, <1>2 DEF LedgerTyped, CountsTyped, BusyIsNotIdle, ARow, L!TypeOK

\* Keys are numbered from one, and only what promotes something is claimed.
KeysCount ==
  /\ minted >= 1 /\ \A s \in Subscriptions : key[s] # None => key[s] >= 1
  /\ handed \subseteq Subscriptions \X (Nat \ {0})
  /\ \A e \in events : Promotes[e.sub] \in Capabilities

LEMMA KeysCountStep ==
  ASSUME FulfilmentTyped, KeysCount, F!Next \/ UNCHANGED fulfilment
  PROVE  KeysCount'
<1>1. ASSUME UNCHANGED <<minted, key, handed, events>> PROVE KeysCount'
  BY <1>1 DEF KeysCount
<1>2. /\ minted \in Nat \ {0} /\ key \in [Subscriptions -> Nat \cup {None}]
      /\ \A s \in Subscriptions : key[s] # None => key[s] \in Nat \ {0}
  BY FulfilmentConstants DEF FulfilmentTyped, KeysCount
<1>3. ASSUME NEW w \in Workers, NEW s \in Subscriptions,
             F!Provision(w, s) \/ F!Completed(w, s) \/ F!Deleted(w, s)
      PROVE  KeysCount'
  <2>1. /\ UNCHANGED <<minted, key, events>>
        /\ (handed' = handed) \/ (key[s] # None /\ handed' = handed \cup {<<s, key[s]>>})
    BY <1>3 DEF F!Provision, F!Completed, F!Deleted
  <2>. QED
    BY <1>2, <2>1 DEF KeysCount
<1>4. ASSUME NEW w \in Workers, NEW s \in Subscriptions, s = work[w].sub, F!WriteKey(s),
             UNCHANGED events, handed' \in {handed, handed \cup {<<s, minted>>}}
      PROVE  KeysCount'
  <2>1. /\ minted' = minted + 1
        /\ \A t \in Subscriptions : key'[t] = IF t = s THEN minted ELSE key[t]
    BY <1>2, <1>4 DEF F!WriteKey
  <2>. QED
    BY <1>2, <1>4, <2>1 DEF KeysCount
<1>5. ASSUME NEW w \in Workers, F!ProvisionWrite(w) \/ F!CompletedKey(w) PROVE KeysCount'
  <2>1. work[w].sub \in Subscriptions
    BY <1>5, JobFacts DEF F!ProvisionWrite, F!CompletedKey
  <2>. QED
    BY <1>4, <1>5, <2>1 DEF F!ProvisionWrite, F!CompletedKey
<1>6. ASSUME NEW w \in Workers, NEW kind \in {"begin", "end"}, F!Claim(w, kind)
      PROVE  KeysCount'
  <2>1. /\ work[w].cap = Promotes[work[w].sub]
        /\ work[w].cap # None => work[w].cap \in Capabilities
    BY <1>6, JobFacts DEF F!Claim
  <2>2. /\ UNCHANGED <<minted, key, handed>>
        /\ events' = events
           \/ (work[w].cap # None /\ events' = events \cup {F!Event(kind, work[w].sub)})
    BY <1>6 DEF F!Claim
  <2>3. F!Event(kind, work[w].sub).sub = work[w].sub
    BY DEF F!Event
  <2>. QED
    BY <2>1, <2>2, <2>3 DEF KeysCount
<1>7. ASSUME \/ \E w \in Workers, c \in Capabilities : F!Upsert(w, c)
             \/ \E w \in Workers : F!Place(w) \/ F!Break(w)
             \/ \E s \in Subscriptions : F!Checkout(s) \/ F!PromoteCheckout(s) \/ F!Cancel(s)
             \/ UNCHANGED fulfilment
      PROVE  KeysCount'
  BY <1>1, <1>7 DEF F!Upsert, F!Place, F!Break, F!Checkout, F!PromoteCheckout, F!Cancel,
                    fulfilment
<1>. QED
  BY <1>3, <1>5, <1>6, <1>7, FulfilmentSteps

LEMMA FulfilmentTypes == ASSUME FulfilmentInv, KeysCount PROVE F!TypeOK
<1>1. minted \in Nat /\ \A s \in Subscriptions : key[s] \in Nat \cup {None}
  BY DEF FulfilmentInv, FulfilmentTyped
<1>2. \A s \in Subscriptions : key[s] \in (1..minted - 1) \cup {None}
  BY <1>1, FulfilmentConstants DEF FulfilmentInv, KeysStand, KeysCount
<1>3. ASSUME NEW h \in handed PROVE h \in Subscriptions \X (1..minted - 1)
  BY <1>1 DEF FulfilmentInv, KeysStand, KeysCount
<1>4. ASSUME NEW w \in Workers, work[w] # F!Rest PROVE F!About(w) # {}
  <2>1. work[w] \in Jobs
    BY DEF FulfilmentInv, FulfilmentTyped
  <2>2. work[w].at \in {"provision", "key", "begin", "end", "place"}
    BY <1>4, <2>1 DEF Jobs, AJob
  <2>. QED
    BY <2>2, JobFacts DEF FulfilmentInv
<1>. QED
  BY <1>2, <1>3, <1>4 DEF KeysCount, F!TypeOK

LEMMA CommonsTypes == ASSUME CommonsInv PROVE A!TypeOK
<1>1. /\ likesCount \in Nat /\ comments \in Nat /\ commentsCount \in Nat /\ begun \in Nat
      /\ tool.installs \in Nat /\ tool.count \in Nat
  BY DEF CommonsInv, CommonsTyped, JobsTyped, RowsOfPosts, RowsOfMarket, A!Tools
<1>2. \A do : Cardinality(Counting(do)) \in Nat
  <2>1. \A do : Counting(do) \in SUBSET Workers
    BY DEF Counting
  <2>. QED
    BY <2>1, CommonsConstants, FS_Subset, FS_CardinalityType
<1>3. Cardinality(Begins) \in Nat
  <2>1. Begins \in SUBSET Workers
    BY DEF Begins
  <2>. QED
    BY <2>1, CommonsConstants, FS_Subset, FS_CardinalityType
<1>4. likesCount \in 0..begun /\ commentsCount \in 0..comments
  <2>1. CASE corner = "feed"
    <3>1. PICK n \in Nat, m \in Nat : /\ n = Cardinality(Counting("like"))
                                      /\ m = Cardinality(Counting("comment"))
      BY <1>2
    <3>2. likesCount + n <= begun /\ commentsCount + m <= comments
      BY <2>1, <3>1 DEF CommonsInv, FeedKept
    <3>. QED
      BY <1>1, <3>2
  <2>2. CASE corner # "feed"
    BY <1>1, <2>2 DEF CommonsInv, FeedKept
  <2>. QED
    BY <2>1, <2>2
<1>5. tool.installs <= begun /\ tool.count <= begun
  <2>1. CASE corner = "market"
    <3>1. PICK n \in Nat : n = Cardinality(Begins)
      BY <1>3
    <3>2. tool.installs + n <= begun /\ tool.count <= begun
      BY <2>1, <3>1 DEF CommonsInv, MarketKept
    <3>. QED
      BY <1>1, <3>2
  <2>2. CASE corner # "market"
    BY <1>1, <2>2 DEF CommonsInv, MarketKept
  <2>. QED
    BY <2>1, <2>2
<1>. QED
  BY <1>4, <1>5
  DEF CommonsInv, CommonsTyped, JobsTyped, RowsOfPosts, RowsOfTalk, RowsOfClaims,
      RowsOfMarket, RowsOfQueries, A!TypeOK

LEMMA TypesBegin ==
  ASSUME Init
  PROVE  LedgerTyped /\ BusyIsNotIdle /\ FulfilmentInv /\ KeysCount /\ CommonsInv
<1>1. LedgerTyped /\ BusyIsNotIdle
  BY PartsBegin, LedgerBegins DEF L!Init, BusyIsNotIdle, L!Idle
<1>2. KeysCount
  BY PartsBegin DEF F!Init, KeysCount
<1>. QED
  BY <1>1, <1>2, FulfilmentBegins, CommonsStarts

\* Rows, jobs and steps keep the shapes that the handlers of the credit
\* routes, the webhook, /api/provision and of posts, threads, claims, tools
\* and queries read and write; a counter never passes what it may have
\* counted, and a key handed out is one that was minted.
THEOREM TypesStand == Spec => []Types
<1>. DEFINE Inv == LedgerTyped /\ BusyIsNotIdle /\ FulfilmentInv /\ KeysCount /\ CommonsInv
<1>1. Init => Inv
  BY TypesBegin
<1>2. Inv /\ [Next]_vars => Inv'
  <2>. SUFFICES ASSUME Inv, [Next]_vars PROVE Inv'
    OBVIOUS
  <2>1. LedgerTyped' /\ BusyIsNotIdle'
    <3>1. CASE L!Next
      BY <3>1, TypedStep, BusyStep
    <3>2. CASE UNCHANGED ledger
      BY <3>2 DEF ledger, LedgerTyped, RowsTyped, QueuesTyped, CountsTyped, InsertsApart,
         Ordered, Placed, Fits, Here, L!Registered, L!Due, L!Now, L!Idle, BusyIsNotIdle
    <3>. QED
      BY <3>1, <3>2, PartsMove
  <2>2. FulfilmentInv' /\ KeysCount'
    BY PartsMove, FulfilmentMoves, KeysCountStep DEF FulfilmentInv
  <2>3. CommonsInv'
    BY CommonsStep
  <2>. QED
    BY <2>1, <2>2, <2>3
<1>3. Inv => Types
  BY LedgerTypes, FulfilmentTypes, CommonsTypes DEF Types
<1>. HIDE DEF Inv
<1>. QED
  BY <1>1, <1>2, <1>3, PTL DEF Spec
=============================================================================
