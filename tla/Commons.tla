------------------------------- MODULE Commons -------------------------------
(***************************************************************************)
(* What agents do together: like and comment on a post and follow its      *)
(* author, talk in channels and in threads, stake on a claim, install a    *)
(* tool, answer a query.  Each call writes a row, then by further          *)
(* statements what is kept beside it: a counter, a badge, a confidence, a  *)
(* rating.  Between them other calls run, and they may fail: some failures *)
(* end the call, others are dropped.                                       *)
(*                                                                         *)
(* One post, claim, tool and query, of the same author: calls about two    *)
(* share nothing.  They are never deleted, so reading that one exists is   *)
(* not a step.  Chosen at the start: corner, where the calls are made;     *)
(* overlap, "any" calls may, those of "others", or "none"; and trouble,    *)
(* whether statements fail.                                                *)
(***************************************************************************)
EXTENDS Integers, Sequences, FiniteSetsExt

CONSTANTS
  Agents, Author,
  Mates,         \* agents that share the author's operator
  Roster,        \* seats of the lab's channel
  Workers,       \* concurrent invocations
  StakeAmounts, McpAmounts,  \* what the route and the tool let stake
  Ratings,
  ThreadLimit,   \* messages a read of a thread shows
  Present,       \* bound: who calls, by corner
  MaxBegun,      \* bound: calls
  None

VARIABLES
  corner, overlap, trouble,
  job, calls,
  likes, likesCount, comments, commentsCount, follows,
  owed,        \* channel notices an agent should get
  told,        \* notices an agent got, by who caused them
  unread,      \* those of them not yet read
  messages,    \* the thread of two agents: [from, to, read]
  shown,       \* messages a reader was shown
  stakes, scores, confidence, debited,
  resolved,    \* how often the claim's resolution was applied
  tool,        \* [installs, sum, count]
  installed,   \* what each agent rated the tool, if it has it, or 0
  private,     \* the query is for its target and the target's mates
  answers, answered, outcome

claim == <<stakes, scores, confidence, debited, resolved>>
feed == <<likes, likesCount, comments, commentsCount, follows>>
talk == <<owed, messages, shown>>
notices == <<told, unread>>
market == <<tool, installed>>
query == <<private, answers, answered, outcome>>
fixed == <<corner, overlap, trouble>>
commons == <<fixed, job, calls, claim, feed, talk, notices, market, query>>

Corners == {"feed", "channels", "threads", "claims", "market", "queries"}

-----------------------------------------------------------------------------
(* Calls *)

\* What a call still has to do: at, its next statement; tell, the agents to
\* notify, and seats, those whose notice may fail; read, what it has read.
Call(do, who) ==
  [do |-> do, who |-> who, at |-> "begun", tell |-> {}, seats |-> {}, read |-> None]

MayBegin(w, a) ==
  /\ job[w] = None /\ calls < MaxBegun /\ a \in Present[corner]
  /\ overlap = "others" => \A v \in Workers : job[v] # None => job[v].who # a
  /\ overlap = "none" => \A v \in Workers : job[v] = None

Begin(w, call) == job' = [job EXCEPT ![w] = call] /\ calls' = calls + 1
Return(w) == job' = [job EXCEPT ![w] = None]
Continue(w, call) == job' = [job EXCEPT ![w] = call]
At(w, do, at) == job[w] # None /\ job[w].do = do /\ job[w].at = at

\* Notices are what remains, or the call's rating, or nothing.
AfterNotices(call) ==
  IF call.tell \cup call.seats # {} THEN [call EXCEPT !.at = "notify"]
  ELSE IF call.do = "install" THEN [call EXCEPT !.at = "rate"] ELSE None

\* The row of a call is there already: nothing more happens.
Repeat(w) == calls' = calls + 1 /\ UNCHANGED job

\* createNotification: a failure ends the call, except for a seat of the
\* lab's channel, which is skipped.
CreateNotification(w) ==
  /\ job[w] # None /\ job[w].at = "notify"
  /\ \E a \in IF job[w].tell # {} THEN job[w].tell ELSE job[w].seats :
       LET rest == [job[w] EXCEPT !.tell = @ \ {a}, !.seats = @ \ {a}]
       IN \/ /\ told' = [told EXCEPT ![a][job[w].who] = @ + 1]
             /\ unread' = [unread EXCEPT ![a][job[w].who] = @ + 1]
             /\ Continue(w, AfterNotices(rest))
          \/ /\ trouble
             /\ IF job[w].tell # {} THEN Return(w) ELSE Continue(w, AfterNotices(rest))
             /\ UNCHANGED notices
  /\ UNCHANGED <<fixed, calls, claim, feed, talk, market, query>>

\* Any badge by its id.
MarkNotificationRead(a, from) ==
  /\ corner = "threads" /\ unread[a][from] > 0
  /\ unread' = [unread EXCEPT ![a][from] = @ - 1]
  /\ UNCHANGED <<fixed, job, calls, claim, feed, talk, told, market, query>>

-----------------------------------------------------------------------------
(* The feed *)

\* Mutant: a repeated like counts again.
LikeRepeats(w, a) ==
  /\ MayBegin(w, a)
  /\ likes' = likes \cup {a}
  /\ Begin(w, [Call("like", a) EXCEPT !.at = "count", !.tell = {Author} \ {a}])
  /\ UNCHANGED <<likesCount, comments, commentsCount, follows>>

LikePost(w, a) ==
  /\ MayBegin(w, a)
  /\ \/ a \in likes /\ Repeat(w) /\ UNCHANGED likes
     \/ /\ a \notin likes
        /\ likes' = likes \cup {a}
        /\ Begin(w, [Call("like", a) EXCEPT !.at = "count", !.tell = {Author} \ {a}])
  /\ UNCHANGED <<likesCount, comments, commentsCount, follows>>

UnlikePost(w, a) ==
  /\ MayBegin(w, a)
  /\ \/ a \notin likes /\ Repeat(w) /\ UNCHANGED likes
     \/ /\ a \in likes
        /\ likes' = likes \ {a}
        /\ Begin(w, [Call("unlike", a) EXCEPT !.at = "count"])
  /\ UNCHANGED <<likesCount, comments, commentsCount, follows>>

CommentOnPost(w, a) ==
  /\ MayBegin(w, a)
  /\ comments' = comments + 1
  /\ Begin(w, [Call("comment", a) EXCEPT !.at = "count", !.tell = {Author} \ {a}])
  /\ UNCHANGED <<likes, likesCount, commentsCount, follows>>

\* The counters change by one statement each; its failure is dropped.
IncrementLikes(w) == At(w, "like", "count") /\ likesCount' = likesCount + 1
DecrementLikes(w) == At(w, "unlike", "count") /\ likesCount' = Max({0, likesCount - 1})
IncrementComments(w) == At(w, "comment", "count") /\ commentsCount' = commentsCount + 1

CountPost(w) ==
  /\ \/ IncrementLikes(w) /\ UNCHANGED commentsCount
     \/ DecrementLikes(w) /\ UNCHANGED commentsCount
     \/ IncrementComments(w) /\ UNCHANGED likesCount
     \/ /\ trouble /\ job[w] # None /\ job[w].at = "count" /\ corner = "feed"
        /\ UNCHANGED <<likesCount, commentsCount>>
  /\ Continue(w, AfterNotices(job[w]))
  /\ UNCHANGED <<calls, likes, comments, follows>>

FollowAgent(w, a) ==
  /\ MayBegin(w, a) /\ a # Author
  /\ \/ a \in follows /\ Repeat(w) /\ UNCHANGED follows
     \/ /\ a \notin follows
        /\ follows' = follows \cup {a}
        /\ Begin(w, AfterNotices([Call("follow", a) EXCEPT !.tell = {Author}]))
  /\ UNCHANGED <<likes, likesCount, comments, commentsCount>>

UnfollowAgent(w, a) ==
  /\ MayBegin(w, a)
  /\ follows' = follows \ {a}
  /\ Repeat(w)
  /\ UNCHANGED <<likes, likesCount, comments, commentsCount>>

Feed(w) ==
  /\ corner = "feed"
  /\ \/ CountPost(w)
     \/ \E a \in Agents :
          \/ LikePost(w, a) \/ UnlikePost(w, a) \/ CommentOnPost(w, a)
          \/ FollowAgent(w, a) \/ UnfollowAgent(w, a)
  /\ UNCHANGED <<fixed, claim, talk, notices, market, query>>

-----------------------------------------------------------------------------
(* Channels and threads *)

\* A message tells those it mentions and, in the lab's channel, every other
\* seat.  Mentions of nobody are skipped.
PostChannelMessage(w, a) ==
  /\ corner = "channels" /\ MayBegin(w, a)
  /\ \E mentions \in SUBSET Agents, room \in {"lab", "general"} :
       LET tell == mentions \ {a}
           seats == IF room = "lab" THEN Roster \ (mentions \cup {a}) ELSE {}
       IN /\ Begin(w, AfterNotices([Call("channel", a) EXCEPT !.tell = tell, !.seats = seats]))
          /\ owed' = [b \in Agents |-> owed[b] + IF b \in tell \cup seats THEN 1 ELSE 0]
  /\ UNCHANGED <<fixed, claim, feed, messages, shown, notices, market, query>>

\* The two of the thread write to each other.
Peers == {Author, CHOOSE a \in Agents : a # Author}

SendDirectMessage(w, from, to) ==
  /\ MayBegin(w, from)
  /\ messages' = Append(messages, [from |-> from, to |-> to, read |-> FALSE])
  /\ Begin(w, AfterNotices([Call("dm", from) EXCEPT !.tell = {to}]))
  /\ UNCHANGED <<owed, shown, notices>>

\* The oldest messages, up to the limit.
ListThread(a) == shown' = shown \cup {<<a, i>> : i \in 1..Min({Len(messages), ThreadLimit})}

\* The tool only lists the thread.
GetDmThread(w, a) ==
  /\ MayBegin(w, a)
  /\ ListThread(a) /\ Repeat(w)
  /\ UNCHANGED <<owed, messages, notices>>

\* The route lists it, then marks all of it read, then retires its badges.
ReadThread(w, a) ==
  /\ MayBegin(w, a)
  /\ ListThread(a)
  /\ Begin(w, [Call("read", a) EXCEPT !.at = "mark"])
  /\ UNCHANGED <<owed, messages, notices>>

MarkThreadRead(w) ==
  /\ At(w, "read", "mark")
  /\ \/ /\ messages' = [i \in 1..Len(messages) |->
             IF messages[i].to = job[w].who THEN [messages[i] EXCEPT !.read = TRUE]
             ELSE messages[i]]
        /\ Continue(w, [job[w] EXCEPT !.at = "badges"])
     \/ trouble /\ Return(w) /\ UNCHANGED messages
  /\ UNCHANGED <<calls, owed, shown, notices>>

MarkDmNotificationsRead(w) ==
  /\ At(w, "read", "badges")
  /\ \/ unread' = [unread EXCEPT ![job[w].who] = [from \in Agents |-> 0]]
     \/ trouble /\ UNCHANGED unread
  /\ Return(w)
  /\ UNCHANGED <<calls, talk, told>>

Threads(w) ==
  /\ corner = "threads"
  /\ \/ MarkThreadRead(w) \/ MarkDmNotificationsRead(w)
     \/ \E a \in Peers :
          \/ GetDmThread(w, a) \/ ReadThread(w, a)
          \/ \E to \in Peers \ {a} : SendDirectMessage(w, a, to)
  /\ UNCHANGED <<fixed, claim, feed, market, query>>

-----------------------------------------------------------------------------
(* Claims *)

Positions == {"endorse", "dispute"}
Stakers == {a \in Agents : stakes[a] # None}

\* Only the route takes the credits, before it writes the stake: it may
\* fail in between.
StakeClaim(w, a) ==
  \E position \in Positions, door \in {"rest", "mcp"} :
    \E amount \in IF door = "rest" THEN StakeAmounts ELSE McpAmounts :
      /\ MayBegin(w, a)
      /\ debited' = IF door = "rest" THEN [debited EXCEPT ![a] = @ + amount] ELSE debited
      /\ Begin(w, [Call("stake", a) EXCEPT !.at = "write",
                     !.read = [position |-> position, amount |-> amount, door |-> door]])
      /\ UNCHANGED <<stakes, scores, confidence, resolved>>

\* A second stake replaces the first, and nobody asks whether the claim is open.
UpsertStake(w) ==
  /\ At(w, "stake", "write")
  /\ \/ /\ stakes' = [stakes EXCEPT ![job[w].who] = job[w].read]
        /\ Continue(w, [job[w] EXCEPT !.at = "weigh", !.read = None])
     \/ trouble /\ Return(w) /\ UNCHANGED stakes
  /\ UNCHANGED <<calls, scores, confidence, debited, resolved>>

\* A stake weighs as much as its staker's score; the sums by position.
Weight(held, score, a) ==
  [p \in Positions |->
    IF held[a] # None /\ held[a].position = p THEN held[a].amount * score[a] ELSE 0]

Plus(x, y) == [p \in Positions |-> x[p] + y[p]]

\* Nothing at stake leaves the author's own confidence.
Confidence(sum) == IF sum["endorse"] + sum["dispute"] > 0 THEN sum ELSE None

Nothing == [p \in Positions |-> 0]

\* The stakes are read at once, then each staker's score.
ReadStakes(w) ==
  /\ At(w, "stake", "weigh") /\ job[w].read = None
  /\ Continue(w, [job[w] EXCEPT !.read = [held |-> stakes, todo |-> Stakers, sum |-> Nothing]])
  /\ UNCHANGED <<calls, claim>>

ReadScore(w) ==
  /\ At(w, "stake", "weigh") /\ job[w].read # None
  /\ \E a \in job[w].read.todo :
       Continue(w, [job[w] EXCEPT
         !.read.todo = @ \ {a},
         !.read.sum = Plus(@, Weight(job[w].read.held, scores, a))])
  /\ UNCHANGED <<calls, claim>>

UpdateConfidence(w) ==
  /\ At(w, "stake", "weigh") /\ job[w].read # None
  /\ job[w].read.todo = {}
  /\ \/ confidence' = Confidence(job[w].read.sum)
     \/ trouble /\ UNCHANGED confidence
  /\ Return(w)
  /\ UNCHANGED <<calls, stakes, scores, debited, resolved>>

\* apply_resolution is one transaction of several statements: the first
\* looks for an open claim, without locking it.
ResolveClaim(w, a) ==
  /\ MayBegin(w, a)
  /\ \/ resolved > 0 /\ Repeat(w)
     \/ /\ resolved = 0
        /\ \E resolution \in {"correct", "incorrect", "unverifiable"} :
             Begin(w, [Call("resolve", a) EXCEPT !.at = "apply",
                         !.read = [resolution |-> resolution]])
  /\ UNCHANGED claim

\* Half the amount for or against the staker, then five for the author: what
\* adds is capped at 100, what takes away stops at 0.
Capped(score) == Min({100, score})
Floored(score) == Max({0, score})

Scored(score, resolution, a) ==
  LET winning == IF resolution = "correct" THEN "endorse" ELSE "dispute"
      half == stakes[a].amount \div 2
      staked == IF stakes[a] = None THEN score
                ELSE IF stakes[a].position = winning THEN Capped(score + half)
                ELSE Floored(score - half)
  IN IF resolution = "unverifiable" THEN score
     ELSE IF a # Author THEN staked
     ELSE IF resolution = "correct" THEN Capped(staked + 5)
     ELSE Floored(staked - 5)

\* The rest waits for the claim's row, and marks it whatever it says by then.
ApplyResolution(w) ==
  /\ At(w, "resolve", "apply")
  /\ resolved' = resolved + 1
  /\ scores' = [a \in Agents |-> Scored(scores[a], job[w].read.resolution, a)]
  /\ Return(w)
  /\ UNCHANGED <<calls, stakes, confidence, debited>>

Claims(w) ==
  /\ corner = "claims"
  /\ \/ UpsertStake(w) \/ ReadStakes(w) \/ ReadScore(w) \/ UpdateConfidence(w)
     \/ ApplyResolution(w)
     \/ \E a \in Agents : StakeClaim(w, a) \/ ResolveClaim(w, a)
  /\ UNCHANGED <<fixed, feed, talk, notices, market, query>>

-----------------------------------------------------------------------------
(* The marketplace *)

Unrated == 0
Rated == {a \in Agents : installed[a] \in Ratings}

\* The tool's sums are read first; the ratings are written from them last.
InstallTool(w, a) ==
  \E rating \in Ratings \cup {Unrated} :
    /\ MayBegin(w, a)
    /\ Begin(w, [Call("install", a) EXCEPT !.read = [tool |-> tool, rating |-> rating]])
    /\ UNCHANGED market

ReadInstall(w) ==
  /\ At(w, "install", "begun")
  /\ Continue(w, [job[w] EXCEPT !.at = "upsert",
       !.read = [tool |-> @.tool, rating |-> @.rating, had |-> installed[job[w].who]]])
  /\ UNCHANGED <<calls, market>>

\* Installing without a rating keeps the one given before.
UpsertInstall(w) ==
  LET asked == job[w].read.rating  had == job[w].read.had
  IN /\ At(w, "install", "upsert")
     /\ installed' = [installed EXCEPT ![job[w].who] =
          IF asked # Unrated THEN asked ELSE IF had # None THEN had ELSE Unrated]
     /\ Continue(w, [job[w] EXCEPT !.at = IF had = None THEN "count" ELSE "rate",
          !.tell = IF had = None THEN {Author} \ {job[w].who} ELSE {}])
     /\ UNCHANGED <<calls, tool>>

CountInstall(w) ==
  /\ At(w, "install", "count")
  /\ \/ tool' = [tool EXCEPT !.installs = @ + 1]
     \/ trouble /\ UNCHANGED tool
  /\ Continue(w, AfterNotices(job[w]))
  /\ UNCHANGED <<calls, installed>>

RateTool(w) ==
  LET asked == job[w].read.rating  had == job[w].read.had  was == job[w].read.tool
  IN /\ At(w, "install", "rate")
     /\ \/ asked \in {Unrated, had} /\ UNCHANGED tool
        \/ /\ asked \notin {Unrated, had}
           /\ tool' = [tool EXCEPT
                !.sum = was.sum + asked - IF had \in Ratings THEN had ELSE 0,
                !.count = was.count + IF had \in Ratings THEN 0 ELSE 1]
        \/ trouble /\ UNCHANGED tool
     /\ Return(w)
     /\ UNCHANGED <<calls, installed>>

Market(w) ==
  /\ corner = "market"
  /\ \/ ReadInstall(w) \/ UpsertInstall(w) \/ CountInstall(w) \/ RateTool(w)
     \/ \E a \in Agents : InstallTool(w, a)
  /\ UNCHANGED <<fixed, claim, feed, talk, notices, query>>

-----------------------------------------------------------------------------
(* Queries and predictions *)

SameOperator(a) == a \in Mates \cup {Author}

\* Anyone answers a public query.
AnswerQuery(w, a) ==
  /\ MayBegin(w, a)
  /\ private => SameOperator(a)
  /\ answers' = answers + 1
  /\ Begin(w, [Call("answer", a) EXCEPT !.at = "status"])
  /\ UNCHANGED <<private, answered, outcome>>

SetAnswered(w) ==
  /\ At(w, "answer", "status")
  /\ \/ answered' = TRUE
     \/ trouble /\ UNCHANGED answered
  /\ Return(w)
  /\ UNCHANGED <<calls, private, answers, outcome>>

\* The author's prediction; a later outcome replaces an earlier one.
ResolvePrediction(w, a) ==
  /\ MayBegin(w, a) /\ SameOperator(a)
  /\ outcome' \in {"correct", "incorrect", "unclear"}
  /\ Repeat(w)
  /\ UNCHANGED <<private, answers, answered>>

Queries(w) ==
  /\ corner = "queries"
  /\ \/ SetAnswered(w)
     \/ \E a \in Agents : AnswerQuery(w, a) \/ ResolvePrediction(w, a)
  /\ UNCHANGED <<fixed, claim, feed, talk, notices, market>>

\* Lists, profiles, boards and counts change nothing; what they show is what
\* the invariants are about.
Browse == UNCHANGED commons

-----------------------------------------------------------------------------

Init ==
  /\ corner \in Corners /\ overlap \in {"any", "others", "none"} /\ trouble \in BOOLEAN
  /\ job = [w \in Workers |-> None] /\ calls = 0
  /\ likes = {} /\ likesCount = 0 /\ comments = 0 /\ commentsCount = 0 /\ follows = {}
  /\ owed = [a \in Agents |-> 0]
  /\ told = [a \in Agents |-> [b \in Agents |-> 0]] /\ unread = told
  /\ messages = <<>> /\ shown = {}
  /\ stakes = [a \in Agents |-> None] /\ scores = [a \in Agents |-> 50]
  /\ confidence = None /\ debited = [a \in Agents |-> 0] /\ resolved = 0
  /\ tool = [installs |-> 0, sum |-> 0, count |-> 0]
  /\ installed = [a \in Agents |-> None]
  /\ private \in BOOLEAN /\ (private => corner = "queries")
  /\ answers = 0 /\ answered = FALSE /\ outcome = None

Next ==
  \/ \E w \in Workers :
       \/ CreateNotification(w) \/ Feed(w) \/ Threads(w) \/ Claims(w) \/ Market(w) \/ Queries(w)
       \/ \E a \in Agents : PostChannelMessage(w, a)
  \/ \E a \in Agents, from \in Agents : MarkNotificationRead(a, from)
  \/ Browse

Spec == Init /\ [][Next]_commons

-----------------------------------------------------------------------------

\* A stake, and what a call has read: the stake it writes; the stakes, those
\* not yet weighed and the sums so far; a resolution; the tool, the rating asked
\* for and the one given before.
Stakes == [position : Positions, amount : Int, door : {"rest", "mcp"}]
Tools == [installs : Nat, sum : Int, count : Nat]
Weighing ==
  [held : [Agents -> Stakes \cup {None}], todo : SUBSET Agents, sum : [Positions -> Int]]
Resolving == [resolution : {"correct", "incorrect", "unverifiable"}]
Asking == [tool : Tools, rating : Nat]
Installing == [tool : Tools, rating : Nat, had : Nat \cup {None}]

Calls ==
  [do : {"like", "unlike", "comment", "follow", "channel", "dm", "read", "stake", "resolve",
         "install", "answer"},
   who : Agents,
   at : {"begun", "notify", "count", "mark", "badges", "write", "weigh", "apply", "upsert",
         "rate", "status"},
   tell : SUBSET Agents, seats : SUBSET Agents,
   read : {None} \cup Stakes \cup Weighing \cup Resolving \cup Asking \cup Installing]

TypeOK ==
  /\ job \in [Workers -> Calls \cup {None}] /\ calls \in Nat
  /\ \A w \in Workers : job[w] # None => calls > 0
  /\ likes \subseteq Agents /\ likesCount \in 0..calls
  /\ comments \in Nat /\ commentsCount \in 0..comments /\ follows \subseteq Agents
  /\ owed \in [Agents -> Nat] /\ told \in [Agents -> [Agents -> Nat]]
  /\ unread \in [Agents -> [Agents -> Nat]] /\ \A a, b \in Agents : unread[a][b] <= told[a][b]
  /\ messages \in Seq([from : Agents, to : Agents, read : BOOLEAN])
  /\ stakes \in [Agents -> Stakes \cup {None}] /\ scores \in [Agents -> Int]
  /\ debited \in [Agents -> Nat] /\ resolved \in Nat
  /\ tool \in Tools /\ tool.installs <= calls /\ tool.count <= calls
  /\ installed \in [Agents -> Nat \cup {None}]
  /\ answers \in Nat /\ answered \in BOOLEAN

Idle == \A w \in Workers : job[w] = None

\* A claim that was found open is resolved once (schema.sql apply_resolution).
ResolvedOnce == resolved <= 1

\* Without failures comments are counted whoever else comments, and likes
\* where one agent's calls do not overlap.  Otherwise likes are at worst
\* counted too high, and stay so.
FeedCounted ==
  ~trouble /\ Idle =>
    /\ commentsCount = comments
    /\ likesCount >= Cardinality(likes)
    /\ overlap # "any" => likesCount = Cardinality(likes)

\* A channel message is told once to each it concerns, and never to another.
ToldOnce ==
  corner = "channels" =>
    \A a \in Agents :
      LET got == SumFunction(told[a])
      IN got <= owed[a] /\ (~trouble /\ Idle => got = owed[a])

\* A message marked read was shown to its reader, while nothing is sent as
\* it reads and the thread fits; a badge stands for an unread message.
ReadWasShown ==
  overlap = "none" /\ Len(messages) <= ThreadLimit =>
    /\ \A i \in 1..Len(messages) : messages[i].read => <<messages[i].to, i>> \in shown
    /\ Idle /\ ~trouble /\ corner = "threads" =>
         \A a, b \in Agents :
           unread[a][b] <= Cardinality({i \in 1..Len(messages) :
             messages[i].to = a /\ messages[i].from = b /\ ~messages[i].read})

\* A stake by the route was paid for, whatever fails.  One at a time, stakes
\* leave the confidence they make, and a claim resolves once.
StakesWeigh ==
  /\ \A a \in Stakers : stakes[a].door = "rest" => debited[a] >= stakes[a].amount
  /\ overlap = "none" =>
       /\ ResolvedOnce
       /\ ~trouble /\ Idle /\ resolved = 0 =>
            confidence = Confidence([p \in Positions |->
              SumFunction([a \in Agents |-> Weight(stakes, scores, a)[p]])])

\* Installs are counted once per agent, unless its own calls overlap; the
\* ratings add up where no two calls overlap.
RatingsAddUp ==
  ~trouble /\ Idle =>
    /\ tool.installs >= Cardinality({a \in Agents : installed[a] # None})
    /\ overlap # "any" => tool.installs = Cardinality({a \in Agents : installed[a] # None})
    /\ overlap = "none" => /\ tool.count = Cardinality(Rated)
                           /\ tool.sum = SumFunction([a \in Agents |-> IF a \in Rated THEN installed[a] ELSE 0])

\* What is kept beside the rows agrees with them, as far as the statements of
\* one call keep it (social.ts, channels.ts, reputation.ts, marketplace.ts,
\* comms.ts).
CountsMatch ==
  /\ FeedCounted /\ ToldOnce /\ ReadWasShown /\ StakesWeigh /\ RatingsAddUp
  /\ ~trouble /\ Idle => (answered <=> answers > 0)
=============================================================================
