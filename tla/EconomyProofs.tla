---------------------------- MODULE EconomyProofs ----------------------------
(***************************************************************************)
(* What the ledger and the fulfilment of Economy promise, for every value  *)
(* of the constants: a purchase is credited once, the caps of the code and *)
(* of its referrers hold, credits are conserved, keys and placements are   *)
(* what was paid for.  The invariants say what the steps still due of each *)
(* invocation carry, for that is all that ties a row to what a handler     *)
(* read of it.                                                             *)
(***************************************************************************)
EXTENDS Economy, Sequences, SequenceTheorems, FiniteSetTheorems, WellFoundedInduction, TLAPS
-----------------------------------------------------------------------------
(* Sums over finite sets *)

\* What holds of zero and of the successor of whatever it holds of holds of
\* every number: otherwise it fails first of some number, by well-foundedness.
LEMMA EveryNat ==
  ASSUME NEW T \in SUBSET Nat, 0 \in T, \A n \in T : n + 1 \in T
  PROVE  T = Nat
<1>1. SUFFICES ASSUME Nat \ T # {} PROVE FALSE
  OBVIOUS
<1>2. PICK n \in Nat \ T : \A m \in Nat \ T : ~(<<m, n>> \in OpToRel(<, Nat))
  <2>1. IsWellFoundedOn(OpToRel(<, Nat), Nat)
    BY NatLessThanWellFounded
  <2>2. Nat \ T \subseteq Nat
    OBVIOUS
  <2>. QED
    BY ONLY <1>1, <2>1, <2>2, WFMin
<1>3. n - 1 \in Nat /\ n - 1 < n
  OBVIOUS
<1>4. n - 1 \in T
  <2>1. <<n - 1, n>> \in OpToRel(<, Nat)
    BY <1>3 DEF OpToRel
  <2>. QED
    BY <1>2, <1>3, <2>1
<1>5. (n - 1) + 1 = n
  OBVIOUS
<1>6. (n - 1) + 1 \in T
  BY <1>4
<1>. QED
  BY <1>5, <1>6

\* The sums of f over the subsets of its domain, an element at a time.
Sums(f, g) ==
  g = [s \in SUBSET DOMAIN f |->
         IF s = {} THEN 0
         ELSE f[CHOOSE x \in s : TRUE] + g[s \ {CHOOSE x \in s : TRUE}]]

LEMMA SmallerSet ==
  ASSUME NEW s, IsFiniteSet(s), s # {}
  PROVE  LET x == CHOOSE y \in s : TRUE
         IN /\ x \in s /\ IsFiniteSet(s \ {x})
            /\ Cardinality(s) \in Nat /\ Cardinality(s \ {x}) \in Nat
            /\ Cardinality(s \ {x}) = Cardinality(s) - 1
<1>1. (CHOOSE y \in s : TRUE) \in s
  OBVIOUS
<1>. QED
  BY <1>1, FS_RemoveElement, FS_CardinalityType

\* Induction over the subsets of a finite set, by their size.
LEMMA EverySubset ==
  ASSUME NEW S, IsFiniteSet(S), NEW T \in SUBSET SUBSET S, {} \in T,
         \A s \in SUBSET S : s # {} /\ s \ {CHOOSE x \in s : TRUE} \in T => s \in T
  PROVE  T = SUBSET S
<1>. DEFINE Sizes == {n \in Nat : \A s \in SUBSET S : Cardinality(s) = n => s \in T}
<1>0. \A s \in SUBSET S : IsFiniteSet(s) /\ Cardinality(s) \in Nat
  BY FS_Subset, FS_CardinalityType
<1>1. 0 \in Sizes
  BY <1>0, FS_EmptySet
<1>2. ASSUME NEW n \in Sizes PROVE n + 1 \in Sizes
  <2>1. SUFFICES ASSUME NEW s \in SUBSET S, Cardinality(s) = n + 1 PROVE s \in T
    OBVIOUS
  <2>2. n \in Nat /\ s # {}
    BY <2>1, FS_EmptySet
  <2>3. Cardinality(s \ {CHOOSE x \in s : TRUE}) = n
    BY <1>0, <2>1, <2>2, SmallerSet
  <2>. QED
    BY <2>2, <2>3
<1>3. Sizes = Nat
  <2>. HIDE DEF Sizes
  <2>1. Sizes \in SUBSET Nat
    BY DEF Sizes
  <2>. QED
    BY ONLY <1>1, <1>2, <2>1, EveryNat
<1>. QED
  BY <1>0, <1>3

LEMMA SumsExist ==
  ASSUME NEW S, IsFiniteSet(S), NEW f, DOMAIN f = S
  PROVE  \E g : Sums(f, g)
<1>. DEFINE x(s) == CHOOSE y \in s : TRUE
            up(g, s) == IF s = {} THEN 0 ELSE f[x(s)] + g[s \ {x(s)}]
            Upto(g, n) == \A s \in SUBSET S : Cardinality(s) <= n => g[s] = up(g, s)
            Sizes == {n \in Nat : \E g : Upto(g, n)}
<1>a. ASSUME NEW s \in SUBSET S PROVE IsFiniteSet(s) /\ Cardinality(s) \in Nat
  BY FS_Subset, FS_CardinalityType
<1>b. ASSUME NEW s \in SUBSET S, s # {}
      PROVE  x(s) \in s /\ Cardinality(s \ {x(s)}) = Cardinality(s) - 1
  BY <1>a, <1>b, SmallerSet
<1>1. 0 \in Sizes
  <2>1. \A s \in SUBSET S : Cardinality(s) <= 0 => s = {}
    <3>1. SUFFICES ASSUME NEW s \in SUBSET S, Cardinality(s) <= 0 PROVE s = {}
      OBVIOUS
    <3>2. IsFiniteSet(s) /\ Cardinality(s) = 0
      BY <1>a, <3>1
    <3>. QED
      BY <3>2, FS_EmptySet
  <2>2. Upto([s \in SUBSET S |-> 0], 0)
    BY <2>1
  <2>. QED
    BY <2>2
<1>2. ASSUME NEW n \in Sizes PROVE n + 1 \in Sizes
  <2>1. PICK g : Upto(g, n)
    OBVIOUS
  <2>. DEFINE h == [s \in SUBSET S |-> up(g, s)]
  <2>2. ASSUME NEW s \in SUBSET S, Cardinality(s) <= n + 1 PROVE h[s] = up(h, s)
    <3>1. CASE s = {}
      BY <3>1
    <3>2. CASE s # {}
      <4>1. s \ {x(s)} \in SUBSET S /\ Cardinality(s \ {x(s)}) <= n
        BY <1>a, <1>b, <2>2, <3>2
      <4>2. g[s \ {x(s)}] = up(g, s \ {x(s)})
        BY <2>1, <4>1
      <4>3. h[s \ {x(s)}] = g[s \ {x(s)}]
        BY <4>1, <4>2
      <4>. QED
        BY <4>3
    <3>. QED
      BY <3>1, <3>2
  <2>. HIDE DEF h, up
  <2>3. Upto(h, n + 1)
    BY <2>2
  <2>. HIDE DEF Upto
  <2>. QED
    BY <2>3
<1>3. Sizes = Nat
  <2>. HIDE DEF Sizes
  <2>1. Sizes \in SUBSET Nat
    BY DEF Sizes
  <2>. QED
    BY ONLY <1>1, <1>2, <2>1, EveryNat
<1>4. PICK g : Upto(g, Cardinality(S))
  <2>1. Cardinality(S) \in Sizes
    BY <1>a, <1>3
  <2>. QED
    BY <2>1
<1>. DEFINE h == [s \in SUBSET S |-> up(g, s)]
<1>5. \A s \in SUBSET S : h[s] = up(h, s)
  <2>1. \A s \in SUBSET S : Cardinality(s) <= Cardinality(S)
    BY FS_Subset
  <2>2. \A s \in SUBSET S : h[s] = g[s]
    BY <1>4, <2>1
  <2>. QED
    BY <2>2
<1>6. Sums(f, h)
  BY <1>5 DEF Sums
<1>. QED
  BY <1>6

LEMMA SumOf ==
  ASSUME NEW S, IsFiniteSet(S), NEW f, DOMAIN f = S
  PROVE  \E g : Sums(f, g) /\ L!SumFunction(f) = g[S]
<1>. DEFINE g == CHOOSE h : Sums(f, h)
<1>1. Sums(f, g)
  BY SumsExist
<1>2. L!SumFunction(f) = g[S]
  BY DEF L!SumFunction, L!SumFunctionOnSet, L!FoldFunctionOnSet, L!MapThenFoldSet, Sums
<1>. QED
  BY <1>1, <1>2

\* What a sum is at a set, in terms of a smaller one.
LEMMA SumsUp ==
  ASSUME NEW f, NEW g, Sums(f, g), NEW s \in SUBSET DOMAIN f
  PROVE  /\ s = {} => g[s] = 0
         /\ s # {} => g[s] = f[CHOOSE x \in s : TRUE] + g[s \ {CHOOSE x \in s : TRUE}]
BY DEF Sums

LEMMA SumInt ==
  ASSUME NEW S, IsFiniteSet(S), NEW f \in [S -> Int]
  PROVE  L!SumFunction(f) \in Int
<1>1. PICK g : Sums(f, g) /\ L!SumFunction(f) = g[S]
  BY SumOf
<1>. DEFINE T == {s \in SUBSET S : g[s] \in Int}
<1>2. {} \in T
  <2>1. {} \in SUBSET DOMAIN f
    OBVIOUS
  <2>2. g[{}] = 0
    BY <1>1, <2>1, SumsUp
  <2>. QED
    BY <2>2
<1>3. ASSUME NEW s \in SUBSET S, s # {}, s \ {CHOOSE x \in s : TRUE} \in T PROVE s \in T
  <2>1. (CHOOSE x \in s : TRUE) \in s
    BY <1>3
  <2>2. f[CHOOSE x \in s : TRUE] \in Int
    BY <2>1
  <2>3. g[s] = f[CHOOSE x \in s : TRUE] + g[s \ {CHOOSE x \in s : TRUE}]
    BY <1>1, <1>3, SumsUp
  <2>. QED
    BY <1>3, <2>2, <2>3
<1>4. T = SUBSET S
  <2>. HIDE DEF T
  <2>1. T \in SUBSET SUBSET S
    BY DEF T
  <2>. QED
    BY ONLY <1>2, <1>3, <2>1, IsFiniteSet(S), EverySubset
<1>5. S \in T
  BY <1>4
<1>. QED
  BY <1>1, <1>5

\* Changing one term changes the sum by as much.
LEMMA SumEdit ==
  ASSUME NEW S, IsFiniteSet(S), NEW f \in [S -> Int], NEW h \in [S -> Int], NEW e \in S,
         \A x \in S \ {e} : h[x] = f[x]
  PROVE  L!SumFunction(h) = L!SumFunction(f) + (h[e] - f[e])
<1>1. PICK g : Sums(f, g) /\ L!SumFunction(f) = g[S]
  BY SumOf
<1>2. PICK k : Sums(h, k) /\ L!SumFunction(h) = k[S]
  BY SumOf
<1>. DEFINE T == {s \in SUBSET S : /\ g[s] \in Int
                                   /\ k[s] = g[s] + IF e \in s THEN h[e] - f[e] ELSE 0}
<1>3. {} \in T
  <2>1. {} \in SUBSET DOMAIN f /\ {} \in SUBSET DOMAIN h
    OBVIOUS
  <2>2. g[{}] = 0 /\ k[{}] = 0
    BY <1>1, <1>2, <2>1, SumsUp
  <2>. QED
    BY <2>2
<1>4. ASSUME NEW s \in SUBSET S, s # {}, s \ {CHOOSE x \in s : TRUE} \in T PROVE s \in T
  <2>1. PICK c \in s : c = CHOOSE x \in s : TRUE
    BY <1>4
  <2>0. s \in SUBSET DOMAIN f /\ s \in SUBSET DOMAIN h
    OBVIOUS
  <2>2. g[s] = f[c] + g[s \ {c}]
    BY <1>1, <1>4, <2>0, <2>1, SumsUp
  <2>3. k[s] = h[c] + k[s \ {c}]
    BY <1>2, <1>4, <2>0, <2>1, SumsUp, SMTT(30)
  <2>4. f[c] \in Int /\ h[c] \in Int /\ f[e] \in Int /\ h[e] \in Int
    OBVIOUS
  <2>5. s \ {c} \in T
    BY <1>4, <2>1
  <2>6. CASE c = e
    BY <2>2, <2>3, <2>4, <2>5, <2>6
  <2>7. CASE c # e
    <3>1. h[c] = f[c] /\ (e \in s <=> e \in s \ {c})
      BY <2>7
    <3>. QED
      BY <2>2, <2>3, <2>4, <2>5, <3>1
  <2>. QED
    BY <2>6, <2>7
<1>5. T = SUBSET S
  <2>. HIDE DEF T
  <2>1. T \in SUBSET SUBSET S
    BY DEF T
  <2>. QED
    BY ONLY <1>3, <1>4, <2>1, IsFiniteSet(S), EverySubset
<1>6. S \in T
  BY <1>5
<1>. QED
  BY <1>1, <1>2, <1>6

\* Nothing adds up to nothing.
LEMMA SumZero ==
  ASSUME NEW S, IsFiniteSet(S), NEW f, DOMAIN f = S, \A x \in S : f[x] = 0
  PROVE  L!SumFunction(f) = 0
<1>1. PICK g : Sums(f, g) /\ L!SumFunction(f) = g[S]
  BY SumOf
<1>. DEFINE T == {s \in SUBSET S : g[s] = 0}
<1>2. {} \in T
  <2>1. {} \in SUBSET DOMAIN f
    OBVIOUS
  <2>2. g[{}] = 0
    BY <1>1, <2>1, SumsUp
  <2>. QED
    BY <2>2
<1>3. ASSUME NEW s \in SUBSET S, s # {}, s \ {CHOOSE x \in s : TRUE} \in T PROVE s \in T
  <2>1. f[CHOOSE x \in s : TRUE] = 0
    BY <1>3
  <2>2. g[s] = f[CHOOSE x \in s : TRUE] + g[s \ {CHOOSE x \in s : TRUE}]
    BY <1>1, <1>3, SumsUp, SMTT(30)
  <2>. QED
    BY <1>3, <2>1, <2>2
<1>4. T = SUBSET S
  <2>. HIDE DEF T
  <2>1. T \in SUBSET SUBSET S
    BY DEF T
  <2>. QED
    BY ONLY <1>2, <1>3, <2>1, IsFiniteSet(S), EverySubset
<1>5. S \in T
  BY <1>4
<1>. QED
  BY <1>1, <1>5

-----------------------------------------------------------------------------
(* The composition *)

\* One part moves at a time, and the others keep what they have.
LEMMA PartsMove ==
  ASSUME [Next]_vars
  PROVE  /\ UNCHANGED part
         /\ L!Next \/ UNCHANGED ledger
         /\ F!Next \/ UNCHANGED fulfilment
<1>1. CASE Next
  BY <1>1 DEF Next
<1>2. CASE UNCHANGED vars
  BY <1>2 DEF vars
<1>. QED
  BY <1>1, <1>2

LEMMA PartsBegin == ASSUME Init PROVE L!Init /\ F!Init
BY DEF Init

-----------------------------------------------------------------------------
(* The ledger: what its handlers hold *)

Ops == {"adjust", "model", "insert", "create", "post", "redeem", "comp", "bump",
        "referral", "count", "grant", "code", "mark"}
Tags == {"transfer_in", "transfer_out", "spend", "escrow", "topup", "bonus", "code"}
          \cup Participants \cup {None}
Steps(tags) == [op : Ops, who : Participants, n : Int, tag : tags]
                 \cup [op : {"set"}, who : Participants, n : Int, tag : tags, seen : Int]
ARow == [credits : Int, home : {"db", "disk"}, by : Participants \cup {None},
         referrals : Nat, comped : {"never", "now", "past"}, compedReferrals : Nat]

ASteps == Seq(Steps(Tags \cup Events))

\* What is issued is a number of parts of a credit, none below zero.
LEMMA PartsAreNumbers ==
  /\ L!PRACTICE_FLOOR \in Nat /\ L!PRACTICE_REWARD \in Nat /\ L!REFERRAL_JOIN_BONUS \in Nat
  /\ \A count : L!SignupBonus(count) \in Nat
  /\ \A cents \in Nat : L!UsdCentsToCredits(cents) \in Nat
<1>1. Credit \in Nat
  BY LedgerConstants
<1>2. ASSUME NEW cents \in Nat PROVE L!UsdCentsToCredits(cents) \in Nat
  <2>. DEFINE whole == (cents * L!CREDITS_PER_USD) \div 100
  <2>1. whole \in Nat
    BY DEF L!CREDITS_PER_USD
  <2>. HIDE DEF whole
  <2>2. Credit * whole \in Nat
    BY <1>1, <2>1
  <2>. QED
    BY <2>2 DEF whole, L!UsdCentsToCredits
<1>3. ASSUME NEW count PROVE L!SignupBonus(count) \in Nat
  BY <1>1 DEF L!SignupBonus
<1>. QED
  BY <1>1, <1>2, <1>3 DEF L!PRACTICE_FLOOR, L!PRACTICE_REWARD, L!REFERRAL_JOIN_BONUS

RowsTyped == row \in [Participants -> ARow \cup {None}]
QueuesTyped == /\ todo \in [Invocations -> ASteps]
               /\ busy \in [Invocations -> SUBSET (Participants \cup {Code})]
CountsTyped == /\ redemptions \in Nat /\ grants \in Nat /\ uncounted \in Nat
               /\ claimed \subseteq Events /\ paid \in [Events -> Nat]

\* A purchase is all its call is about.
Alone(q) ==
  \A k \in DOMAIN q : q[k].tag \in Events => Len(q) = 1 /\ q[1].op \in {"adjust", "set"}
Buys(q, e) == \E k \in DOMAIN q : q[k].tag = e

\* An event is not yet claimed, or with the one call that credits it, or
\* credited, or dropped.
EventsOnce ==
  /\ \A i \in Invocations : Alone(todo[i])
  /\ \A e \in Events :
       /\ paid[e] <= 1
       /\ e \notin claimed => paid[e] = 0 /\ e \notin dropped
       /\ paid[e] = 1 => e \notin dropped
       /\ \A i \in Invocations : Buys(todo[i], e) =>
            /\ e \in claimed \ dropped /\ paid[e] = 0
            /\ \A j \in Invocations : Buys(todo[j], e) => i = j
       /\ e \in claimed \ dropped => paid[e] = 1 \/ \E i \in Invocations : Buys(todo[i], e)

CountOps == {"referral", "count"}
PassOps == {"grant", "code", "mark"}
PromoOps == {"redeem", "comp", "bump"} \cup PassOps

\* An insert comes first, a comp is followed by its count, a referral is
\* counted and passed on once.
Ordered(q) ==
  /\ \A k \in DOMAIN q :
       /\ q[k].op \in {"insert", "code"} => k = 1
       /\ q[k].op = "comp" => k = 1 /\ Len(q) > 1 /\ q[2].op = "bump"
       /\ q[k].op = "bump" => k = 1 \/ (k = 2 /\ q[1].op = "comp")
  /\ \A ops \in {CountOps, PassOps} : \A k, l \in DOMAIN q :
       q[k].op \in ops /\ q[l].op \in ops => k = l

Here(i, p) == L!Registered(p) \/ (L!Due(i, "insert") /\ L!Now(i).who = p)

\* Whom a step of i is about has a row, or gets it first.
Fits(i, s) ==
  /\ s.op \in {"set"} \cup CountOps \cup PassOps => L!Registered(s.who)
  /\ s.op \in {"count", "bump", "code", "mark"} => s.n \in Nat
  /\ s.op \in {"redeem", "comp"} => Here(i, s.who)
  /\ s.op \in {"grant", "code"} => s.tag \in Participants /\ Here(i, s.tag)
  /\ s.op = "insert" => /\ ~L!Registered(s.who) /\ s.who # Poster /\ s.tag # s.who
                        /\ s.who \in busy[i] /\ s.tag \in Participants \cup {None}
  /\ s.op \in PromoOps => Code \in busy[i]

Placed(i) == \A k \in DOMAIN todo[i] : Fits(i, todo[i][k])

\* One registration of a participant at a time.
InsertsApart ==
  \A i, j \in Invocations :
    L!Due(i, "insert") /\ L!Due(j, "insert") /\ L!Now(i).who = L!Now(j).who => i = j

LedgerTyped ==
  /\ RowsTyped /\ QueuesTyped /\ CountsTyped /\ InsertsApart
  /\ \A i \in Invocations : Ordered(todo[i]) /\ Placed(i)

\* No two calls at once are about what is kept quiet, the code least of all.
QuietAlone == \A i, j \in Invocations : busy[i] \cap busy[j] \cap quiet # {} => i = j
CodeAlone ==
  Code \in quiet => \A i, j \in Invocations : Code \in busy[i] \cap busy[j] => i = j

Comped == {p \in L!Rows : row[p].comped # "never"}

Bumps(s) ==
  s.op = "bump" => /\ s.n \in Nat /\ s.n < MaxRedemptions
                   /\ Code \in quiet => s.n = redemptions

\* A comp granted is counted next, and no other in between, or its count fails.
CompsCounted ==
  /\ redemptions <= MaxRedemptions
  /\ Cardinality(Comped) <= grants
  /\ \A i \in Invocations : \A k \in DOMAIN todo[i] : Bumps(todo[i][k])
  /\ Code \in quiet =>
       grants = redemptions + (IF \E i \in Invocations : L!Due(i, "bump") THEN 1 ELSE 0)
                  + uncounted

Owed(q, r, ops) == \E k \in DOMAIN q : q[k].op \in ops /\ q[k].who = r
Owes(i, r, ops) == Owed(todo[i], r, ops)
Names(i, p, r) == busy[i] = {p, r, Code} /\ p # r

\* The newcomers that named r and whose registration is done with it.
Done(r, ops) ==
  {p \in L!Rows : row[p].by = r
     /\ \A i \in Invocations : ~(Names(i, p, r) /\ Owes(i, r, ops))}

\* A call that still owes a referrer is the registration of the one newcomer
\* it is about, and no other call is about that newcomer.
Newcomers ==
  /\ \A p \in L!Rows : row[p].by # p
  /\ \A i \in Invocations, r \in Participants : Owes(i, r, CountOps \cup PassOps) =>
       \E p \in Participants :
            /\ Names(i, p, r)
            /\ \/ L!Registered(p) /\ row[p].by = r
               \/ L!Due(i, "insert") /\ L!Now(i).who = p /\ L!Now(i).tag = r
  /\ \A i, j \in Invocations, p, r, q \in Participants :
       /\ Names(i, p, r) /\ Owes(i, r, CountOps \cup PassOps)
       /\ Names(j, p, q) /\ Owes(j, q, CountOps \cup PassOps)
       => i = j

\* What is counted for a referrer, or read to be counted, never exceeds the
\* newcomers that named it.
Counts(s) ==
  /\ s.op = "count" => s.n <= Cardinality(Done(s.who, CountOps))
  /\ s.op \in {"code", "mark"} =>
       s.n < MaxReferrals /\ s.n <= Cardinality(Done(s.who, PassOps))

ReferralsCounted ==
  /\ \A r \in L!Rows :
       /\ row[r].referrals <= Cardinality(Done(r, CountOps))
       /\ row[r].compedReferrals <= Cardinality(Done(r, PassOps))
       /\ row[r].compedReferrals <= MaxReferrals
  /\ \A i \in Invocations : \A k \in DOMAIN todo[i] : Counts(todo[i][k])

LEMMA StepKinds ==
  ASSUME NEW tags, NEW who \in Participants, NEW n \in Int, NEW tag \in tags, NEW op \in Ops
  PROVE  L!Step(op, who, n, tag) \in Steps(tags)
BY DEF L!Step, Steps, Ops

\* Invocation i has these steps left.
Has(i, q) ==
  /\ q \in ASteps /\ todo' = [todo EXCEPT ![i] = q]
  /\ busy' = IF q = <<>> THEN [busy EXCEPT ![i] = {}] ELSE busy
  /\ UNCHANGED <<quiet, calls>>

LEMMA HasFacts ==
  ASSUME QueuesTyped, NEW i \in Invocations, NEW q, Has(i, q)
  PROVE  /\ QueuesTyped' /\ todo'[i] = q
         /\ \A j \in Invocations \ {i} : todo'[j] = todo[j] /\ busy'[j] = busy[j]
         /\ busy'[i] = IF q = <<>> THEN {} ELSE busy[i]
         /\ UNCHANGED quiet
BY DEF QueuesTyped, Has

\* A handler goes on with new steps before those it had after the first.
LEMMA Proceeds ==
  ASSUME QueuesTyped, NEW i \in Invocations, todo[i] # <<>>, NEW new \in ASteps,
         L!Proceed(i, new)
  PROVE  \E q \in ASteps :
           /\ Has(i, q) /\ Len(q) = Len(new) + Len(todo[i]) - 1
           /\ \A k \in 1..Len(q) :
                q[k] = IF k <= Len(new) THEN new[k] ELSE todo[i][k - Len(new) + 1]
<1>. DEFINE q == new \o Tail(todo[i])
<1>1. todo[i] \in ASteps
  BY DEF QueuesTyped
<1>2. /\ Tail(todo[i]) \in ASteps /\ Len(Tail(todo[i])) = Len(todo[i]) - 1
      /\ \A k \in 1..Len(todo[i]) - 1 : Tail(todo[i])[k] = todo[i][k + 1]
  BY <1>1 DEF ASteps
<1>3. /\ q \in ASteps /\ Len(q) = Len(new) + Len(todo[i]) - 1
      /\ \A k \in 1..Len(q) :
           q[k] = IF k <= Len(new) THEN new[k] ELSE todo[i][k - Len(new) + 1]
  <2>1. /\ q \in ASteps /\ Len(q) = Len(new) + Len(Tail(todo[i]))
        /\ \A k \in 1..Len(q) :
             q[k] = IF k <= Len(new) THEN new[k] ELSE Tail(todo[i])[k - Len(new)]
    BY <1>2 DEF ASteps
  <2>2. Len(new) \in Nat /\ Len(todo[i]) \in Nat /\ Len(todo[i]) > 0
    BY <1>1 DEF ASteps
  <2>. QED
    BY <1>2, <2>1, <2>2
<1>4. Has(i, q)
  BY <1>3 DEF L!Proceed, L!Continue, Has
<1>. QED
  BY <1>3, <1>4

\* The step a handler makes is followed by what it has to do next.
Follows(s, new) ==
  \/ new = <<>>
  \/ /\ s.op = "adjust"
     /\ new = <<[op |-> "set", who |-> s.who, n |-> s.n, tag |-> s.tag,
                 seen |-> row[s.who].credits]>>
     /\ L!Registered(s.who)
  \/ s.op = "post" /\ new = <<L!Adjust(Poster, -L!PRACTICE_REWARD, "escrow")>>
  \/ s.op = "redeem" /\ redemptions < MaxRedemptions /\ new = L!Grant(s.who, redemptions)
  \/ s.op = "referral" /\ new = <<L!Step("count", s.who, row[s.who].referrals, "bonus")>>
  \/ /\ s.op = "grant" /\ row[s.who].compedReferrals < MaxReferrals
     /\ new = <<L!Step("code", s.who, row[s.who].compedReferrals, s.tag)>>
  \/ /\ s.op = "code" /\ redemptions < MaxRedemptions
     /\ new = <<L!Step("comp", s.tag, 0, "code"), L!Step("bump", s.tag, redemptions, "code"),
                L!Step("mark", s.who, s.n, "code")>>

LEMMA FollowsTyped ==
  ASSUME RowsTyped, CountsTyped, NEW s \in Steps(Tags \cup Events), NEW new, Follows(s, new),
         s.op \in CountOps \cup PassOps => L!Registered(s.who),
         s.op \in {"grant", "code"} => s.tag \in Participants
  PROVE  new \in ASteps
<1>. USE LedgerConstants DEF Follows, ASteps
<1>0. s.who \in Participants /\ s.n \in Int /\ s.tag \in Tags \cup Events
  BY DEF Steps
<1>1. {"bonus", "escrow", "code"} \subseteq Tags \cup Events
  BY DEF Tags
<1>2. ASSUME NEW e \in Steps(Tags \cup Events), NEW f \in Steps(Tags \cup Events),
             NEW g \in Steps(Tags \cup Events)
      PROVE  <<e>> \in ASteps /\ <<e, f>> \in ASteps /\ <<e, f, g>> \in ASteps
  OBVIOUS
<1>3. CASE new = <<>>
  BY <1>3
<1>4. CASE s.op = "adjust" /\ new # <<>>
  <2>1. row[s.who].credits \in Int
    BY <1>0, <1>4 DEF RowsTyped, ARow, L!Registered
  <2>. QED
    <3>1. [op |-> "set", who |-> s.who, n |-> s.n, tag |-> s.tag,
           seen |-> row[s.who].credits] \in Steps(Tags \cup Events)
      BY <1>0, <2>1 DEF Steps
    <3>. QED
      BY <1>2, <1>4, <3>1
<1>5. CASE s.op = "post" /\ new # <<>>
  <2>1. L!Adjust(Poster, -L!PRACTICE_REWARD, "escrow") \in Steps(Tags \cup Events)
    BY <1>1, PartsAreNumbers DEF L!Adjust, L!Step, Steps, Ops
  <2>. QED
    BY <1>2, <1>5, <2>1
<1>6. CASE s.op = "redeem" /\ new # <<>>
  <2>1. /\ L!Step("comp", s.who, 0, "code") \in Steps(Tags \cup Events)
        /\ L!Step("bump", s.who, redemptions, "code") \in Steps(Tags \cup Events)
    BY <1>0, <1>1 DEF L!Step, Steps, Ops, CountsTyped
  <2>2. new = <<L!Step("comp", s.who, 0, "code"), L!Step("bump", s.who, redemptions, "code")>>
    BY <1>6 DEF L!Grant
  <2>. QED
    BY ONLY <1>2, <2>1, <2>2
<1>7. CASE s.op = "referral" /\ new # <<>>
  <2>1. row[s.who].referrals \in Nat
    BY <1>0, <1>7 DEF RowsTyped, ARow, L!Registered, CountOps
  <2>2. L!Step("count", s.who, row[s.who].referrals, "bonus") \in Steps(Tags \cup Events)
    BY <1>0, <1>1, <2>1 DEF L!Step, Steps, Ops
  <2>. QED
    BY <1>2, <1>7, <2>2
<1>8. CASE s.op = "grant" /\ new # <<>>
  <2>1. row[s.who].compedReferrals \in Nat
    BY <1>0, <1>8 DEF RowsTyped, ARow, L!Registered, PassOps
  <2>2. L!Step("code", s.who, row[s.who].compedReferrals, s.tag) \in Steps(Tags \cup Events)
    BY <1>0, <2>1 DEF L!Step, Steps, Ops
  <2>. QED
    BY <1>2, <1>8, <2>2
<1>9. CASE s.op = "code" /\ new # <<>>
  <2>1. /\ L!Step("comp", s.tag, 0, "code") \in Steps(Tags \cup Events)
        /\ L!Step("bump", s.tag, redemptions, "code") \in Steps(Tags \cup Events)
        /\ L!Step("mark", s.who, s.n, "code") \in Steps(Tags \cup Events)
    BY <1>0, <1>1, <1>9 DEF L!Step, Steps, Ops, CountsTyped
  <2>2. new = <<L!Step("comp", s.tag, 0, "code"), L!Step("bump", s.tag, redemptions, "code"),
                L!Step("mark", s.who, s.n, "code")>>
    BY <1>9
  <2>. QED
    BY ONLY <1>2, <2>1, <2>2
<1>. QED
  BY <1>3, <1>4, <1>5, <1>6, <1>7, <1>8, <1>9

LEMMA FirstStep ==
  ASSUME QueuesTyped, NEW i \in Invocations, todo[i] # <<>>
  PROVE  /\ todo[i] \in ASteps /\ Len(todo[i]) \in Nat \ {0} /\ DOMAIN todo[i] = 1..Len(todo[i])
         /\ 1 \in DOMAIN todo[i] /\ Head(todo[i]) = todo[i][1]
         /\ todo[i][1] \in Steps(Tags \cup Events)
<1>1. todo[i] \in ASteps
  BY DEF QueuesTyped
<1>2. Len(todo[i]) \in Nat \ {0} /\ DOMAIN todo[i] = 1..Len(todo[i])
  BY <1>1 DEF ASteps
<1>3. todo[i][1] \in Steps(Tags \cup Events) /\ Head(todo[i]) = todo[i][1]
  BY <1>1, <1>2 DEF ASteps
<1>. QED
  BY <1>1, <1>2, <1>3

LEMMA AppendThird == ASSUME NEW d, NEW e, NEW f PROVE Append(<<d, e>>, f) = <<d, e, f>>
<1>1. <<d, e>> \in Seq({d, e, f}) /\ f \in {d, e, f}
  OBVIOUS
<1>2. Append(<<d, e>>, f) \in Seq({d, e, f}) /\ Len(Append(<<d, e>>, f)) = 3
      /\ \A k \in 1..3 : Append(<<d, e>>, f)[k] = <<d, e, f>>[k]
  BY <1>1
<1>3. <<d, e, f>> \in Seq({d, e, f}) /\ Len(<<d, e, f>>) = 3
  OBVIOUS
<1>. QED
  BY <1>2, <1>3, SeqEqual

\* A step of a handler that does not fail.
LEMMA Advances ==
  ASSUME LedgerTyped, NEW i \in Invocations, L!Advance(i), ~L!Fail(i)
  PROVE  todo[i] # <<>> /\ \E new \in ASteps : L!Proceed(i, new) /\ Follows(L!Now(i), new)
<1>. DEFINE s == L!Now(i)
<1>1. SUFFICES todo[i] # <<>> /\ \E new : L!Proceed(i, new) /\ Follows(L!Now(i), new)
  <2>1. todo[i] # <<>> => s \in Steps(Tags \cup Events) /\ s = todo[i][1] /\ 1 \in DOMAIN todo[i]
    BY FirstStep DEF LedgerTyped, L!Now
  <2>2. todo[i] # <<>> =>
          /\ s.op \in CountOps \cup PassOps => L!Registered(s.who)
          /\ s.op \in {"grant", "code"} => s.tag \in Participants
    BY <2>1 DEF LedgerTyped, Placed, Fits
  <2>. QED
    BY <1>1, <2>1, <2>2, FollowsTyped DEF LedgerTyped
<1>2. CASE L!AdjustRead(i)
  BY <1>2 DEF L!AdjustRead, L!Due, L!Idle, L!Now, Follows
<1>3. CASE L!AdjustWrite(i) \/ L!AdjustDisk(i) \/ L!ModelAnswers(i)
  BY <1>3 DEF L!AdjustWrite, L!AdjustDisk, L!ModelAnswers, L!Due, L!Idle, Follows
<1>4. CASE (\E home \in {"db", "disk"} : L!Insert(i, home)) \/ L!Create(i)
  BY <1>4 DEF L!Insert, L!Create, L!Due, L!Idle, Follows
<1>5. CASE L!PostPractice(i)
  BY <1>5 DEF L!PostPractice, L!Due, L!Idle, L!Now, Follows
<1>6. CASE L!Redeem(i)
  BY <1>6 DEF L!Redeem, L!Due, L!Idle, L!Now, Follows
<1>7. CASE L!ApplyComp(i) \/ L!BumpRedemptions(i) \/ L!ReferralWrite(i) \/ L!ReferralDisk(i)
           \/ L!MarkReferral(i)
  BY <1>7 DEF L!ApplyComp, L!BumpRedemptions, L!ReferralWrite, L!ReferralDisk, L!MarkReferral,
              L!Due, L!Idle, Follows
<1>8. CASE L!ReferralRead(i)
  BY <1>8 DEF L!ReferralRead, L!Due, L!Idle, L!Now, Follows
<1>9. CASE L!GrantRead(i)
  BY <1>9 DEF L!GrantRead, L!Due, L!Idle, L!Now, Follows
<1>10. CASE L!GrantCode(i)
  <2>1. ASSUME NEW p, NEW n, NEW e
        PROVE  Append(L!Grant(p, n), e)
                 = <<L!Step("comp", p, 0, "code"), L!Step("bump", p, n, "code"), e>>
    BY AppendThird DEF L!Grant
  <2>. QED
    BY <1>10, <2>1 DEF L!GrantCode, L!Due, L!Idle, L!Now, Follows
<1>. QED
  BY <1>2, <1>3, <1>4, <1>5, <1>6, <1>7, <1>8, <1>9, <1>10 DEF L!Advance

\* A failed step drops what it was to do, and some of what was to follow: a
\* comp with its count.
LEMMA Fails ==
  ASSUME LedgerTyped, NEW i \in Invocations, L!Fail(i)
  PROVE  /\ todo[i] # <<>>
         /\ \E q \in ASteps, m \in Nat \ {0} :
              /\ Has(i, q)
              /\ \A k \in 1..Len(q) : k + m <= Len(todo[i]) /\ q[k] = todo[i][k + m]
              /\ todo[i][1].op = "comp" => m > 1 \/ q = <<>>
              /\ todo[i][1].op = "insert" => q = <<>>
<1>. DEFINE s == todo[i]
            after(n) == SubSeq(s, n + 1, Len(s))
<1>1. /\ s \in ASteps /\ s # <<>> /\ Head(s) = s[1] /\ s[1] \in Steps(Tags \cup Events)
      /\ 1 \in DOMAIN s
  BY FirstStep DEF LedgerTyped, L!Fail, L!Idle
<1>2. ASSUME NEW n \in Nat \ {0}
      PROVE  /\ after(n) \in ASteps
             /\ \A k \in 1..Len(after(n)) : k + n <= Len(s) /\ after(n)[k] = s[k + n]
  <2>1. Len(s) \in Nat
    BY <1>1 DEF ASteps
  <2>2. CASE n + 1 <= Len(s)
    BY <1>1, <2>1, <2>2, SubSeqProperties DEF ASteps
  <2>3. CASE n + 1 > Len(s)
    BY <1>1, <2>1, <2>3, SubSeqEmpty DEF ASteps
  <2>. QED
    BY <2>1, <2>2, <2>3
<1>3. PICK left \in {<<>>, L!Recover(s)} : L!Continue(i, left)
  BY DEF L!Fail
<1>4. CASE left = <<>>
  <2>1. left \in ASteps
    BY <1>4 DEF ASteps
  <2>2. Has(i, left)
    BY <1>3, <2>1 DEF L!Continue, Has
  <2>. QED
    BY <1>1, <1>4, <2>1, <2>2
<1>5. CASE left # <<>>
  <2>1. left = L!Recover(s)
    BY <1>3, <1>5
  <2>2. \/ s[1].op \notin {"comp", "insert"} /\ left = after(1)
        \/ left = after(2) \/ left = after(3)
    BY <1>1, <1>5, <2>1 DEF L!Recover
  <2>3. s[1].op # "insert"
    <3>1. s[1].op = "insert" => s[1].tag # "bonus"
      <4>1. s[1].op = "insert" => s[1].tag \in Participants \cup {None}
        BY <1>1 DEF LedgerTyped, Placed, Fits, ASteps
      <4>. QED
        BY <4>1, LedgerConstants
    <3>. QED
      BY <1>1, <1>5, <2>1, <3>1 DEF L!Recover
  <2>4. PICK m \in {1, 2, 3} : left = after(m) /\ (s[1].op = "comp" => m > 1)
    BY <2>2
  <2>. HIDE DEF after
  <2>5. Has(i, left)
    BY <1>2, <1>3, <2>4 DEF L!Continue, Has
  <2>6. /\ m \in Nat \ {0} /\ left \in ASteps
        /\ \A k \in 1..Len(left) : k + m <= Len(s) /\ left[k] = s[k + m]
    BY <1>2, <2>4
  <2>. QED
    BY <1>1, <2>3, <2>4, <2>5, <2>6
<1>. QED
  BY <1>4, <1>5

\* A row, once there, stays, with the referrer it was registered with.
RowsGrow ==
  /\ RowsTyped'
  /\ \A p \in Participants : L!Registered(p) => row'[p] # None /\ row'[p].by = row[p].by

LEMMA RowEdit ==
  ASSUME RowsTyped, NEW p \in Participants, NEW r \in ARow, row' = [row EXCEPT ![p] = r],
         L!Registered(p) => r.by = row[p].by
  PROVE  RowsGrow /\ row'[p] # None
<1>1. r # None
  BY LedgerConstants DEF ARow
<1>. QED
  BY <1>1 DEF RowsGrow, RowsTyped, L!Registered

LEMMA CreditEdit ==
  ASSUME NEW r \in ARow, NEW credits \in Int
  PROVE  [r EXCEPT !.credits = credits] \in ARow /\ [r EXCEPT !.credits = credits].by = r.by
BY DEF ARow

LEMMA CompEdit ==
  ASSUME NEW r \in ARow, NEW comped \in {"now", "past"}
  PROVE  [r EXCEPT !.comped = comped] \in ARow /\ [r EXCEPT !.comped = comped].by = r.by
BY DEF ARow

LEMMA CountEdits ==
  ASSUME NEW r \in ARow, NEW n \in Nat
  PROVE  /\ [r EXCEPT !.referrals = n] \in ARow /\ [r EXCEPT !.referrals = n].by = r.by
         /\ [r EXCEPT !.compedReferrals = n] \in ARow
         /\ [r EXCEPT !.compedReferrals = n].by = r.by
BY DEF ARow

LEMMA NewRows ==
  ASSUME NEW credits \in Int, NEW home \in {"db", "disk"}, NEW by \in Participants \cup {None}
  PROVE  L!NewRow(credits, home, by) \in ARow
BY DEF L!NewRow, ARow

LEMMA NowFacts ==
  ASSUME LedgerTyped, NEW i \in Invocations, todo[i] # <<>>
  PROVE  /\ L!Now(i) = todo[i][1] /\ 1 \in DOMAIN todo[i]
         /\ L!Now(i).who \in Participants /\ L!Now(i).n \in Int
         /\ L!Now(i).op = "set" => L!Now(i).seen \in Int
         /\ L!Now(i).op \in {"set"} \cup CountOps \cup PassOps =>
              L!Registered(L!Now(i).who) /\ row[L!Now(i).who] \in ARow
         /\ L!Now(i).op \in {"redeem", "comp"} =>
              L!Registered(L!Now(i).who) /\ row[L!Now(i).who] \in ARow
         /\ L!Now(i).op \in {"grant", "code"} =>
              L!Now(i).tag \in Participants /\ L!Registered(L!Now(i).tag)
         /\ L!Now(i).op = "insert" =>
              /\ ~L!Registered(L!Now(i).who) /\ L!Now(i).who # Poster
              /\ L!Now(i).tag \in Participants \cup {None}
<1>1. L!Now(i) = todo[i][1] /\ 1 \in DOMAIN todo[i] /\ todo[i][1] \in Steps(Tags \cup Events)
  BY FirstStep DEF LedgerTyped, L!Now
<1>2. Placed(i)
  BY DEF LedgerTyped
<1>3. \A p \in Participants : L!Registered(p) => row[p] \in ARow
  BY DEF LedgerTyped, RowsTyped, L!Registered
<1>4. L!Now(i).who \in Participants /\ L!Now(i).n \in Int
  BY <1>1 DEF Steps
<1>5. L!Now(i).op = "set" => L!Now(i).seen \in Int
  BY <1>1 DEF Steps, Ops
<1>6. ASSUME NEW p, L!Now(i).op # "insert", Here(i, p) PROVE L!Registered(p)
  BY <1>6 DEF Here, L!Due, L!Now
<1>. QED
  BY <1>1, <1>2, <1>3, <1>4, <1>5, <1>6 DEF Placed, Fits

LEMMA RowsStep ==
  ASSUME LedgerTyped, L!Next
  PROVE  RowsGrow
<1>. USE DEF L!Due, L!Idle
<1>0. RowsTyped
  BY DEF LedgerTyped
<1>1. ASSUME UNCHANGED row PROVE RowsGrow
  BY <1>0, <1>1 DEF RowsGrow, RowsTyped, L!Registered
<1>2. ASSUME NEW i \in Invocations, L!Call(i) PROVE RowsGrow
  BY <1>1, <1>2 DEF L!Call, L!Transfer, L!Spend, L!Register, L!Deliver, L!Practice, L!Look, L!vars
<1>3. ASSUME NEW i \in Invocations,
             \/ L!AdjustRead(i) \/ L!ModelAnswers(i) \/ L!PostPractice(i) \/ L!Redeem(i)
             \/ L!BumpRedemptions(i) \/ L!ReferralRead(i) \/ L!GrantRead(i) \/ L!GrantCode(i)
             \/ L!Fail(i)
      PROVE  RowsGrow
  BY <1>1, <1>3 DEF L!AdjustRead, L!ModelAnswers, L!PostPractice, L!Redeem, L!BumpRedemptions,
                    L!ReferralRead, L!GrantRead, L!GrantCode, L!Fail
<1>4. ASSUME NEW i \in Invocations, L!AdjustWrite(i) PROVE RowsGrow
  <2>. DEFINE p == L!Now(i).who
              credits == L!Now(i).seen + L!Now(i).n
  <2>1. L!Now(i).op = "set" /\ todo[i] # <<>>
    BY <1>4 DEF L!AdjustWrite, L!Now
  <2>2. p \in Participants /\ row[p] \in ARow /\ credits \in Int
    BY <2>1, NowFacts
  <2>3. row' = [row EXCEPT ![p] = [row[p] EXCEPT !.credits = credits]]
    BY <1>4 DEF L!AdjustWrite
  <2>. HIDE DEF p, credits
  <2>. QED
    BY <1>0, <2>2, <2>3, RowEdit, CreditEdit
<1>5. ASSUME NEW i \in Invocations, L!AdjustDisk(i) PROVE RowsGrow
  <2>. DEFINE p == L!Now(i).who
              credits == row[p].credits + L!Now(i).n
  <2>1. L!Registered(p) /\ todo[i] # <<>>
    BY <1>5 DEF L!AdjustDisk
  <2>2. p \in Participants /\ row[p] \in ARow /\ L!Now(i).n \in Int
    BY <1>0, <2>1, NowFacts DEF RowsTyped, L!Registered
  <2>3. credits \in Int
    BY <2>2 DEF ARow
  <2>4. row' = [row EXCEPT ![p] = [row[p] EXCEPT !.credits = credits]]
    BY <1>5 DEF L!AdjustDisk
  <2>. HIDE DEF p, credits
  <2>. QED
    BY <1>0, <2>2, <2>3, <2>4, RowEdit, CreditEdit
<1>6. ASSUME NEW i \in Invocations, NEW home \in {"db", "disk"}, L!Insert(i, home)
      PROVE  RowsGrow
  <2>1. L!Now(i).op = "insert" /\ todo[i] # <<>>
    BY <1>6 DEF L!Insert, L!Now
  <2>2. /\ L!Now(i).who \in Participants /\ ~L!Registered(L!Now(i).who)
        /\ L!NewRow(L!Now(i).n, home, L!Now(i).tag) \in ARow
    BY <2>1, NowFacts, NewRows
  <2>. QED
    BY <1>0, <1>6, <2>2, RowEdit DEF L!Insert
<1>7. ASSUME NEW i \in Invocations, L!Create(i) PROVE RowsGrow
  <2>1. L!NewRow(L!PRACTICE_FLOOR, "db", None) \in ARow
    BY NewRows, PartsAreNumbers
  <2>. QED
    BY <1>0, <1>7, <2>1, RowEdit, LedgerConstants DEF L!Create
<1>8. ASSUME NEW i \in Invocations, L!ApplyComp(i) PROVE RowsGrow
  <2>. DEFINE p == L!Now(i).who
  <2>1. L!Now(i).op = "comp" /\ todo[i] # <<>>
    BY <1>8 DEF L!ApplyComp, L!Now
  <2>2. p \in Participants /\ row[p] \in ARow
    BY <2>1, NowFacts
  <2>3. UNCHANGED row \/ row' = [row EXCEPT ![p] = [row[p] EXCEPT !.comped = "now"]]
    BY <1>8 DEF L!ApplyComp
  <2>. HIDE DEF p
  <2>. QED
    BY <1>0, <1>1, <2>2, <2>3, RowEdit, CompEdit
<1>9. ASSUME NEW i \in Invocations, L!ReferralWrite(i) \/ L!ReferralDisk(i) PROVE RowsGrow
  <2>. DEFINE p == L!Now(i).who
  <2>1. L!Now(i).op \in CountOps /\ todo[i] # <<>>
    BY <1>9 DEF L!ReferralWrite, L!ReferralDisk, L!Now, CountOps
  <2>2. p \in Participants /\ row[p] \in ARow /\ row[p].referrals \in Nat
    BY <2>1, NowFacts DEF ARow
  <2>3. L!Now(i).op = "count" => L!Now(i).n \in Nat
    BY <2>1, NowFacts DEF LedgerTyped, Placed, Fits
  <2>4. PICK n \in Nat : row' = [row EXCEPT ![p] = [row[p] EXCEPT !.referrals = n]]
    <3>1. CASE L!ReferralWrite(i)
      <4>1. row' = [row EXCEPT ![p] = [row[p] EXCEPT !.referrals = L!Now(i).n + 1]]
        BY <3>1 DEF L!ReferralWrite
      <4>2. L!Now(i).n + 1 \in Nat
        BY <2>3, <3>1 DEF L!ReferralWrite, L!Now
      <4>. QED
        BY <4>1, <4>2
    <3>2. CASE L!ReferralDisk(i)
      <4>1. row' = [row EXCEPT ![p] = [row[p] EXCEPT !.referrals = row[p].referrals + 1]]
        BY <3>2 DEF L!ReferralDisk
      <4>2. row[p].referrals + 1 \in Nat
        BY <2>2
      <4>. QED
        BY <4>1, <4>2
    <3>. QED
      BY <1>9, <3>1, <3>2
  <2>. HIDE DEF p
  <2>. QED
    BY <1>0, <2>2, <2>4, RowEdit, CountEdits
<1>10. ASSUME NEW i \in Invocations, L!MarkReferral(i) PROVE RowsGrow
  <2>. DEFINE p == L!Now(i).who
  <2>1. L!Now(i).op = "mark" /\ todo[i] # <<>>
    BY <1>10 DEF L!MarkReferral, L!Now
  <2>2. p \in Participants /\ row[p] \in ARow /\ L!Now(i).n \in Nat
    BY <2>1, NowFacts DEF PassOps, LedgerTyped, Placed, Fits
  <2>3. PICK n \in Nat : row' = [row EXCEPT ![p] = [row[p] EXCEPT !.compedReferrals = n]]
    <3>1. row' = [row EXCEPT ![p] = [row[p] EXCEPT !.compedReferrals = L!Now(i).n + 1]]
      BY <1>10 DEF L!MarkReferral
    <3>2. L!Now(i).n + 1 \in Nat
      BY <2>2
    <3>. QED
      BY <3>1, <3>2
  <2>. HIDE DEF p
  <2>. QED
    BY <1>0, <2>2, <2>3, RowEdit, CountEdits
<1>11. ASSUME NEW p \in Participants, L!Expire(p) PROVE RowsGrow
  <2>1. row[p] \in ARow /\ row' = [row EXCEPT ![p] = [row[p] EXCEPT !.comped = "past"]]
    BY <1>0, <1>11 DEF L!Expire, RowsTyped, L!Registered
  <2>. QED
    BY <1>0, <2>1, RowEdit, CompEdit
<1>. QED
  BY <1>2, <1>3, <1>4, <1>5, <1>6, <1>7, <1>8, <1>9, <1>10, <1>11 DEF L!Next, L!Advance

\* Sequences put together of known steps.
LEMMA Concatenations ==
  ASSUME NEW a, NEW b, NEW d, NEW e, NEW f
  PROVE  /\ <<a>> \o (<<>> \o <<>>) = <<a>>
         /\ <<a>> \o (<<b>> \o <<>>) = <<a, b>>
         /\ <<a>> \o (<<>> \o <<d, e, f>>) = <<a, d, e, f>>
         /\ <<a>> \o (<<b>> \o <<d, e, f>>) = <<a, b, d, e, f>>
<1>. DEFINE S == {a, b, d, e, f}
<1>1. /\ <<a>> \in Seq(S) /\ <<b>> \in Seq(S) /\ <<d, e, f>> \in Seq(S) /\ <<a, b>> \in Seq(S)
      /\ <<a, d, e, f>> \in Seq(S) /\ <<b, d, e, f>> \in Seq(S) /\ <<a, b, d, e, f>> \in Seq(S)
      /\ <<>> \in Seq(S)
  OBVIOUS
<1>. HIDE DEF S
<1>2. \A q \in Seq(S) : q \o <<>> = q /\ <<>> \o q = q
  BY ConcatEmptySeq
<1>3. <<a>> \o <<b>> = <<a, b>>
  <2>1. <<a>> \o <<b>> \in Seq(S) /\ Len(<<a>> \o <<b>>) = 2
        /\ \A k \in 1..2 : (<<a>> \o <<b>>)[k] = <<a, b>>[k]
    BY <1>1
  <2>. QED
    BY <1>1, <2>1, SeqEqual
<1>4. \A h \in S : <<h>> \o <<d, e, f>> = <<h, d, e, f>>
  <2>1. TAKE h \in S
  <2>2. <<h>> \in Seq(S) /\ <<h, d, e, f>> \in Seq(S) /\ Len(<<h, d, e, f>>) = 4
    BY <1>1 DEF S
  <2>3. <<h>> \o <<d, e, f>> \in Seq(S) /\ Len(<<h>> \o <<d, e, f>>) = 4
        /\ \A k \in 1..4 : (<<h>> \o <<d, e, f>>)[k] = <<h, d, e, f>>[k]
    BY <1>1, <2>2
  <2>. QED
    BY <2>2, <2>3, SeqEqual
<1>5. <<a>> \o <<b, d, e, f>> = <<a, b, d, e, f>>
  <2>1. <<a>> \o <<b, d, e, f>> \in Seq(S) /\ Len(<<a>> \o <<b, d, e, f>>) = 5
        /\ \A k \in 1..5 : (<<a>> \o <<b, d, e, f>>)[k] = <<a, b, d, e, f>>[k]
    BY <1>1
  <2>2. Len(<<a, b, d, e, f>>) = 5
    OBVIOUS
  <2>. QED
    BY <1>1, <2>1, <2>2, SeqEqual
<1>6. a \in S /\ b \in S
  BY DEF S
<1>. QED
  BY <1>1, <1>2, <1>3, <1>4, <1>5, <1>6

\* What a call may start with: money moved at once, a purchase's credit, or
\* the INSERT of a newcomer and what its code and its referrer are due.
PlainSteps == Seq({s \in Steps(Tags) : s.op \in {"adjust", "model", "create", "post"}})

Signup(p, n, r, promo) ==
  LET insert == L!Step("insert", p, n, r)
      redeem == L!Step("redeem", p, 0, "code")
      bonus == L!Adjust(r, L!REFERRAL_JOIN_BONUS, "bonus")
      referral == L!Step("referral", r, 0, "bonus")
      pass == L!Step("grant", r, 0, p)
  IN IF promo
       THEN IF r = None THEN <<insert, redeem>> ELSE <<insert, redeem, bonus, referral, pass>>
       ELSE IF r = None THEN <<insert>> ELSE <<insert, bonus, referral, pass>>

Registers(i, subjects, p, r, promo) ==
  /\ p # Poster /\ ~L!Registered(p) /\ \A j \in Invocations : p \notin busy[j]
  /\ r # None => L!Registered(r)
  /\ subjects = ({p, r} \ {None}) \cup (IF promo \/ r # None THEN {Code} ELSE {})

Opened(i, subjects, steps) ==
  /\ todo[i] = <<>> /\ todo' = [todo EXCEPT ![i] = steps]
  /\ busy' = [busy EXCEPT ![i] = IF steps = <<>> THEN {} ELSE subjects]
  /\ \A j \in Invocations : busy[j] \cap subjects \cap quiet = {}
  /\ UNCHANGED <<quiet, row, redemptions, grants, paid, dropped>>

LEMMA OpenedBegins ==
  ASSUME NEW i, NEW subjects, NEW steps, L!Begin(i, subjects, steps),
         UNCHANGED <<row, redemptions, dropped, grants, paid>>
  PROVE  Opened(i, subjects, steps)
BY DEF L!Begin, L!Idle, Opened

LEMMA PlainKinds ==
  ASSUME NEW op \in {"adjust", "model", "create", "post"}, NEW who \in Participants,
         NEW n \in Int, NEW tag \in Tags
  PROVE  L!Step(op, who, n, tag) \in {s \in Steps(Tags) : s.op \in {"adjust", "model", "create",
                                                                  "post"}}
BY DEF L!Step, Steps, Ops

LEMMA PlainOps ==
  ASSUME NEW steps \in PlainSteps
  PROVE  /\ steps \in ASteps
         /\ \A k \in 1..Len(steps) : steps[k].op \in {"adjust", "model", "create", "post"}
<1>. DEFINE K == {s \in Steps(Tags) : s.op \in {"adjust", "model", "create", "post"}}
<1>1. K \subseteq Steps(Tags \cup Events)
  BY DEF Steps
<1>2. steps \in Seq(K) /\ \A s \in K : s.op \in {"adjust", "model", "create", "post"}
  BY DEF PlainSteps
<1>. HIDE DEF K
<1>3. \A k \in 1..Len(steps) : steps[k] \in K
  BY <1>2
<1>4. steps \in Seq(Steps(Tags \cup Events))
  BY <1>1, <1>2, SeqMonotonic
<1>. QED
  BY <1>2, <1>3, <1>4 DEF ASteps

LEMMA PurchaseOps ==
  ASSUME NEW e \in Events, NEW n \in Int, L!Adjust(Bought[e].who, n, e) \in Steps(Events)
  PROVE  /\ <<L!Adjust(Bought[e].who, n, e)>> \in ASteps
         /\ \A k \in 1..Len(<<L!Adjust(Bought[e].who, n, e)>>) :
              <<L!Adjust(Bought[e].who, n, e)>>[k].op = "adjust"
<1>. DEFINE s == L!Adjust(Bought[e].who, n, e)
<1>1. s \in Steps(Tags \cup Events) /\ s.op = "adjust"
  BY DEF Steps, L!Adjust, L!Step
<1>. HIDE DEF s
<1>2. <<s>> \in ASteps /\ \A k \in 1..Len(<<s>>) : <<s>>[k].op = "adjust"
  BY <1>1 DEF ASteps
<1>. QED
  BY <1>2 DEF s

LEMMA TransferOpens ==
  ASSUME LedgerTyped, NEW i \in Invocations, NEW p \in Participants, NEW q \in Participants,
         NEW n \in Amounts, L!Transfer(i, p, q, n)
  PROVE  \E steps \in PlainSteps, subjects \in SUBSET (Participants \cup {Code}) :
           Opened(i, subjects, steps) /\ UNCHANGED claimed
<1>. DEFINE out == L!Step("adjust", p, -n, "transfer_out")
            in == L!Step("adjust", q, n, "transfer_in")
            K == {s \in Steps(Tags) : s.op \in {"adjust", "model", "create", "post"}}
<1>1. {"transfer_out", "transfer_in"} \subseteq Tags /\ n \in Int /\ -n \in Int
  BY LedgerConstants DEF Tags
<1>2. out \in K /\ in \in K
  BY <1>1, PlainKinds
<1>3. L!TransferSteps(p, q, n) = <<out, in>>
  BY DEF L!TransferSteps, L!Adjust
<1>. HIDE DEF out, in, K
<1>4. <<out, in>> \in Seq(K)
  BY <1>2
<1>5. Opened(i, {p, q}, <<out, in>>) /\ UNCHANGED claimed
  BY <1>3, OpenedBegins DEF L!Transfer, L!history
<1>. QED
  BY <1>4, <1>5 DEF PlainSteps, K

\* What is asked for costs a number, of either sign.
LEMMA CostsAreNumbers ==
  ASSUME NEW service \in Services, NEW u \in Units
  PROVE  L!SERVICE_COSTS[service] * u \in Int /\ -(L!SERVICE_COSTS[service] * u) \in Int
<1>1. L!SERVICE_COSTS[service] \in Int /\ u \in Int
  BY LedgerConstants DEF L!SERVICE_COSTS
<1>. HIDE DEF L!SERVICE_COSTS
<1>. QED
  BY <1>1

LEMMA SpendOpens ==
  ASSUME LedgerTyped, NEW i \in Invocations, NEW p \in Participants, NEW service \in Services,
         NEW u \in Units, NEW cap \in WarrantCaps, L!Spend(i, p, service, u, cap)
  PROVE  \E steps \in PlainSteps, subjects \in SUBSET (Participants \cup {Code}) :
           Opened(i, subjects, steps) /\ UNCHANGED claimed
<1>. DEFINE K == {s \in Steps(Tags) : s.op \in {"adjust", "model", "create", "post"}}
            model == L!Step("model", p, 0, "spend")
            cost == L!SERVICE_COSTS[service] * u
            pay == L!Step("adjust", p, -cost, "spend")
<1>1. "spend" \in Tags /\ -cost \in Int
  BY CostsAreNumbers DEF Tags
<1>2. model \in K /\ pay \in K
  BY <1>1, PlainKinds
<1>3. L!SpendSteps(p, service, cost) = (IF service = "generate" THEN <<model>> ELSE <<>>) \o
                                       (IF L!IsComped(p) THEN <<>> ELSE <<pay>>)
  BY DEF L!SpendSteps, L!Adjust
<1>. HIDE DEF model, pay, K
<1>4. <<model>> \in Seq(K) /\ <<pay>> \in Seq(K) /\ <<>> \in Seq(K)
  BY <1>2
<1>5. L!SpendSteps(p, service, cost) \in Seq(K)
  BY <1>3, <1>4
<1>6. Opened(i, {p}, L!SpendSteps(p, service, cost)) /\ UNCHANGED claimed
  BY OpenedBegins DEF L!Spend, L!history
<1>. QED
  BY <1>5, <1>6 DEF PlainSteps, K

LEMMA PracticeOpens ==
  ASSUME LedgerTyped, NEW i \in Invocations, L!Practice(i)
  PROVE  \E steps \in PlainSteps, subjects \in SUBSET (Participants \cup {Code}) :
           Opened(i, subjects, steps) /\ UNCHANGED claimed
<1>. DEFINE K == {s \in Steps(Tags) : s.op \in {"adjust", "model", "create", "post"}}
            floor == L!Step("create", Poster, L!PRACTICE_FLOOR, "topup")
            top == L!Step("adjust", Poster, L!PRACTICE_FLOOR - row[Poster].credits, "topup")
            post == L!Step("post", Poster, L!PRACTICE_REWARD, "escrow")
<1>1. {"topup", "escrow"} \subseteq Tags /\ L!PRACTICE_FLOOR \in Int /\ L!PRACTICE_REWARD \in Int
  BY PartsAreNumbers DEF Tags
<1>2. floor \in K /\ post \in K
  BY <1>1, PlainKinds, LedgerConstants
<1>3. L!Registered(Poster) => top \in K
  <2>1. L!Registered(Poster) => row[Poster].credits \in Int
    BY LedgerConstants DEF LedgerTyped, RowsTyped, ARow, L!Registered
  <2>. QED
    BY <1>1, <2>1, PlainKinds, LedgerConstants
<1>4. L!FloorSteps \in Seq(K)
  <2>1. ~L!Registered(Poster) => L!FloorSteps = <<floor>>
    BY DEF L!FloorSteps
  <2>2. L!Registered(Poster) => L!FloorSteps = <<top>> \/ L!FloorSteps = <<>>
    BY DEF L!FloorSteps, L!Adjust
  <2>. HIDE DEF floor, top, K
  <2>3. <<floor>> \in Seq(K) /\ <<>> \in Seq(K) /\ (L!Registered(Poster) => <<top>> \in Seq(K))
    BY <1>2, <1>3
  <2>. QED
    BY <2>1, <2>2, <2>3
<1>5. Append(L!FloorSteps, post) \in Seq(K)
  <2>. HIDE DEF post, K
  <2>. QED
    BY <1>2, <1>4
<1>6. Opened(i, {Poster}, Append(L!FloorSteps, post)) /\ UNCHANGED claimed
  BY OpenedBegins DEF L!Practice, L!history
<1>. QED
  <2>1. {Poster} \in SUBSET (Participants \cup {Code})
    BY LedgerConstants
  <2>2. Append(L!FloorSteps, post) \in PlainSteps
    BY <1>5 DEF PlainSteps
  <2>. HIDE DEF post
  <2>. QED
    BY <1>6, <2>1, <2>2

LEMMA DeliverOpens ==
  ASSUME NEW i \in Invocations, NEW e \in Events, L!Deliver(i, e)
  PROVE  /\ e \notin claimed /\ claimed' = claimed \cup {e}
         /\ \E n \in Int :
              /\ L!Adjust(Bought[e].who, n, e) \in Steps(Events)
              /\ Opened(i, {Bought[e].who}, <<L!Adjust(Bought[e].who, n, e)>>)
<1>. DEFINE n == L!UsdCentsToCredits(Bought[e].cents)
<1>1. n \in Int
  BY LedgerConstants, PartsAreNumbers
<1>. HIDE DEF n
<1>2. L!Adjust(Bought[e].who, n, e) \in Steps(Events)
  BY <1>1, LedgerConstants DEF L!Adjust, L!Step, Steps, Ops
<1>3. Opened(i, {Bought[e].who}, <<L!Adjust(Bought[e].who, n, e)>>)
  BY OpenedBegins DEF L!Deliver, L!PurchaseSteps, L!history, n
<1>. QED
  BY <1>1, <1>2, <1>3 DEF L!Deliver

LEMMA RegisterOpens ==
  ASSUME LedgerTyped, NEW i \in Invocations, NEW p \in Participants,
         NEW r \in Participants \cup {None}, NEW promo \in BOOLEAN, NEW counted \in BOOLEAN,
         L!Register(i, p, r, promo, counted)
  PROVE  \E n \in Int, subjects \in SUBSET (Participants \cup {Code}) :
           /\ n >= 0 /\ Registers(i, subjects, p, r, promo)
           /\ Opened(i, subjects, Signup(p, n, r, promo))
           /\ UNCHANGED <<claimed, issued, spent, made>>
           /\ Signup(p, n, r, promo) \in ASteps
<1>. DEFINE count == IF counted THEN Crowd + L!Cardinality(L!Rows) ELSE 0
            n == L!SignupBonus(count)
            subjects == ({p, r} \ {None}) \cup (IF promo \/ r # None THEN {Code} ELSE {})
            insert == L!Step("insert", p, n, r)
            redeem == L!Step("redeem", p, 0, "code")
            bonus == L!Adjust(r, L!REFERRAL_JOIN_BONUS, "bonus")
            referral == L!Step("referral", r, 0, "bonus")
            pass == L!Step("grant", r, 0, p)
<1>1. n \in Int /\ n >= 0
  BY PartsAreNumbers
<1>2. subjects \in SUBSET (Participants \cup {Code})
  OBVIOUS
<1>3. /\ Registers(i, subjects, p, r, promo) /\ UNCHANGED <<claimed, issued, spent, made>>
      /\ Opened(i, subjects, <<insert>> \o L!Settlement(p, r, promo))
  <2>1. L!Begin(i, subjects, <<insert>> \o L!Settlement(p, r, promo))
    BY DEF L!Register
  <2>2. UNCHANGED <<row, redemptions, claimed, dropped, grants, paid, issued, spent, made>>
    BY DEF L!Register, L!history
  <2>3. Registers(i, subjects, p, r, promo)
    BY DEF L!Register, Registers, L!Rows
  <2>. HIDE DEF subjects, insert
  <2>. QED
    BY <2>1, <2>2, <2>3, OpenedBegins
<1>. HIDE DEF n, subjects
<1>4. <<insert>> \o L!Settlement(p, r, promo) = Signup(p, n, r, promo)
  <2>1. L!Settlement(p, r, promo) = (IF promo THEN <<redeem>> ELSE <<>>) \o
           (IF r = None THEN <<>> ELSE <<bonus, referral, pass>>)
    BY DEF L!Settlement
  <2>2. Signup(p, n, r, promo)
          = IF promo
              THEN IF r = None THEN <<insert, redeem>>
                   ELSE <<insert, redeem, bonus, referral, pass>>
              ELSE IF r = None THEN <<insert>> ELSE <<insert, bonus, referral, pass>>
    BY DEF Signup
  <2>. HIDE DEF insert, redeem, bonus, referral, pass
  <2>. QED
    <3>0. /\ <<insert>> \o (<<redeem>> \o <<bonus, referral, pass>>)
               = <<insert, redeem, bonus, referral, pass>>
          /\ <<insert>> \o (<<>> \o <<bonus, referral, pass>>) = <<insert, bonus, referral, pass>>
      BY Concatenations
    <3>1. CASE promo /\ r = None
      BY <2>1, <2>2, <3>1, Concatenations
    <3>2. CASE promo /\ r # None
      BY <2>1, <2>2, <3>0, <3>2
    <3>3. CASE ~promo /\ r = None
      BY <2>1, <2>2, <3>3, Concatenations
    <3>4. CASE ~promo /\ r # None
      BY <2>1, <2>2, <3>0, <3>4
    <3>. QED
      BY <3>1, <3>2, <3>3, <3>4
<1>5. Signup(p, n, r, promo) \in ASteps
  <2>. DEFINE S == Steps(Tags \cup Events)
  <2>1. /\ insert \in S /\ redeem \in S
    BY <1>1 DEF L!Step, Steps, Ops, Tags
  <2>2. r # None => bonus \in S /\ referral \in S /\ pass \in S
    BY PartsAreNumbers DEF L!Adjust, L!Step, Steps, Ops, Tags
  <2>3. Signup(p, n, r, promo)
          = IF promo
              THEN IF r = None THEN <<insert, redeem>>
                   ELSE <<insert, redeem, bonus, referral, pass>>
              ELSE IF r = None THEN <<insert>> ELSE <<insert, bonus, referral, pass>>
    BY DEF Signup
  <2>. HIDE DEF insert, redeem, bonus, referral, pass, S
  <2>4. Signup(p, n, r, promo) \in Seq(S)
    BY <2>1, <2>2, <2>3
  <2>. QED
    BY <2>4 DEF ASteps, S
<1>. QED
  BY <1>1, <1>2, <1>3, <1>4, <1>5

\* A row appears by the INSERT of its registration, or of the poster.
LEMMA RowsAppear ==
  ASSUME LedgerTyped, L!Next, NEW p \in Participants, ~L!Registered(p), row'[p] # None
  PROVE  p = Poster
         \/ \E i \in Invocations : /\ L!Due(i, "insert") /\ L!Now(i).who = p
                                   /\ L!Proceed(i, <<>>)
<1>. USE DEF L!Registered
<1>0. row \in [Participants -> ARow \cup {None}]
  BY DEF LedgerTyped, RowsTyped
<1>1. ASSUME NEW who \in Participants, NEW r, row' = [row EXCEPT ![who] = r],
             row[who] # None
      PROVE  FALSE
  BY <1>0, <1>1
<1>2. ASSUME NEW i \in Invocations, L!Call(i) PROVE FALSE
  BY <1>2 DEF L!Call, L!Transfer, L!Spend, L!Register, L!Deliver, L!Practice, L!Look, L!vars
<1>3. ASSUME NEW i \in Invocations,
             \/ L!AdjustRead(i) \/ L!ModelAnswers(i) \/ L!PostPractice(i) \/ L!Redeem(i)
             \/ L!BumpRedemptions(i) \/ L!ReferralRead(i) \/ L!GrantRead(i) \/ L!GrantCode(i)
             \/ L!Fail(i)
      PROVE  FALSE
  BY <1>3 DEF L!AdjustRead, L!ModelAnswers, L!PostPractice, L!Redeem, L!BumpRedemptions,
              L!ReferralRead, L!GrantRead, L!GrantCode, L!Fail
<1>4. ASSUME NEW i \in Invocations, L!AdjustWrite(i) \/ L!AdjustDisk(i) \/ L!ApplyComp(i)
             \/ L!ReferralWrite(i) \/ L!ReferralDisk(i) \/ L!MarkReferral(i)
      PROVE  FALSE
  <2>1. todo[i] # <<>>
    BY <1>4 DEF L!AdjustWrite, L!AdjustDisk, L!ApplyComp, L!ReferralWrite, L!ReferralDisk,
                L!MarkReferral, L!Due, L!Idle
  <2>2. L!Now(i).who \in Participants /\ row[L!Now(i).who] # None
    BY <1>4, <2>1, NowFacts
    DEF L!AdjustWrite, L!AdjustDisk, L!ApplyComp, L!ReferralWrite, L!ReferralDisk,
        L!MarkReferral, L!Due, L!Now, CountOps, PassOps
  <2>3. UNCHANGED row \/ \E r : row' = [row EXCEPT ![L!Now(i).who] = r]
    BY <1>4 DEF L!AdjustWrite, L!AdjustDisk, L!ApplyComp, L!ReferralWrite, L!ReferralDisk,
                L!MarkReferral
  <2>. QED
    BY <1>1, <2>2, <2>3
<1>5. ASSUME NEW i \in Invocations, NEW home \in {"db", "disk"}, L!Insert(i, home)
      PROVE  L!Due(i, "insert") /\ L!Now(i).who = p /\ L!Proceed(i, <<>>)
  BY <1>0, <1>5 DEF L!Insert
<1>6. ASSUME NEW i \in Invocations, L!Create(i) PROVE p = Poster
  BY <1>0, <1>6 DEF L!Create
<1>7. ASSUME NEW q \in Participants, L!Expire(q) PROVE FALSE
  <2>1. \E r : row' = [row EXCEPT ![q] = r] /\ row[q] # None
    BY <1>7 DEF L!Expire
  <2>. QED
    BY <1>1, <2>1
<1>. QED
  BY <1>2, <1>3, <1>4, <1>5, <1>6, <1>7 DEF L!Next, L!Advance

LEMMA InsertRegisters ==
  ASSUME LedgerTyped, NEW i \in Invocations, L!Advance(i), ~L!Fail(i), L!Due(i, "insert")
  PROVE  row'[L!Now(i).who] # None /\ row'[L!Now(i).who].by = L!Now(i).tag
<1>1. PICK home \in {"db", "disk"} : L!Insert(i, home)
  BY DEF L!Advance, L!AdjustRead, L!AdjustWrite, L!AdjustDisk, L!ModelAnswers, L!Create,
         L!PostPractice, L!Redeem, L!ApplyComp, L!BumpRedemptions, L!ReferralRead,
         L!ReferralWrite, L!ReferralDisk, L!GrantRead, L!GrantCode, L!MarkReferral, L!Due
<1>2. L!Now(i).op = "insert" /\ todo[i] # <<>>
  BY <1>1 DEF L!Insert, L!Now, L!Due, L!Idle
<1>3. L!NewRow(L!Now(i).n, home, L!Now(i).tag) \in ARow /\ L!Now(i).who \in Participants
  BY <1>2, NowFacts, NewRows
<1>4. /\ row \in [Participants -> ARow \cup {None}]
      /\ row' = [row EXCEPT ![L!Now(i).who] = L!NewRow(L!Now(i).n, home, L!Now(i).tag)]
  BY <1>1 DEF L!Insert, LedgerTyped, RowsTyped
<1>5. row'[L!Now(i).who] = L!NewRow(L!Now(i).n, home, L!Now(i).tag)
  BY <1>3, <1>4
<1>. QED
  BY <1>3, <1>5, LedgerConstants DEF L!NewRow, ARow

\* What a step of the ledger does to the calls in flight: nothing, or one goes
\* on, fails, or starts.
Moves(i) ==
  \/ \E new \in ASteps :
       /\ todo[i] # <<>> /\ L!Proceed(i, new) /\ Follows(L!Now(i), new)
       /\ L!Due(i, "insert") =>
            row'[L!Now(i).who] # None /\ row'[L!Now(i).who].by = L!Now(i).tag
  \/ L!Fail(i) /\ UNCHANGED row
  \/ \E steps \in PlainSteps, subjects \in SUBSET (Participants \cup {Code}) :
       Opened(i, subjects, steps) /\ UNCHANGED claimed
  \/ \E e \in Events, n \in Int :
       /\ e \notin claimed /\ claimed' = claimed \cup {e}
       /\ L!Adjust(Bought[e].who, n, e) \in Steps(Events)
       /\ Opened(i, {Bought[e].who}, <<L!Adjust(Bought[e].who, n, e)>>)
  \/ \E p \in Participants, r \in Participants \cup {None}, promo \in BOOLEAN, n \in Int,
        subjects \in SUBSET (Participants \cup {Code}) :
       /\ Registers(i, subjects, p, r, promo)
       /\ Opened(i, subjects, Signup(p, n, r, promo)) /\ UNCHANGED claimed
       /\ Signup(p, n, r, promo) \in ASteps

LEMMA LedgerMoves ==
  ASSUME LedgerTyped, L!Next
  PROVE  \/ UNCHANGED <<todo, busy, quiet>>
         \/ \E i \in Invocations : Moves(i)
<1>1. ASSUME NEW i \in Invocations, L!Call(i) PROVE UNCHANGED <<todo, busy, quiet>> \/ Moves(i)
  <2>1. ASSUME NEW p \in Participants, NEW q \in Participants, NEW n \in Amounts,
               L!Transfer(i, p, q, n)
        PROVE  Moves(i)
    BY <2>1, TransferOpens DEF Moves
  <2>2. ASSUME NEW p \in Participants, NEW s \in Services, NEW u \in Units,
               NEW cap \in WarrantCaps, L!Spend(i, p, s, u, cap)
        PROVE  Moves(i)
    BY <2>2, SpendOpens DEF Moves
  <2>3. ASSUME NEW p \in Participants, NEW r \in Participants \cup {None},
               NEW promo \in BOOLEAN, NEW counted \in BOOLEAN,
               L!Register(i, p, r, promo, counted)
        PROVE  Moves(i)
    BY <2>3, RegisterOpens DEF Moves
  <2>4. ASSUME NEW e \in Events, L!Deliver(i, e) PROVE Moves(i)
    BY <2>4, DeliverOpens DEF Moves
  <2>5. ASSUME L!Practice(i) PROVE Moves(i)
    BY <2>5, PracticeOpens DEF Moves
  <2>6. ASSUME L!Look(i) PROVE UNCHANGED <<todo, busy, quiet>>
    BY <2>6 DEF L!Look, L!vars
  <2>. QED
    BY <1>1, <2>1, <2>2, <2>3, <2>4, <2>5, <2>6 DEF L!Call
<1>2. ASSUME NEW i \in Invocations, L!Advance(i), ~L!Fail(i) PROVE Moves(i)
  BY <1>2, Advances, InsertRegisters DEF Moves
<1>3. ASSUME NEW i \in Invocations, L!Fail(i) PROVE Moves(i)
  BY <1>3 DEF Moves, L!Fail
<1>4. ASSUME NEW p \in Participants, L!Expire(p) PROVE UNCHANGED <<todo, busy, quiet>>
  BY <1>4 DEF L!Expire
<1>. QED
  BY <1>1, <1>2, <1>3, <1>4 DEF L!Next

\* What fits an invocation still does once the rows have grown.
LEMMA FitsGrows ==
  ASSUME RowsGrow, NEW i \in Invocations, NEW s \in Steps(Tags \cup Events),
         s.op # "insert", Fits(i, s), Code \in busy[i] => Code \in busy'[i],
         L!Due(i, "insert") => row'[L!Now(i).who] # None
  PROVE  Fits(i, s)'
<1>1. s.who \in Participants
  BY DEF Steps
<1>2. \A p \in Participants : L!Registered(p) => L!Registered(p)'
  BY DEF RowsGrow, L!Registered
<1>3. \A p \in Participants : Here(i, p) => L!Registered(p)'
  BY <1>2 DEF Here, L!Registered
<1>4. \A p : L!Registered(p)' => Here(i, p)'
  BY DEF Here
<1>. QED
  BY <1>1, <1>2, <1>3, <1>4 DEF Fits

\* A step's successors stand in the order the handler makes them.
LEMMA OrderFollows ==
  ASSUME NEW s \in ASteps, Ordered(s), s # <<>>, NEW new \in ASteps, Follows(s[1], new),
         NEW q \in ASteps, Len(q) = Len(new) + Len(s) - 1,
         \A k \in 1..Len(q) : q[k] = IF k <= Len(new) THEN new[k] ELSE s[k - Len(new) + 1]
  PROVE  /\ Ordered(q)
         /\ \A k \in DOMAIN q : q[k].op # "insert"
<1>. USE DEF CountOps, PassOps
<1>1. /\ Len(s) \in Nat \ {0} /\ DOMAIN s = 1..Len(s) /\ DOMAIN q = 1..Len(q) /\ Len(q) \in Nat
      /\ Len(new) \in Nat
  BY DEF ASteps
<1>2. \A k \in 2..Len(s) :
        /\ s[k].op \notin {"insert", "code", "comp"}
        /\ s[k].op = "bump" => k = 2 /\ s[1].op = "comp"
        /\ \A ops \in {CountOps, PassOps} : s[k].op \in ops => s[1].op \notin ops
        /\ \A ops \in {CountOps, PassOps} : \A l \in 2..Len(s) :
             s[k].op \in ops /\ s[l].op \in ops => k = l
  BY <1>1 DEF Ordered
<1>3. CASE new = <<>>
  <2>1. Len(q) = Len(s) - 1 /\ \A k \in 1..Len(q) : q[k] = s[k + 1] /\ k + 1 \in 2..Len(s)
    BY <1>1, <1>3
  <2>. QED
    BY <1>1, <1>2, <2>1, SMTT(40) DEF Ordered
<1>4. ASSUME NEW e, new = <<e>>, e.op \notin {"insert", "comp", "bump"},
             \A ops \in {CountOps, PassOps} : e.op \in ops => s[1].op \in ops,
             s[1].op # "comp"
      PROVE  Ordered(q) /\ \A k \in DOMAIN q : q[k].op # "insert"
  <2>1. /\ Len(q) = Len(s) /\ q[1] = e
        /\ \A k \in 2..Len(q) : q[k] = s[k]
    BY <1>1, <1>4
  <2>. QED
    BY <1>1, <1>2, <1>4, <2>1 DEF Ordered
<1>5. ASSUME NEW e, NEW f, new = <<e, f>>, e.op = "comp", f.op = "bump", s[1].op # "comp"
      PROVE  Ordered(q) /\ \A k \in DOMAIN q : q[k].op # "insert"
  <2>1. /\ Len(q) = Len(s) + 1 /\ q[1] = e /\ q[2] = f
        /\ \A k \in 3..Len(q) : q[k] = s[k - 1] /\ k - 1 \in 2..Len(s)
    BY <1>1, <1>5
  <2>. QED
    BY <1>1, <1>2, <1>5, <2>1, SMTT(40) DEF Ordered
<1>6. ASSUME NEW e, NEW f, NEW g, new = <<e, f, g>>, e.op = "comp", f.op = "bump",
             g.op = "mark", s[1].op = "code"
      PROVE  Ordered(q) /\ \A k \in DOMAIN q : q[k].op # "insert"
  <2>1. /\ Len(q) = Len(s) + 2 /\ q[1] = e /\ q[2] = f /\ q[3] = g
        /\ \A k \in 4..Len(q) : q[k] = s[k - 2] /\ k - 2 \in 2..Len(s)
    BY <1>1, <1>6
  <2>2. \A k \in DOMAIN q : k \in {1, 2, 3} \/ k \in 4..Len(q)
    BY <1>1, <2>1
  <2>3. \A k \in 4..Len(q) : q[k].op \notin {"insert", "code", "comp", "bump"}
    BY <1>1, <1>2, <1>6, <2>1
  <2>4. \A k \in DOMAIN q :
          /\ q[k].op # "insert" /\ q[k].op # "code"
          /\ q[k].op = "comp" => k = 1 /\ Len(q) > 1 /\ q[2].op = "bump"
          /\ q[k].op = "bump" => k = 2 /\ q[1].op = "comp"
    BY <1>1, <1>6, <2>1, <2>2, <2>3
  <2>5. ASSUME NEW ops \in {CountOps, PassOps}, NEW k \in DOMAIN q, NEW l \in DOMAIN q,
               q[k].op \in ops, q[l].op \in ops
        PROVE  k = l
    <3>1. s[1].op \in ops <=> ops = PassOps
      BY <1>6
    <3>2. \A j \in 4..Len(q) : q[j].op \in ops => s[1].op \notin ops
      BY <1>2, <2>1
    <3>3. \A j \in {1, 2, 3} : q[j].op \in ops => ops = PassOps /\ j = 3
      BY <1>6, <2>1
    <3>4. CASE k \in 4..Len(q) /\ l \in 4..Len(q)
      <4>1. /\ q[k] = s[k - 2] /\ k - 2 \in 2..Len(s)
            /\ q[l] = s[l - 2] /\ l - 2 \in 2..Len(s)
        BY <2>1, <3>4
      <4>2. \A m, n \in 2..Len(s) : s[m].op \in ops /\ s[n].op \in ops => m = n
        BY <1>2, <2>5
      <4>3. k - 2 = l - 2
        BY <2>5, <4>1, <4>2
      <4>. QED
        BY <3>4, <4>3
    <3>. QED
      BY <2>2, <2>5, <3>1, <3>2, <3>3, <3>4
  <2>. QED
    BY <2>4, <2>5 DEF Ordered
<1>7. CASE s[1].op \in {"adjust", "post", "referral", "grant"} /\ new # <<>>
  <2>1. \E e : /\ new = <<e>>
               /\ e.op = IF s[1].op = "adjust" THEN "set" ELSE IF s[1].op = "post" THEN "adjust"
                         ELSE IF s[1].op = "referral" THEN "count" ELSE "code"
    BY <1>7 DEF Follows, L!Adjust, L!Step
  <2>. QED
    BY <1>4, <1>7, <2>1
<1>8. CASE s[1].op = "redeem" /\ new # <<>>
  BY <1>5, <1>8 DEF Follows, L!Grant, L!Step
<1>9. CASE s[1].op = "code" /\ new # <<>>
  BY <1>6, <1>9 DEF Follows, L!Step
<1>. QED
  BY <1>3, <1>7, <1>8, <1>9 DEF Follows

\* What follows a step fits its invocation as the step did.
LEMMA FollowsFits ==
  ASSUME LedgerTyped, RowsGrow, NEW i \in Invocations, todo[i] # <<>>, NEW new \in ASteps,
         Follows(L!Now(i), new), Code \in busy[i] => Code \in busy'[i], NEW k \in 1..Len(new)
  PROVE  Fits(i, new[k])'
<1>. DEFINE s == L!Now(i)
<1>1. /\ s \in Steps(Tags \cup Events) /\ Fits(i, s) /\ s.who \in Participants
  BY FirstStep, NowFacts DEF LedgerTyped, Placed, L!Now
<1>2. new[k] \in Steps(Tags \cup Events)
  BY DEF ASteps
<1>3. redemptions \in Nat
  BY DEF LedgerTyped, CountsTyped
<1>4. s.op # "insert" /\ Len(new) # 0
  BY DEF Follows
<1>. HIDE DEF s
<1>5. Fits(i, new[k]) /\ new[k].op # "insert"
  <2>0. ASSUME NEW p, Here(i, p) PROVE L!Registered(p)
    BY <1>4, <2>0 DEF Here, L!Due, L!Now, s
  <2>1. CASE s.op = "adjust" /\ new # <<>>
    <3>1. new[k].op = "set" /\ new[k].who = s.who /\ L!Registered(s.who)
      BY <1>4, <2>1 DEF Follows, s
    <3>. QED
      BY <3>1 DEF Fits, CountOps, PassOps, PromoOps
  <2>2. CASE s.op = "post" /\ new # <<>>
    <3>1. new[k].op = "adjust"
      BY <1>4, <2>2 DEF Follows, s, L!Adjust, L!Step
    <3>. QED
      BY <3>1 DEF Fits, CountOps, PassOps, PromoOps
  <2>3. CASE s.op = "redeem" /\ new # <<>>
    <3>1. /\ new[k].op \in {"comp", "bump"} /\ new[k].who = s.who
          /\ new[k].op = "bump" => new[k].n = redemptions
      BY <1>4, <2>3 DEF Follows, s, L!Grant, L!Step
    <3>2. Here(i, s.who) /\ Code \in busy[i]
      BY <1>1, <2>3 DEF Fits, PromoOps
    <3>. QED
      BY <1>3, <3>1, <3>2 DEF Fits, CountOps, PassOps, PromoOps
  <2>4. CASE s.op = "referral" /\ new # <<>>
    <3>1. L!Registered(s.who)
      BY <1>1, <2>4 DEF Fits, CountOps
    <3>2. row[s.who].referrals \in Nat
      BY <1>1, <3>1 DEF LedgerTyped, RowsTyped, L!Registered, ARow
    <3>3. new[k].op = "count" /\ new[k].who = s.who /\ new[k].n \in Nat
      BY <1>4, <2>4, <3>2 DEF Follows, s, L!Step
    <3>. QED
      BY <3>1, <3>3 DEF Fits, CountOps, PassOps, PromoOps
  <2>5. CASE s.op = "grant" /\ new # <<>>
    <3>1. L!Registered(s.who) /\ s.tag \in Participants /\ Here(i, s.tag) /\ Code \in busy[i]
      BY <1>1, <2>5 DEF Fits, PassOps, PromoOps
    <3>2. row[s.who].compedReferrals \in Nat
      BY <1>1, <3>1 DEF LedgerTyped, RowsTyped, L!Registered, ARow
    <3>3. new[k].op = "code" /\ new[k].who = s.who /\ new[k].n \in Nat /\ new[k].tag = s.tag
      BY <1>4, <2>5, <3>2 DEF Follows, s, L!Step
    <3>. QED
      BY <3>1, <3>3 DEF Fits, CountOps, PassOps, PromoOps
  <2>6. CASE s.op = "code" /\ new # <<>>
    <3>1. /\ L!Registered(s.who) /\ s.tag \in Participants /\ Here(i, s.tag)
          /\ Code \in busy[i] /\ s.n \in Nat
      BY <1>1, <2>6 DEF Fits, PassOps, PromoOps
    <3>2. /\ new[k].op \in {"comp", "bump", "mark"}
          /\ new[k].op \in {"comp", "bump"} => new[k].who = s.tag
          /\ new[k].op = "mark" => new[k].who = s.who /\ new[k].n = s.n
          /\ new[k].op = "bump" => new[k].n = redemptions
      BY <1>4, <2>6 DEF Follows, s, L!Step
    <3>. QED
      BY <1>3, <3>1, <3>2 DEF Fits, CountOps, PassOps, PromoOps
  <2>. QED
    BY <1>4, <2>1, <2>2, <2>3, <2>4, <2>5, <2>6 DEF Follows, s
<1>. QED
  <2>1. ~L!Due(i, "insert")
    BY <1>4 DEF L!Due, L!Now, s
  <2>. QED
    BY <1>2, <1>5, <2>1, FitsGrows

\* What a move leaves invocation i with, the others keeping theirs.
Settled(i) ==
  \E q \in ASteps :
    /\ todo'[i] = q /\ QueuesTyped'
    /\ \A j \in Invocations \ {i} : todo'[j] = todo[j] /\ busy'[j] = busy[j]
    /\ Ordered(q)
    /\ \A k \in 1..Len(q) : Fits(i, q[k])'
    /\ q # <<>> /\ q[1].op = "insert" => \A j \in Invocations : q[1].who \notin busy[j]

LEMMA ProceedSettles ==
  ASSUME LedgerTyped, RowsGrow, NEW i \in Invocations, NEW new \in ASteps, todo[i] # <<>>,
         L!Proceed(i, new), Follows(L!Now(i), new),
         L!Due(i, "insert") => row'[L!Now(i).who] # None
  PROVE  Settled(i)
<1>1. PICK q \in ASteps :
        /\ Has(i, q) /\ Len(q) = Len(new) + Len(todo[i]) - 1
        /\ \A k \in 1..Len(q) :
             q[k] = IF k <= Len(new) THEN new[k] ELSE todo[i][k - Len(new) + 1]
  BY Proceeds DEF LedgerTyped
<1>2. /\ QueuesTyped' /\ todo'[i] = q
      /\ \A j \in Invocations \ {i} : todo'[j] = todo[j] /\ busy'[j] = busy[j]
      /\ busy'[i] = IF q = <<>> THEN {} ELSE busy[i]
  BY <1>1, HasFacts DEF LedgerTyped
<1>3. todo[i] \in ASteps /\ Ordered(todo[i]) /\ L!Now(i) = todo[i][1]
  BY FirstStep DEF LedgerTyped, L!Now
<1>4. Ordered(q) /\ \A k \in DOMAIN q : q[k].op # "insert"
  BY <1>1, <1>3, OrderFollows
<1>5. ASSUME NEW k \in 1..Len(q) PROVE Fits(i, q[k])'
  <2>1. Len(q) \in Nat /\ Len(todo[i]) \in Nat /\ Len(new) \in Nat /\ q # <<>>
        /\ DOMAIN todo[i] = 1..Len(todo[i]) /\ DOMAIN q = 1..Len(q)
        /\ \A l \in 1..Len(todo[i]) : todo[i][l] \in Steps(Tags \cup Events)
    BY <1>3 DEF ASteps
  <2>2. busy'[i] = busy[i]
    BY <1>2, <2>1
  <2>3. CASE k <= Len(new)
    BY <1>1, <2>1, <2>2, <2>3, FollowsFits
  <2>4. CASE k > Len(new)
    <3>. DEFINE l == k - Len(new) + 1
    <3>1. l \in 1..Len(todo[i]) /\ q[k] = todo[i][l]
      BY <1>1, <2>1, <2>4
    <3>2. Fits(i, todo[i][l]) /\ todo[i][l] \in Steps(Tags \cup Events)
      BY <2>1, <3>1 DEF LedgerTyped, Placed
    <3>3. q[k].op # "insert"
      BY <1>4, <2>1
    <3>. HIDE DEF l
    <3>. QED
      BY <2>2, <3>1, <3>2, <3>3, FitsGrows
  <2>. QED
    BY <2>1, <2>3, <2>4
<1>6. q # <<>> => q[1].op # "insert"
  <2>1. q # <<>> => 1 \in DOMAIN q
    BY DEF ASteps
  <2>. QED
    BY <1>4, <2>1
<1>. QED
  BY <1>2, <1>4, <1>5, <1>6 DEF Settled

LEMMA FailSettles ==
  ASSUME LedgerTyped, RowsGrow, NEW i \in Invocations, L!Fail(i)
  PROVE  Settled(i)
<1>1. PICK q \in ASteps, m \in Nat \ {0} :
        /\ Has(i, q)
        /\ \A k \in 1..Len(q) : k + m <= Len(todo[i]) /\ q[k] = todo[i][k + m]
        /\ todo[i][1].op = "comp" => m > 1 \/ q = <<>>
        /\ todo[i][1].op = "insert" => q = <<>>
  BY Fails
<1>0. todo[i] # <<>>
  BY Fails
<1>2. /\ QueuesTyped' /\ todo'[i] = q
      /\ \A j \in Invocations \ {i} : todo'[j] = todo[j] /\ busy'[j] = busy[j]
      /\ busy'[i] = IF q = <<>> THEN {} ELSE busy[i]
  BY <1>1, HasFacts DEF LedgerTyped
<1>3. /\ todo[i] \in ASteps /\ Ordered(todo[i]) /\ L!Now(i) = todo[i][1]
      /\ DOMAIN todo[i] = 1..Len(todo[i]) /\ Len(todo[i]) \in Nat \ {0}
      /\ DOMAIN q = 1..Len(q) /\ Len(q) \in Nat
  <2>1. DOMAIN q = 1..Len(q) /\ Len(q) \in Nat
    BY DEF ASteps
  <2>. QED
    BY <1>0, <2>1, FirstStep DEF LedgerTyped, L!Now
<1>4. \A k \in 1..Len(q) : k + m \in 2..Len(todo[i]) /\ q[k] = todo[i][k + m]
  BY <1>1, <1>3
<1>5. \A k \in 1..Len(q) : q[k].op \notin {"insert", "code", "comp"}
                           /\ (q[k].op = "bump" => k = 1)
  <2>1. \A k \in 2..Len(todo[i]) :
          /\ todo[i][k].op \notin {"insert", "code", "comp"}
          /\ todo[i][k].op = "bump" => k = 2 /\ todo[i][1].op = "comp"
    BY <1>3 DEF Ordered
  <2>. QED
    BY <1>1, <1>4, <2>1
<1>6. Ordered(q)
  <2>1. ASSUME NEW ops \in {CountOps, PassOps}, NEW k \in DOMAIN q, NEW l \in DOMAIN q,
               q[k].op \in ops, q[l].op \in ops
        PROVE  k = l
    <3>1. k + m \in DOMAIN todo[i] /\ l + m \in DOMAIN todo[i]
          /\ todo[i][k + m].op \in ops /\ todo[i][l + m].op \in ops
      BY <1>3, <1>4, <2>1
    <3>2. k + m = l + m
      BY <1>3, <3>1 DEF Ordered
    <3>. QED
      BY <1>3, <3>2
  <2>. QED
    BY <1>3, <1>5, <2>1 DEF Ordered
<1>7. ASSUME NEW k \in 1..Len(q) PROVE Fits(i, q[k])'
  <2>1. q # <<>> /\ k + m \in DOMAIN todo[i] /\ q[k] = todo[i][k + m]
        /\ q[k] \in Steps(Tags \cup Events)
    BY <1>3, <1>4 DEF ASteps
  <2>2. busy'[i] = busy[i] /\ ~L!Due(i, "insert")
    BY <1>1, <1>2, <1>3, <2>1 DEF L!Due, L!Now
  <2>3. Fits(i, q[k]) /\ q[k].op # "insert"
    BY <1>5, <2>1 DEF LedgerTyped, Placed
  <2>. QED
    BY <2>1, <2>2, <2>3, FitsGrows
<1>8. q # <<>> => q[1].op # "insert"
  <2>1. q # <<>> => 1 \in 1..Len(q)
    BY DEF ASteps
  <2>. QED
    BY <1>5, <2>1
<1>. QED
  BY <1>2, <1>6, <1>7, <1>8 DEF Settled

LEMMA OpenSettles ==
  ASSUME LedgerTyped, NEW i \in Invocations, NEW subjects \in SUBSET (Participants \cup {Code}),
         NEW steps \in ASteps, Opened(i, subjects, steps)
  PROVE  /\ todo'[i] = steps /\ QueuesTyped'
         /\ \A j \in Invocations \ {i} : todo'[j] = todo[j] /\ busy'[j] = busy[j]
         /\ steps # <<>> => busy'[i] = subjects
BY DEF LedgerTyped, QueuesTyped, Opened

\* Steps no rule is about.
LEMMA FreeSettles ==
  ASSUME LedgerTyped, NEW i \in Invocations, NEW subjects \in SUBSET (Participants \cup {Code}),
         NEW steps \in ASteps, Opened(i, subjects, steps),
         \A k \in 1..Len(steps) : steps[k].op \in {"adjust", "model", "create", "post"}
  PROVE  Settled(i)
<1>1. /\ todo'[i] = steps /\ QueuesTyped'
      /\ \A j \in Invocations \ {i} : todo'[j] = todo[j] /\ busy'[j] = busy[j]
  BY OpenSettles
<1>2. DOMAIN steps = 1..Len(steps) /\ (steps # <<>> => 1 \in 1..Len(steps))
  BY DEF ASteps
<1>3. Ordered(steps)
  BY <1>2 DEF Ordered, CountOps, PassOps
<1>4. \A k \in 1..Len(steps) : Fits(i, steps[k])'
  BY DEF Fits, CountOps, PassOps, PromoOps
<1>. QED
  BY <1>1, <1>2, <1>3, <1>4 DEF Settled

LEMMA SignupSettles ==
  ASSUME LedgerTyped, NEW i \in Invocations, NEW subjects \in SUBSET (Participants \cup {Code}),
         NEW p \in Participants, NEW r \in Participants \cup {None}, NEW promo \in BOOLEAN,
         NEW n \in Int, Registers(i, subjects, p, r, promo), Signup(p, n, r, promo) \in ASteps,
         Opened(i, subjects, Signup(p, n, r, promo))
  PROVE  Settled(i)
<1>. DEFINE s == Signup(p, n, r, promo)
            insert == L!Step("insert", p, n, r)
            redeem == L!Step("redeem", p, 0, "code")
            bonus == L!Adjust(r, L!REFERRAL_JOIN_BONUS, "bonus")
            referral == L!Step("referral", r, 0, "bonus")
            pass == L!Step("grant", r, 0, p)
<1>1. s = IF promo
            THEN IF r = None THEN <<insert, redeem>>
                 ELSE <<insert, redeem, bonus, referral, pass>>
            ELSE IF r = None THEN <<insert>> ELSE <<insert, bonus, referral, pass>>
  BY DEF Signup
<1>2. /\ insert.op = "insert" /\ redeem.op = "redeem" /\ bonus.op = "adjust"
      /\ referral.op = "referral" /\ pass.op = "grant"
      /\ insert.who = p /\ insert.tag = r /\ redeem.who = p /\ referral.who = r
      /\ pass.who = r /\ pass.tag = p
  BY DEF L!Step, L!Adjust
<1>3. s # <<>> /\ s[1] = insert /\ DOMAIN s = 1..Len(s)
  <2>1. DOMAIN s = 1..Len(s)
    BY DEF ASteps
  <2>. HIDE DEF insert, redeem, bonus, referral, pass, s
  <2>. QED
    BY <1>1, <2>1
<1>4. /\ todo'[i] = s /\ QueuesTyped' /\ busy'[i] = subjects
      /\ \A j \in Invocations \ {i} : todo'[j] = todo[j] /\ busy'[j] = busy[j]
  BY <1>3, OpenSettles
<1>5. /\ p \in subjects /\ p # Poster /\ p # r /\ p # None
      /\ ~L!Registered(p) /\ \A j \in Invocations : p \notin busy[j]
      /\ r # None => L!Registered(r) /\ Code \in subjects
      /\ promo => Code \in subjects
  BY LedgerConstants DEF Registers
<1>. HIDE DEF insert, redeem, bonus, referral, pass, s
<1>6. \A k \in DOMAIN s :
        \/ k = 1 /\ s[k] = insert
        \/ promo /\ k = 2 /\ s[k] = redeem
        \/ r # None /\ k = (IF promo THEN 3 ELSE 2) /\ s[k] = bonus
        \/ r # None /\ k = (IF promo THEN 4 ELSE 3) /\ s[k] = referral
        \/ r # None /\ k = (IF promo THEN 5 ELSE 4) /\ s[k] = pass
  BY <1>1
<1>7. Ordered(s)
  BY <1>2, <1>6 DEF Ordered, CountOps, PassOps
<1>8. /\ L!Due(i, "insert")' /\ L!Now(i)' = insert /\ (L!Registered(r)' <=> L!Registered(r))
      /\ (L!Registered(p)' <=> L!Registered(p))
  <2>1. Head(s) = s[1]
    BY <1>3 DEF ASteps, s
  <2>. QED
    BY <1>2, <1>3, <1>4, <2>1 DEF L!Due, L!Now, L!Idle, Opened, L!Registered
<1>9. Here(i, p)'
  BY <1>2, <1>8 DEF Here
<1>10. /\ Fits(i, insert)' /\ (promo => Fits(i, redeem)')
       /\ r # None => Fits(i, bonus)' /\ Fits(i, referral)' /\ Fits(i, pass)'
  BY <1>2, <1>4, <1>5, <1>8, <1>9 DEF Fits, CountOps, PassOps, PromoOps
<1>11. \A k \in 1..Len(s) : Fits(i, s[k])'
  <2>. TAKE k \in 1..Len(s)
  <2>. QED
    BY <1>3, <1>6, <1>10
<1>. QED
  BY <1>2, <1>3, <1>4, <1>5, <1>7, <1>11 DEF Settled, s

LEMMA MovesSettle ==
  ASSUME LedgerTyped, L!Next, NEW i \in Invocations, Moves(i)
  PROVE  Settled(i)
<1>0. RowsGrow
  BY RowsStep
<1>2. ASSUME NEW steps \in PlainSteps, NEW subjects \in SUBSET (Participants \cup {Code}),
             Opened(i, subjects, steps)
      PROVE  Settled(i)
  BY <1>2, PlainOps, FreeSettles
<1>3. ASSUME NEW e \in Events, NEW n \in Int,
             L!Adjust(Bought[e].who, n, e) \in Steps(Events),
             Opened(i, {Bought[e].who}, <<L!Adjust(Bought[e].who, n, e)>>)
      PROVE  Settled(i)
  <2>1. {Bought[e].who} \in SUBSET (Participants \cup {Code})
    BY LedgerConstants
  <2>. QED
    BY <1>3, <2>1, PurchaseOps, FreeSettles
<1>. QED
  BY <1>0, <1>2, <1>3, ProceedSettles, FailSettles, SignupSettles DEF Moves

\* Counters stay natural numbers, claims events.
LEMMA CountsStep ==
  ASSUME LedgerTyped, L!Next
  PROVE  CountsTyped'
<1>. USE DEF L!Due, L!Idle
<1>0. CountsTyped
  BY DEF LedgerTyped
<1>1. ASSUME UNCHANGED <<redemptions, grants, uncounted, claimed, paid>> PROVE CountsTyped'
  BY <1>0, <1>1 DEF CountsTyped
<1>2. ASSUME NEW i \in Invocations, L!Call(i) PROVE CountsTyped'
  <2>1. ASSUME NEW e \in Events, L!Deliver(i, e) PROVE CountsTyped'
    BY <1>0, <2>1 DEF L!Deliver, L!history, CountsTyped
  <2>. QED
    BY <1>1, <1>2, <2>1 DEF L!Call, L!Transfer, L!Spend, L!Register, L!Practice, L!Look, L!vars,
                            L!history
<1>3. ASSUME NEW tag, NEW n, L!Record(tag, n), UNCHANGED <<redemptions, claimed>>
      PROVE  CountsTyped'
  BY <1>0, <1>3 DEF L!Record, CountsTyped
<1>4. ASSUME NEW i \in Invocations, L!BumpRedemptions(i) PROVE CountsTyped'
  <2>1. L!Now(i).op = "bump" /\ Fits(i, L!Now(i))
    BY <1>4, FirstStep DEF L!BumpRedemptions, LedgerTyped, Placed, L!Now
  <2>2. L!Now(i).n + 1 \in Nat
    BY <2>1 DEF Fits
  <2>. QED
    BY <1>0, <1>4, <2>2 DEF L!BumpRedemptions, L!history, CountsTyped
<1>5. ASSUME NEW i \in Invocations, L!ApplyComp(i) PROVE CountsTyped'
  BY <1>0, <1>5 DEF L!ApplyComp, CountsTyped
<1>6. ASSUME NEW i \in Invocations, L!AdjustWrite(i) \/ L!AdjustDisk(i) PROVE CountsTyped'
  BY <1>3, <1>6 DEF L!AdjustWrite, L!AdjustDisk
<1>7. ASSUME NEW i \in Invocations,
             \/ L!AdjustRead(i) \/ L!ModelAnswers(i) \/ L!PostPractice(i) \/ L!Redeem(i)
             \/ L!ReferralRead(i) \/ L!ReferralWrite(i) \/ L!ReferralDisk(i) \/ L!GrantRead(i)
             \/ L!GrantCode(i) \/ L!MarkReferral(i) \/ L!Create(i)
             \/ \E home \in {"db", "disk"} : L!Insert(i, home)
      PROVE  CountsTyped'
  BY <1>1, <1>7 DEF L!AdjustRead, L!ModelAnswers, L!PostPractice, L!Redeem, L!ReferralRead,
     L!ReferralWrite, L!ReferralDisk, L!GrantRead, L!GrantCode, L!MarkReferral,
     L!Create, L!Insert, L!history
<1>9. ASSUME NEW i \in Invocations, L!Fail(i) PROVE CountsTyped'
  BY <1>0, <1>9 DEF L!Fail, CountsTyped
<1>8. ASSUME NEW p \in Participants, L!Expire(p) PROVE CountsTyped'
  BY <1>1, <1>8 DEF L!Expire, L!history
<1>. QED
  BY <1>2, <1>4, <1>5, <1>6, <1>7, <1>8, <1>9 DEF L!Next, L!Advance

LEMMA TypedStep ==
  ASSUME LedgerTyped, L!Next
  PROVE  LedgerTyped'
<1>1. CountsTyped' /\ RowsGrow
  BY CountsStep, RowsStep
<1>2. RowsTyped'
  BY <1>1 DEF RowsGrow
<1>3. ASSUME NEW j \in Invocations, UNCHANGED <<todo[j], busy[j]>>
      PROVE  Ordered(todo[j])' /\ Placed(j)'
  <2>1. /\ DOMAIN todo[j] = 1..Len(todo[j])
        /\ \A k \in DOMAIN todo[j] : todo[j][k] \in Steps(Tags \cup Events)
    <3>1. todo[j] \in ASteps
      BY DEF LedgerTyped, QueuesTyped
    <3>. QED
      BY <3>1 DEF ASteps
  <2>2. L!Due(j, "insert") => row'[L!Now(j).who] = None
    <3>1. SUFFICES ASSUME L!Due(j, "insert"), row'[L!Now(j).who] # None PROVE FALSE
      OBVIOUS
    <3>2. todo[j] # <<>> /\ L!Now(j).op = "insert"
      BY <3>1 DEF L!Due, L!Idle, L!Now
    <3>3. L!Now(j).who \in Participants \ {Poster} /\ ~L!Registered(L!Now(j).who)
      BY <3>2, NowFacts
    <3>4. PICK i \in Invocations : /\ L!Due(i, "insert") /\ L!Now(i).who = L!Now(j).who
                                   /\ L!Proceed(i, <<>>)
      BY <3>1, <3>3, RowsAppear
    <3>5. i = j
      BY <3>1, <3>4 DEF LedgerTyped, InsertsApart
    <3>6. todo[j] \in ASteps /\ todo \in [Invocations -> ASteps]
      BY DEF LedgerTyped, QueuesTyped
    <3>7. <<>> \o Tail(todo[j]) \in ASteps /\ Len(<<>> \o Tail(todo[j])) # Len(todo[j])
      <4>1. Tail(todo[j]) \in ASteps /\ Len(Tail(todo[j])) = Len(todo[j]) - 1
            /\ Len(todo[j]) \in Nat
        BY <3>2, <3>6 DEF ASteps
      <4>2. <<>> \o Tail(todo[j]) = Tail(todo[j])
        BY <4>1, ConcatEmptySeq DEF ASteps
      <4>. QED
        BY <4>1, <4>2
    <3>8. todo'[j] = <<>> \o Tail(todo[j])
      BY <3>4, <3>5, <3>6 DEF L!Proceed, L!Continue
    <3>. QED
      BY <1>3, <3>7, <3>8
  <2>3. ASSUME NEW s \in Steps(Tags \cup Events), Fits(j, s), s.op # "insert",
               ~L!Due(j, "insert")
        PROVE  Fits(j, s)'
    BY <1>1, <1>3, <2>3, FitsGrows
  <2>4. (L!Due(j, "insert") <=> L!Due(j, "insert")') /\ L!Now(j)' = L!Now(j)
    BY <1>3 DEF L!Due, L!Now, L!Idle
  <2>5. \A p \in Participants : Here(j, p) => Here(j, p)'
    BY <1>1, <2>4 DEF Here, RowsGrow, L!Registered
  <2>6. ASSUME NEW k \in DOMAIN todo[j] PROVE Fits(j, todo[j][k])'
    <3>1. PICK s \in Steps(Tags \cup Events) : s = todo[j][k]
      BY <2>1
    <3>2. Fits(j, s) /\ s.who \in Participants
      BY <3>1 DEF LedgerTyped, Placed, Steps
    <3>3. L!Registered(s.who) => L!Registered(s.who)'
      BY <1>1, <3>2 DEF RowsGrow, L!Registered
    <3>4. s.op = "insert" => ~L!Registered(s.who)'
      <4>1. s.op = "insert" => k = 1
        BY <3>1 DEF LedgerTyped, Ordered
      <4>2. s.op = "insert" => L!Due(j, "insert") /\ L!Now(j) = s
        <5>1. todo[j] # <<>>
          BY <2>1
        <5>. QED
          BY <3>1, <4>1, <5>1, FirstStep DEF LedgerTyped, L!Due, L!Now, L!Idle
      <4>. QED
        BY <2>2, <4>2 DEF L!Registered
    <3>5. Fits(j, s)'
      BY <1>3, <2>5, <3>2, <3>3, <3>4 DEF Fits
    <3>. QED
      BY <1>3, <3>1, <3>5
  <2>7. Ordered(todo[j])'
    BY <1>3 DEF LedgerTyped, Ordered
  <2>. QED
    BY <1>3, <2>6, <2>7 DEF Placed
<1>4. CASE UNCHANGED <<todo, busy, quiet>>
  <2>1. QueuesTyped' /\ InsertsApart'
    BY <1>4 DEF LedgerTyped, QueuesTyped, InsertsApart, L!Due, L!Now, L!Idle
  <2>. QED
    BY <1>1, <1>2, <1>3, <1>4, <2>1 DEF LedgerTyped
<1>5. ASSUME NEW i \in Invocations, Moves(i) PROVE LedgerTyped'
  <2>1. PICK q \in ASteps :
          /\ todo'[i] = q /\ QueuesTyped'
          /\ \A j \in Invocations \ {i} : todo'[j] = todo[j] /\ busy'[j] = busy[j]
          /\ Ordered(q)
          /\ \A k \in 1..Len(q) : Fits(i, q[k])'
          /\ q # <<>> /\ q[1].op = "insert" => \A j \in Invocations : q[1].who \notin busy[j]
    BY <1>5, MovesSettle DEF Settled
  <2>2. DOMAIN q = 1..Len(q) /\ (q # <<>> => Head(q) = q[1])
    BY DEF ASteps
  <2>3. Ordered(todo[i])' /\ Placed(i)'
    BY <2>1, <2>2 DEF Placed
  <2>4. \A j \in Invocations : Ordered(todo[j])' /\ Placed(j)'
    BY <1>3, <2>1, <2>3
  <2>5. InsertsApart'
    <3>1. ASSUME NEW j \in Invocations \ {i}, L!Due(j, "insert")'
          PROVE  L!Due(j, "insert") /\ L!Now(j)' = L!Now(j) /\ L!Now(j).who \in busy[j]
      <4>1. L!Due(j, "insert") /\ L!Now(j)' = L!Now(j)
        BY <2>1, <3>1 DEF L!Due, L!Now, L!Idle
      <4>2. Fits(j, L!Now(j)) /\ L!Now(j).op = "insert"
        BY <4>1, FirstStep DEF LedgerTyped, Placed, L!Due, L!Now, L!Idle
      <4>. QED
        BY <4>1, <4>2 DEF Fits
    <3>2. L!Due(i, "insert")' => q # <<>> /\ q[1].op = "insert" /\ L!Now(i)' = q[1]
      BY <2>1, <2>2 DEF L!Due, L!Now, L!Idle
    <3>3. ASSUME NEW j \in Invocations \ {i}, L!Due(j, "insert")', L!Due(i, "insert")'
          PROVE  L!Now(i)'.who # L!Now(j)'.who
      BY <2>1, <3>1, <3>2, <3>3
    <3>4. InsertsApart
      BY DEF LedgerTyped
    <3>5. ASSUME NEW j \in Invocations, NEW k \in Invocations,
                 L!Due(j, "insert")', L!Due(k, "insert")', L!Now(j)'.who = L!Now(k)'.who
          PROVE  j = k
      <4>1. CASE j # i /\ k # i
        BY <3>1, <3>4, <3>5, <4>1 DEF InsertsApart
      <4>2. CASE j = i \/ k = i
        BY <3>3, <3>5, <4>2
      <4>. QED
        BY <4>1, <4>2
    <3>. QED
      BY <3>5 DEF InsertsApart
  <2>. QED
    BY <1>1, <1>2, <2>1, <2>4, <2>5 DEF LedgerTyped
<1>. QED
  BY <1>4, <1>5, LedgerMoves

LEMMA LedgerBegins == ASSUME L!Init PROVE LedgerTyped
<1>1. PICK start \in Starts :
      \E early \in SUBSET {p \in Participants \ {Poster} : start[p] # None} :
        /\ row = [p \in Participants |->
             IF start[p] = None THEN None
             ELSE [L!NewRow(start[p], "db", None) EXCEPT
                     !.comped = IF p \in early THEN "now" ELSE "never"]]
        /\ redemptions = L!Cardinality(early)
  BY DEF L!Init
<1>2. PICK early \in SUBSET Participants :
        /\ row = [p \in Participants |->
             IF start[p] = None THEN None
             ELSE [L!NewRow(start[p], "db", None) EXCEPT
                     !.comped = IF p \in early THEN "now" ELSE "never"]]
        /\ redemptions = L!Cardinality(early)
  BY <1>1
<1>3. RowsTyped
  <2>1. ASSUME NEW p \in Participants, start[p] # None, NEW comped \in {"now", "never"}
        PROVE  [L!NewRow(start[p], "db", None) EXCEPT !.comped = comped] \in ARow
    <3>1. start[p] \in Int
      BY <2>1, LedgerConstants
    <3>. QED
      BY <3>1 DEF L!NewRow, ARow
  <2>. QED
    BY <1>2, <2>1 DEF RowsTyped
<1>4. redemptions \in Nat
  <2>1. IsFiniteSet(early)
    BY FS_Subset, LedgerConstants
  <2>2. L!Cardinality(early) = Cardinality(early)
    BY DEF L!Cardinality, Cardinality
  <2>. QED
    BY <1>2, <2>1, <2>2, FS_CardinalityType
<1>5. /\ todo = [i \in Invocations |-> <<>>] /\ busy = [i \in Invocations |-> {}]
      /\ claimed = {} /\ paid = [e \in Events |-> 0] /\ grants = redemptions /\ uncounted = 0
  BY DEF L!Init
<1>6. QueuesTyped
  BY <1>5 DEF QueuesTyped, ASteps
<1>7. CountsTyped
  BY <1>4, <1>5 DEF CountsTyped
<1>8. \A i \in Invocations : todo[i] = <<>>
  BY <1>5
<1>9. InsertsApart
  BY <1>8 DEF InsertsApart, L!Due, L!Idle
<1>10. \A i \in Invocations : Ordered(todo[i]) /\ Placed(i)
  BY <1>8 DEF Ordered, Placed
<1>. QED
  BY <1>3, <1>6, <1>7, <1>9, <1>10 DEF LedgerTyped

LEMMA AloneFirst ==
  ASSUME NEW s \in ASteps, Alone(s), NEW e \in Events
  PROVE  Buys(s, e) <=> Len(s) = 1 /\ s[1].tag = e /\ s[1].op \in {"adjust", "set"}
<1>1. DOMAIN s = 1..Len(s) /\ Len(s) \in Nat
  BY DEF ASteps
<1>. QED
  BY <1>1 DEF Alone, Buys

\* A handler goes on with the purchase it credits, or is done with it.
LEMMA FollowBuys ==
  ASSUME NEW s \in ASteps, s # <<>>, Alone(s), NEW new \in ASteps, Follows(s[1], new),
         s[1].op = "grant" => s[1].tag \in Participants,
         NEW q \in ASteps, Len(q) = Len(new) + Len(s) - 1,
         \A k \in 1..Len(q) : q[k] = IF k <= Len(new) THEN new[k] ELSE s[k - Len(new) + 1]
  PROVE  /\ Alone(q)
         /\ \A e \in Events : Buys(q, e) <=> Buys(s, e) /\ new # <<>>
<1>1. /\ DOMAIN s = 1..Len(s) /\ Len(s) \in Nat \ {0} /\ DOMAIN q = 1..Len(q) /\ Len(q) \in Nat
      /\ Len(new) \in Nat /\ (Len(new) = 0 <=> new = <<>>)
  BY DEF ASteps
<1>2. {"bonus", "escrow", "code"} \cap Events = {} /\ Participants \cap Events = {}
  BY LedgerConstants
<1>3. CASE \E e \in Events : Buys(s, e)
  <2>1. PICK e \in Events : Len(s) = 1 /\ s[1].tag = e /\ s[1].op \in {"adjust", "set"}
    BY <1>3, AloneFirst
  <2>2. \A f \in Events : Buys(s, f) <=> f = e
    BY <2>1, AloneFirst
  <2>3. CASE new = <<>>
    BY <1>1, <2>1, <2>3 DEF Alone, Buys
  <2>4. CASE new # <<>>
    <3>1. PICK t : new = <<t>> /\ t.op = "set" /\ t.tag = e
      BY <2>1, <2>4 DEF Follows
    <3>2. Len(q) = 1 /\ q[1] = t
      BY <1>1, <2>1, <3>1
    <3>. QED
      BY <1>1, <2>2, <2>4, <3>1, <3>2 DEF Alone, Buys
  <2>. QED
    BY <2>3, <2>4
<1>4. CASE ~\E e \in Events : Buys(s, e)
  <2>1. \A k \in 1..Len(s) : s[k].tag \notin Events
    BY <1>1, <1>4 DEF Buys
  <2>2. \A k \in 1..Len(new) : new[k].tag \notin Events
    <3>1. s[1].tag \notin Events
      BY <1>1, <2>1
    <3>2. CASE s[1].op = "adjust" /\ new # <<>>
      BY <3>1, <3>2 DEF Follows
    <3>3. CASE s[1].op = "grant" /\ new # <<>>
      BY <3>1, <3>3 DEF Follows, L!Step
    <3>4. CASE s[1].op \in {"post", "redeem", "referral"} /\ new # <<>>
      BY <1>2, <3>4 DEF Follows, L!Step, L!Adjust, L!Grant
    <3>5. CASE s[1].op = "code" /\ new # <<>>
      <4>1. PICK a, b, c : new = <<a, b, c>> /\ a.tag = "code" /\ b.tag = "code" /\ c.tag = "code"
        BY <3>5 DEF Follows, L!Step
      <4>. QED
        BY <1>2, <4>1
    <3>6. CASE new = <<>>
      BY <1>1, <3>6
    <3>. QED
      BY <3>2, <3>3, <3>4, <3>5, <3>6 DEF Follows
  <2>3. \A k \in 1..Len(q) : q[k].tag \notin Events
    <3>. TAKE k \in 1..Len(q)
    <3>1. CASE k <= Len(new)
      <4>1. q[k] = new[k] /\ k \in 1..Len(new)
        BY <1>1, <3>1
      <4>. QED
        BY <2>2, <4>1
    <3>2. CASE k > Len(new)
      <4>1. q[k] = s[k - Len(new) + 1] /\ k - Len(new) + 1 \in 1..Len(s)
        BY <1>1, <3>2
      <4>. QED
        BY <2>1, <4>1
    <3>. QED
      BY <1>1, <3>1, <3>2
  <2>. QED
    BY <1>1, <1>4, <2>3 DEF Alone, Buys
<1>. QED
  BY <1>3, <1>4

\* What a step may do to events: nothing, claim one for invocation i, credit
\* the one it holds, or drop it.
EventMoves(i) ==
  /\ \A j \in Invocations : Alone(todo'[j])
  /\ \A j \in Invocations \ {i} : todo'[j] = todo[j]
  /\ \/ /\ \A e \in Events : Buys(todo'[i], e) <=> Buys(todo[i], e)
        /\ UNCHANGED <<claimed, paid>>
        /\ \A e \in Events : e \in dropped' <=> e \in dropped
     \/ \E e \in Events :
          /\ e \notin claimed /\ claimed' = claimed \cup {e} /\ UNCHANGED <<paid, dropped>>
          /\ todo[i] = <<>> /\ \A f \in Events : Buys(todo'[i], f) <=> f = e
     \/ \E e \in Events :
          /\ Buys(todo[i], e) /\ \A f \in Events : ~Buys(todo'[i], f)
          /\ UNCHANGED <<claimed, dropped>> /\ paid' = [paid EXCEPT ![e] = @ + 1]
     \/ \E e \in Events :
          /\ Buys(todo[i], e) /\ \A f \in Events : ~Buys(todo'[i], f)
          /\ UNCHANGED <<claimed, paid>>
          /\ \A f \in Events : f \in dropped' <=> f \in dropped \/ f = e

LEMMA ProceedEvents ==
  ASSUME LedgerTyped, NEW i \in Invocations, Alone(todo[i]), todo[i] # <<>>,
         NEW new \in ASteps, L!Proceed(i, new), Follows(L!Now(i), new)
  PROVE  /\ Alone(todo'[i])
         /\ \A e \in Events : Buys(todo'[i], e) <=> Buys(todo[i], e) /\ new # <<>>
         /\ \A j \in Invocations \ {i} : todo'[j] = todo[j]
<1>1. PICK q \in ASteps :
        /\ Has(i, q) /\ Len(q) = Len(new) + Len(todo[i]) - 1
        /\ \A k \in 1..Len(q) :
             q[k] = IF k <= Len(new) THEN new[k] ELSE todo[i][k - Len(new) + 1]
  BY Proceeds DEF LedgerTyped
<1>2. todo'[i] = q /\ \A j \in Invocations \ {i} : todo'[j] = todo[j]
  BY <1>1, HasFacts DEF LedgerTyped
<1>3. todo[i] \in ASteps /\ L!Now(i) = todo[i][1]
  BY FirstStep DEF LedgerTyped, L!Now
<1>4. todo[i][1].op = "grant" => todo[i][1].tag \in Participants
  BY <1>3, NowFacts
<1>5. Alone(q) /\ \A e \in Events : Buys(q, e) <=> Buys(todo[i], e) /\ new # <<>>
  BY <1>1, <1>3, <1>4, FollowBuys
<1>. QED
  BY <1>2, <1>3, <1>5

LEMMA FailEvents ==
  ASSUME LedgerTyped, NEW i \in Invocations, Alone(todo[i]), L!Fail(i)
  PROVE  /\ Alone(todo'[i]) /\ \A e \in Events : ~Buys(todo'[i], e)
         /\ \A j \in Invocations \ {i} : todo'[j] = todo[j]
         /\ \A e \in Events : e \in dropped' <=> e \in dropped \/ Buys(todo[i], e)
         /\ UNCHANGED <<claimed, paid>>
<1>1. PICK q \in ASteps, m \in Nat \ {0} :
        /\ Has(i, q)
        /\ \A k \in 1..Len(q) : k + m <= Len(todo[i]) /\ q[k] = todo[i][k + m]
  BY Fails
<1>2. todo'[i] = q /\ \A j \in Invocations \ {i} : todo'[j] = todo[j]
  BY <1>1, HasFacts DEF LedgerTyped
<1>3. PICK s \in ASteps : s = todo[i] /\ s # <<>> /\ Head(s) = s[1] /\ DOMAIN s = 1..Len(s)
        /\ Len(s) \in Nat \ {0}
  <2>1. todo[i] # <<>>
    BY Fails
  <2>. QED
    BY <2>1, FirstStep DEF LedgerTyped
<1>4. DOMAIN q = 1..Len(q) /\ Len(q) \in Nat
  BY DEF ASteps
<1>5. \A k \in 1..Len(q) : q[k].tag \notin Events
  <2>. TAKE k \in 1..Len(q)
  <2>1. k + m \in 1..Len(s) /\ q[k] = s[k + m] /\ Len(s) # 1
    BY <1>1, <1>3, <1>4
  <2>. QED
    BY <1>3, <2>1 DEF Alone
<1>6. Alone(q) /\ \A e \in Events : ~Buys(q, e)
  BY <1>4, <1>5 DEF Alone, Buys
<1>7. ASSUME NEW e \in Events PROVE e \in L!Half(s) <=> Buys(s, e)
  <2>1. Buys(s, e) => s[1].tag # "transfer_out"
    <3>1. "transfer_out" \notin Events
      BY LedgerConstants
    <3>2. Buys(s, e) => s[1].tag = e
      BY <1>3, AloneFirst
    <3>. QED
      BY <3>1, <3>2
  <2>2. e # "transfer_in"
    BY LedgerConstants
  <2>. QED
    BY <1>3, <2>1, <2>2 DEF L!Half, Buys
<1>8. dropped' = dropped \cup L!Half(s) /\ UNCHANGED <<claimed, paid>>
  BY <1>3 DEF L!Fail, L!history
<1>. QED
  BY <1>2, <1>3, <1>6, <1>7, <1>8

\* A call that is no purchase opens with steps no event is credited by.
LEMMA OpenEvents ==
  ASSUME LedgerTyped, NEW i \in Invocations, NEW steps \in ASteps, NEW subjects,
         Opened(i, subjects, steps), UNCHANGED claimed,
         \A k \in 1..Len(steps) : steps[k].tag \notin Events
  PROVE  /\ \A j \in Invocations \ {i} : todo'[j] = todo[j]
         /\ Alone(todo'[i]) /\ \A e \in Events : Buys(todo'[i], e) <=> Buys(todo[i], e)
         /\ UNCHANGED <<claimed, paid, dropped>>
<1>1. DOMAIN steps = 1..Len(steps)
  BY DEF ASteps
<1>2. Alone(steps) /\ \A e \in Events : ~Buys(steps, e)
  BY <1>1 DEF Alone, Buys
<1>3. \A e \in Events : ~Buys(<<>>, e)
  BY DEF Buys
<1>. QED
  BY <1>2, <1>3 DEF Opened, LedgerTyped, QueuesTyped

LEMMA EventStep ==
  ASSUME LedgerTyped, \A i \in Invocations : Alone(todo[i]), L!Next
  PROVE  \/ UNCHANGED <<todo, claimed, paid, dropped>>
         \/ \E i \in Invocations : EventMoves(i)
<1>. USE DEF L!Due, L!Idle
<1>0. ASSUME NEW i \in Invocations, \A j \in Invocations \ {i} : todo'[j] = todo[j],
             Alone(todo'[i])
      PROVE  \A j \in Invocations : Alone(todo'[j])
  BY <1>0
<1>1. ASSUME NEW i \in Invocations, L!Call(i)
      PROVE  UNCHANGED <<todo, claimed, paid, dropped>> \/ EventMoves(i)
  <2>1. ASSUME NEW steps \in PlainSteps, NEW subjects, Opened(i, subjects, steps),
               UNCHANGED claimed
        PROVE  EventMoves(i)
    <3>1. Tags \cap Events = {}
      BY LedgerConstants DEF Tags
    <3>2. \A s \in Steps(Tags) : s.tag \in Tags
      BY DEF Steps
    <3>. DEFINE K == {s \in Steps(Tags) : s.op \in {"adjust", "model", "create", "post"}}
    <3>3. \A s \in K : s.tag \notin Events
      BY <3>1, <3>2
    <3>4. steps \in Seq(K)
      BY DEF PlainSteps
    <3>. HIDE DEF K
    <3>5. \A k \in 1..Len(steps) : steps[k].tag \notin Events
      BY <3>3, <3>4
    <3>. QED
      BY <1>0, <2>1, <3>5, PlainOps, OpenEvents DEF EventMoves
  <2>2. ASSUME NEW p \in Participants, NEW r \in Participants \cup {None},
               NEW promo \in BOOLEAN, NEW counted \in BOOLEAN,
               L!Register(i, p, r, promo, counted)
        PROVE  EventMoves(i)
    <3>1. PICK n \in Int, subjects \in SUBSET (Participants \cup {Code}) :
            /\ Opened(i, subjects, Signup(p, n, r, promo)) /\ UNCHANGED claimed
            /\ Signup(p, n, r, promo) \in ASteps
      BY <2>2, RegisterOpens
    <3>2. \A k \in 1..Len(Signup(p, n, r, promo)) :
            Signup(p, n, r, promo)[k].tag \in {"code", "bonus", p, r}
      <4>. DEFINE insert == L!Step("insert", p, n, r)
                  redeem == L!Step("redeem", p, 0, "code")
                  bonus == L!Adjust(r, L!REFERRAL_JOIN_BONUS, "bonus")
                  referral == L!Step("referral", r, 0, "bonus")
                  pass == L!Step("grant", r, 0, p)
      <4>1. Signup(p, n, r, promo)
              = IF promo
                  THEN IF r = None THEN <<insert, redeem>>
                       ELSE <<insert, redeem, bonus, referral, pass>>
                  ELSE IF r = None THEN <<insert>> ELSE <<insert, bonus, referral, pass>>
        BY DEF Signup
      <4>2. /\ insert.tag = r /\ redeem.tag = "code" /\ bonus.tag = "bonus"
            /\ referral.tag = "bonus" /\ pass.tag = p
        BY DEF L!Step, L!Adjust
      <4>. HIDE DEF insert, redeem, bonus, referral, pass
      <4>. QED
        BY <4>1, <4>2
    <3>3. {"code", "bonus", p, r} \cap Events = {}
      BY LedgerConstants
    <3>. QED
      BY <1>0, <3>1, <3>2, <3>3, OpenEvents DEF EventMoves
  <2>3. ASSUME NEW e \in Events, L!Deliver(i, e) PROVE EventMoves(i)
    <3>1. PICK n \in Int :
            /\ e \notin claimed /\ claimed' = claimed \cup {e}
            /\ Opened(i, {Bought[e].who}, <<L!Adjust(Bought[e].who, n, e)>>)
      BY <2>3, DeliverOpens
    <3>. DEFINE s == L!Adjust(Bought[e].who, n, e)
    <3>2. s.op = "adjust" /\ s.tag = e
      BY DEF L!Adjust, L!Step
    <3>. HIDE DEF s
    <3>3. Alone(<<s>>) /\ \A f \in Events : Buys(<<s>>, f) <=> f = e
      BY <3>2 DEF Alone, Buys
    <3>4. /\ todo'[i] = <<s>> /\ todo[i] = <<>> /\ UNCHANGED <<paid, dropped>>
          /\ \A j \in Invocations \ {i} : todo'[j] = todo[j]
      BY <3>1 DEF Opened, LedgerTyped, QueuesTyped, s
    <3>. QED
      BY <1>0, <3>1, <3>3, <3>4 DEF EventMoves
  <2>4. ASSUME L!Look(i) PROVE UNCHANGED <<todo, claimed, paid, dropped>>
    BY <2>4 DEF L!Look, L!vars
  <2>. QED
    BY <1>1, <2>1, <2>2, <2>3, <2>4, TransferOpens, SpendOpens, PracticeOpens DEF L!Call
<1>2. ASSUME NEW i \in Invocations, L!Fail(i) PROVE EventMoves(i)
  <2>1. /\ Alone(todo'[i]) /\ \A e \in Events : ~Buys(todo'[i], e)
        /\ \A j \in Invocations \ {i} : todo'[j] = todo[j]
        /\ \A e \in Events : e \in dropped' <=> e \in dropped \/ Buys(todo[i], e)
        /\ UNCHANGED <<claimed, paid>>
    BY <1>2, FailEvents
  <2>2. CASE \A e \in Events : ~Buys(todo[i], e)
    BY <1>0, <2>1, <2>2 DEF EventMoves
  <2>3. ASSUME NEW e \in Events, Buys(todo[i], e) PROVE EventMoves(i)
    <3>1. \A f \in Events : Buys(todo[i], f) <=> f = e
      BY <2>3, AloneFirst DEF LedgerTyped, QueuesTyped
    <3>. QED
      BY <1>0, <2>1, <2>3, <3>1 DEF EventMoves
  <2>. QED
    BY <2>2, <2>3
<1>3. ASSUME NEW i \in Invocations, L!AdjustRead(i) PROVE EventMoves(i)
  <2>. DEFINE s == [op |-> "set", who |-> L!Now(i).who, n |-> L!Now(i).n, tag |-> L!Now(i).tag,
                    seen |-> row[L!Now(i).who].credits]
  <2>1. /\ L!Proceed(i, <<s>>) /\ L!Now(i).op = "adjust" /\ L!Registered(L!Now(i).who)
        /\ UNCHANGED <<claimed, paid, dropped>> /\ todo[i] # <<>>
    BY <1>3 DEF L!AdjustRead, L!history, L!Now
  <2>2. Follows(L!Now(i), <<s>>)
    BY <2>1 DEF Follows
  <2>3. <<s>> \in ASteps
    <3>1. L!Now(i) \in Steps(Tags \cup Events)
      BY <2>1, FirstStep DEF LedgerTyped, L!Now
    <3>. QED
      BY <2>1, <2>2, <3>1, FollowsTyped DEF LedgerTyped, CountOps, PassOps
  <2>4. <<s>> # <<>>
    OBVIOUS
  <2>. HIDE DEF s
  <2>. QED
    BY <1>0, <2>1, <2>2, <2>3, <2>4, ProceedEvents DEF EventMoves
<1>4. ASSUME NEW i \in Invocations, L!AdjustWrite(i) \/ L!AdjustDisk(i) PROVE EventMoves(i)
  <2>1. /\ L!Proceed(i, <<>>) /\ L!Now(i).op \in {"adjust", "set"} /\ todo[i] # <<>>
        /\ L!Record(L!Now(i).tag, L!Now(i).n) /\ UNCHANGED <<claimed, dropped>>
    BY <1>4 DEF L!AdjustWrite, L!AdjustDisk, L!Now
  <2>2. Follows(L!Now(i), <<>>) /\ <<>> \in ASteps
    BY DEF Follows, ASteps
  <2>3. /\ Alone(todo'[i]) /\ \A e \in Events : ~Buys(todo'[i], e)
        /\ \A j \in Invocations \ {i} : todo'[j] = todo[j]
    BY <2>1, <2>2, ProceedEvents
  <2>4. L!Now(i) = todo[i][1] /\ 1 \in DOMAIN todo[i]
    BY <2>1, NowFacts
  <2>5. CASE L!Now(i).tag \in Events
    <3>1. Buys(todo[i], L!Now(i).tag)
      BY <2>4 DEF Buys
    <3>2. paid' = [paid EXCEPT ![L!Now(i).tag] = @ + 1]
      BY <2>1, <2>5 DEF L!Record
    <3>. QED
      BY <1>0, <2>1, <2>3, <2>5, <3>1, <3>2 DEF EventMoves
  <2>6. CASE L!Now(i).tag \notin Events
    <3>1. \A e \in Events : ~Buys(todo[i], e)
      BY <2>4, <2>6, AloneFirst DEF LedgerTyped, QueuesTyped
    <3>2. UNCHANGED paid
      BY <2>1, <2>6 DEF L!Record
    <3>. QED
      BY <1>0, <2>1, <2>3, <3>1, <3>2 DEF EventMoves
  <2>. QED
    BY <2>5, <2>6
<1>5. ASSUME NEW i \in Invocations, L!Advance(i), ~L!Fail(i), UNCHANGED <<claimed, paid, dropped>>,
             L!Now(i).op \notin {"adjust", "set"}
      PROVE  EventMoves(i)
  <2>1. PICK new \in ASteps : todo[i] # <<>> /\ L!Proceed(i, new) /\ Follows(L!Now(i), new)
    BY <1>5, Advances
  <2>2. \A e \in Events : ~Buys(todo[i], e)
    BY <1>5, <2>1, NowFacts, AloneFirst DEF LedgerTyped, QueuesTyped
  <2>3. /\ Alone(todo'[i]) /\ \A e \in Events : ~Buys(todo'[i], e)
        /\ \A j \in Invocations \ {i} : todo'[j] = todo[j]
    BY <2>1, <2>2, ProceedEvents
  <2>. QED
    BY <1>0, <1>5, <2>2, <2>3 DEF EventMoves
<1>6. ASSUME NEW i \in Invocations,
             \/ L!ModelAnswers(i) \/ L!PostPractice(i) \/ L!Redeem(i) \/ L!ApplyComp(i)
             \/ L!BumpRedemptions(i) \/ L!Create(i)
             \/ L!ReferralRead(i) \/ L!ReferralWrite(i) \/ L!ReferralDisk(i) \/ L!GrantRead(i)
             \/ L!GrantCode(i) \/ L!MarkReferral(i)
             \/ \E home \in {"db", "disk"} : L!Insert(i, home)
      PROVE  UNCHANGED <<claimed, paid, dropped>> /\ L!Now(i).op \notin {"adjust", "set"}
  BY <1>6 DEF L!ModelAnswers, L!PostPractice, L!Redeem, L!ApplyComp, L!BumpRedemptions,
     L!ReferralRead, L!ReferralWrite, L!ReferralDisk, L!GrantRead, L!GrantCode, L!MarkReferral,
     L!Create, L!Insert, L!history, L!Now
<1>7. ASSUME NEW p \in Participants, L!Expire(p) PROVE UNCHANGED <<todo, claimed, paid, dropped>>
  BY <1>7 DEF L!Expire, L!history
<1>. QED
  BY <1>1, <1>2, <1>3, <1>4, <1>5, <1>6, <1>7 DEF L!Next, L!Advance

LEMMA EventsStep ==
  ASSUME LedgerTyped, EventsOnce, L!Next
  PROVE  EventsOnce'
<1>1. CASE UNCHANGED <<todo, claimed, paid, dropped>>
  BY <1>1 DEF EventsOnce
<1>2. ASSUME NEW i \in Invocations, EventMoves(i) PROVE EventsOnce'
  <2>0. /\ \A j \in Invocations : Alone(todo[j])'
        /\ \A j \in Invocations \ {i} : todo'[j] = todo[j]
    BY <1>2 DEF EventMoves
  <2>. DEFINE Fine(e) ==
         /\ paid[e] <= 1
         /\ e \notin claimed => paid[e] = 0 /\ e \notin dropped
         /\ paid[e] = 1 => e \notin dropped
         /\ \A j \in Invocations : Buys(todo[j], e) =>
              /\ e \in claimed \ dropped /\ paid[e] = 0
              /\ \A k \in Invocations : Buys(todo[k], e) => j = k
         /\ e \in claimed \ dropped => paid[e] = 1 \/ \E j \in Invocations : Buys(todo[j], e)
  <2>1. \A e \in Events : Fine(e)
    BY DEF EventsOnce
  <2>2. paid \in [Events -> Nat]
    BY DEF LedgerTyped, CountsTyped
  <2>3. ASSUME NEW e \in Events PROVE Fine(e)'
    <3>1. Fine(e)
      BY <2>1
    <3>2. CASE /\ Buys(todo'[i], e) <=> Buys(todo[i], e)
               /\ e \in claimed' <=> e \in claimed
               /\ e \in dropped' <=> e \in dropped
               /\ paid'[e] = paid[e]
      BY <2>0, <3>1, <3>2
    <3>3. CASE /\ e \notin claimed /\ e \in claimed' /\ UNCHANGED <<paid, dropped>>
               /\ todo[i] = <<>> /\ Buys(todo'[i], e)
      BY <2>0, <3>1, <3>3
    <3>4. CASE /\ Buys(todo[i], e) /\ ~Buys(todo'[i], e)
               /\ UNCHANGED <<claimed, dropped>> /\ paid'[e] = paid[e] + 1
      BY <2>0, <2>2, <3>1, <3>4
    <3>5. CASE /\ Buys(todo[i], e) /\ ~Buys(todo'[i], e)
               /\ UNCHANGED <<claimed, paid>> /\ e \in dropped'
      BY <2>0, <2>2, <3>1, <3>5
    <3>. HIDE DEF Fine
    <3>6. \A f \in Events : Buys(todo[i], f) /\ Buys(todo[i], e) => f = e
      BY <2>0, AloneFirst DEF EventsOnce, LedgerTyped, QueuesTyped
    <3>7. todo[i] = <<>> => ~Buys(todo[i], e)
      BY DEF Buys
    <3>. QED
      BY <1>2, <2>2, <3>2, <3>3, <3>4, <3>5, <3>6, <3>7 DEF EventMoves
  <2>. QED
    BY <2>0, <2>3 DEF EventsOnce
<1>. QED
  BY <1>1, <1>2, EventStep DEF EventsOnce

\* PurchaseOnce: an event of a purchase is claimed by one call, which credits
\* it once or drops it (webhook/stripe/route.ts claimEvent).
THEOREM PurchasesCreditedOnce == Spec => []PurchaseOnce
<1>. DEFINE Inv == LedgerTyped /\ EventsOnce
<1>1. Init => Inv
  <2>. SUFFICES ASSUME Init PROVE Inv
    OBVIOUS
  <2>1. L!Init /\ LedgerTyped
    BY PartsBegin, LedgerBegins
  <2>2. /\ todo = [i \in Invocations |-> <<>>] /\ claimed = {} /\ dropped = {}
        /\ paid = [e \in Events |-> 0]
    BY <2>1 DEF L!Init
  <2>. QED
    BY <2>1, <2>2 DEF EventsOnce, Alone, Buys
<1>2. Inv /\ [Next]_vars => Inv'
  <2>. SUFFICES ASSUME Inv, [Next]_vars PROVE Inv'
    OBVIOUS
  <2>1. CASE L!Next
    BY <2>1, TypedStep, EventsStep
  <2>2. CASE UNCHANGED ledger
    BY <2>2 DEF ledger, LedgerTyped, RowsTyped, QueuesTyped, CountsTyped, InsertsApart, Ordered,
       Placed, Fits, Here, L!Registered, L!Due, L!Now, L!Idle, EventsOnce
  <2>. QED
    BY <2>1, <2>2, PartsMove
<1>3. Inv => PurchaseOnce
  <2>. SUFFICES ASSUME Inv, NEW e \in Events
       PROVE /\ paid[e] <= 1
             /\ paid[e] = 1 => e \in claimed \ dropped
             /\ e \in claimed \ dropped =>
                  \/ paid[e] = 1
                  \/ \E i \in Invocations : \E s \in L!StepsOf(i) : s.tag = e
    BY DEF PurchaseOnce, L!PurchaseOnce
  <2>. QED
    BY DEF EventsOnce, Buys, L!StepsOf
<1>. QED
  BY <1>1, <1>2, <1>3, PTL DEF Spec

\* What a step may do to a row.
RowMoves(p) ==
  \/ row'[p] = row[p]
  \/ /\ row[p] = None /\ row'[p].by # p
     /\ row'[p].comped = "never" /\ row'[p].referrals = 0 /\ row'[p].compedReferrals = 0
  \/ /\ row[p] # None
     /\ \/ row'[p].comped = row[p].comped \/ row[p].comped # "never"
        \/ \E i \in Invocations : L!ApplyComp(i) /\ L!Now(i).who = p
     /\ \/ row'[p].referrals = row[p].referrals
        \/ \E i \in Invocations :
             /\ L!ReferralWrite(i) /\ L!Now(i).who = p
             /\ row'[p].referrals = L!Now(i).n + 1
        \/ \E i \in Invocations :
             /\ L!ReferralDisk(i) /\ L!Now(i).who = p
             /\ row'[p].referrals = row[p].referrals + 1
     /\ \/ row'[p].compedReferrals = row[p].compedReferrals
        \/ \E i \in Invocations :
             /\ L!MarkReferral(i) /\ L!Now(i).who = p
             /\ row'[p].compedReferrals = L!Now(i).n + 1

LEMMA RowChanges ==
  ASSUME LedgerTyped, L!Next, NEW p \in Participants
  PROVE  RowMoves(p)
<1>. USE DEF L!Registered
<1>0. row \in [Participants -> ARow \cup {None}]
  BY DEF LedgerTyped, RowsTyped
<1>1. ASSUME NEW i \in Invocations, L!Call(i) PROVE row' = row
  BY <1>1 DEF L!Call, L!Transfer, L!Spend, L!Register, L!Deliver, L!Practice, L!Look, L!vars
<1>2. ASSUME NEW i \in Invocations,
             \/ L!AdjustRead(i) \/ L!ModelAnswers(i) \/ L!PostPractice(i) \/ L!Redeem(i)
             \/ L!BumpRedemptions(i) \/ L!ReferralRead(i) \/ L!GrantRead(i) \/ L!GrantCode(i)
             \/ L!Fail(i)
      PROVE  row' = row
  BY <1>2 DEF L!AdjustRead, L!ModelAnswers, L!PostPractice, L!Redeem, L!BumpRedemptions,
              L!ReferralRead, L!GrantRead, L!GrantCode, L!Fail
<1>3. ASSUME NEW who \in Participants, row[who] # None, row[who] \in ARow,
             \/ \E n : row' = [row EXCEPT ![who] = [row[who] EXCEPT !.credits = n]]
             \/ row' = [row EXCEPT ![who] = [row[who] EXCEPT !.comped = "past"]]
                /\ row[who].comped = "now"
      PROVE  RowMoves(p)
  <2>1. ASSUME NEW n, row' = [row EXCEPT ![who] = [row[who] EXCEPT !.credits = n]]
        PROVE  RowMoves(p)
    <3>1. CASE p = who
      <4>1. row'[p] = [row[p] EXCEPT !.credits = n] /\ row[p] \in ARow /\ row[p] # None
        BY <1>0, <1>3, <2>1, <3>1
      <4>. QED
        BY <4>1 DEF RowMoves, ARow
    <3>2. CASE p # who
      BY <1>0, <2>1, <3>2 DEF RowMoves
    <3>. QED
      BY <3>1, <3>2
  <2>2. ASSUME row' = [row EXCEPT ![who] = [row[who] EXCEPT !.comped = "past"]],
               row[who].comped = "now"
        PROVE  RowMoves(p)
    <3>1. CASE p = who
      <4>1. /\ row'[p] = [row[p] EXCEPT !.comped = "past"] /\ row[p] \in ARow /\ row[p] # None
            /\ row[p].comped = "now"
        BY <1>0, <1>3, <2>2, <3>1
      <4>. QED
        BY <4>1 DEF RowMoves, ARow
    <3>2. CASE p # who
      BY <1>0, <2>2, <3>2 DEF RowMoves
    <3>. QED
      BY <3>1, <3>2
  <2>. QED
    BY <1>3, <2>1, <2>2
<1>4. ASSUME NEW i \in Invocations, L!AdjustWrite(i) \/ L!AdjustDisk(i) PROVE RowMoves(p)
  <2>1. todo[i] # <<>>
    BY <1>4 DEF L!AdjustWrite, L!AdjustDisk, L!Due, L!Idle
  <2>2. L!Now(i).who \in Participants /\ row[L!Now(i).who] # None
    BY <1>4, <2>1, NowFacts DEF L!AdjustWrite, L!AdjustDisk, L!Due, L!Now
  <2>3. \E n : row' = [row EXCEPT ![L!Now(i).who] = [row[L!Now(i).who] EXCEPT !.credits = n]]
    BY <1>4 DEF L!AdjustWrite, L!AdjustDisk
  <2>4. row[L!Now(i).who] \in ARow
    BY <1>0, <2>2
  <2>. QED
    BY <1>3, <2>2, <2>3, <2>4
<1>5. ASSUME NEW q \in Participants, L!Expire(q) PROVE RowMoves(p)
  <2>1. row[q] # None /\ row' = [row EXCEPT ![q] = [row[q] EXCEPT !.comped = "past"]]
        /\ row[q].comped = "now"
    BY <1>5 DEF L!Expire, L!IsComped
  <2>2. row[q] \in ARow
    BY <1>0, <2>1
  <2>. QED
    BY <1>3, <2>1, <2>2
<1>6. ASSUME NEW i \in Invocations, NEW home \in {"db", "disk"}, L!Insert(i, home)
      PROVE  RowMoves(p)
  <2>1. L!Now(i).op = "insert" /\ todo[i] # <<>>
    BY <1>6 DEF L!Insert, L!Now, L!Due, L!Idle
  <2>2. /\ L!Now(i).who \in Participants /\ row[L!Now(i).who] = None
        /\ row' = [row EXCEPT ![L!Now(i).who] = L!NewRow(L!Now(i).n, home, L!Now(i).tag)]
    BY <1>6, <2>1, NowFacts DEF L!Insert
  <2>3. L!Now(i).tag # L!Now(i).who
    BY <2>1, NowFacts DEF LedgerTyped, Placed, Fits
  <2>. QED
    BY <1>0, <2>2, <2>3 DEF RowMoves, L!NewRow
<1>7. ASSUME NEW i \in Invocations, L!Create(i) PROVE RowMoves(p)
  BY <1>0, <1>7, LedgerConstants DEF L!Create, RowMoves, L!NewRow
<1>8. ASSUME NEW i \in Invocations, L!ApplyComp(i) PROVE RowMoves(p)
  <2>. DEFINE who == L!Now(i).who
  <2>1. L!Now(i).op = "comp" /\ todo[i] # <<>>
    BY <1>8 DEF L!ApplyComp, L!Now, L!Due, L!Idle
  <2>2. who \in Participants /\ row[who] \in ARow /\ row[who] # None
    BY <2>1, NowFacts
  <2>3. row' = row \/ row' = [row EXCEPT ![who] = [row[who] EXCEPT !.comped = "now"]]
    BY <1>8 DEF L!ApplyComp
  <2>. HIDE DEF who
  <2>4. CASE row' = [row EXCEPT ![who] = [row[who] EXCEPT !.comped = "now"]] /\ p = who
    <3>1. row'[p] = [row[p] EXCEPT !.comped = "now"] /\ row[p] \in ARow /\ row[p] # None
      BY <1>0, <2>2, <2>4
    <3>2. row'[p].referrals = row[p].referrals /\ row'[p].compedReferrals = row[p].compedReferrals
      BY <3>1 DEF ARow
    <3>. QED
      BY <1>8, <2>4, <3>1, <3>2 DEF RowMoves, who
  <2>. QED
    BY <1>0, <2>2, <2>3, <2>4 DEF RowMoves
<1>9. ASSUME NEW i \in Invocations, L!ReferralWrite(i) \/ L!ReferralDisk(i) PROVE RowMoves(p)
  <2>. DEFINE who == L!Now(i).who
  <2>1. L!Now(i).op \in CountOps /\ todo[i] # <<>>
    BY <1>9 DEF L!ReferralWrite, L!ReferralDisk, L!Now, L!Due, L!Idle, CountOps
  <2>2. who \in Participants /\ row[who] \in ARow /\ row[who] # None
    BY <2>1, NowFacts
  <2>3. PICK n : /\ row' = [row EXCEPT ![who] = [row[who] EXCEPT !.referrals = n]]
                 /\ \/ L!ReferralWrite(i) /\ n = L!Now(i).n + 1
                    \/ L!ReferralDisk(i) /\ n = row[who].referrals + 1
    BY <1>9 DEF L!ReferralWrite, L!ReferralDisk
  <2>. HIDE DEF who
  <2>4. CASE p = who
    <3>1. row'[p] = [row[p] EXCEPT !.referrals = n] /\ row[p] \in ARow /\ row[p] # None
      BY <1>0, <2>2, <2>3, <2>4
    <3>2. /\ row'[p].comped = row[p].comped /\ row'[p].compedReferrals = row[p].compedReferrals
          /\ row'[p].referrals = n
      BY <3>1 DEF ARow
    <3>. QED
      BY <2>3, <2>4, <3>1, <3>2 DEF RowMoves, who
  <2>. QED
    BY <1>0, <2>2, <2>3, <2>4 DEF RowMoves
<1>10. ASSUME NEW i \in Invocations, L!MarkReferral(i) PROVE RowMoves(p)
  <2>. DEFINE who == L!Now(i).who
              n == L!Now(i).n + 1
  <2>1. L!Now(i).op = "mark" /\ todo[i] # <<>>
    BY <1>10 DEF L!MarkReferral, L!Now, L!Due, L!Idle
  <2>2. who \in Participants /\ row[who] \in ARow /\ row[who] # None
    BY <2>1, NowFacts DEF PassOps
  <2>3. row' = [row EXCEPT ![who] = [row[who] EXCEPT !.compedReferrals = n]]
    BY <1>10 DEF L!MarkReferral
  <2>. HIDE DEF who, n
  <2>4. CASE p = who
    <3>1. row'[p] = [row[p] EXCEPT !.compedReferrals = n] /\ row[p] \in ARow /\ row[p] # None
      BY <1>0, <2>2, <2>3, <2>4
    <3>2. /\ row'[p].comped = row[p].comped /\ row'[p].referrals = row[p].referrals
          /\ row'[p].compedReferrals = n
      BY <3>1 DEF ARow
    <3>. QED
      BY <1>10, <2>4, <3>1, <3>2 DEF RowMoves, who, n
  <2>. QED
    BY <1>0, <2>2, <2>3, <2>4 DEF RowMoves
<1>. QED
  BY <1>1, <1>2, <1>4, <1>5, <1>6, <1>7, <1>8, <1>9, <1>10 DEF L!Next, L!Advance, RowMoves

LEMMA AloneStep ==
  ASSUME LedgerTyped, QuietAlone, L!Next
  PROVE  QuietAlone'
<1>1. CASE UNCHANGED <<todo, busy, quiet>>
  BY <1>1 DEF QuietAlone
<1>2. ASSUME NEW i \in Invocations, UNCHANGED quiet,
             \A j \in Invocations \ {i} : busy'[j] = busy[j],
             \A x \in quiet : x \in busy'[i] =>
               x \in busy[i] \/ \A j \in Invocations \ {i} : x \notin busy[j]
      PROVE  QuietAlone'
  BY <1>2 DEF QuietAlone
<1>3. ASSUME NEW i \in Invocations, NEW q, Has(i, q) PROVE QuietAlone'
  BY <1>2, <1>3 DEF Has, LedgerTyped, QueuesTyped
<1>4. ASSUME NEW i \in Invocations, NEW subjects, NEW steps, Opened(i, subjects, steps)
      PROVE  QuietAlone'
  BY <1>2, <1>4 DEF Opened, LedgerTyped, QueuesTyped
<1>5. ASSUME NEW i \in Invocations, NEW new \in ASteps, todo[i] # <<>>, L!Proceed(i, new)
      PROVE  QuietAlone'
  BY <1>3, <1>5, Proceeds DEF LedgerTyped
<1>6. ASSUME NEW i \in Invocations, L!Fail(i) PROVE QuietAlone'
  BY <1>3, <1>6, Fails
<1>7. ASSUME NEW i \in Invocations, Moves(i) PROVE QuietAlone'
  BY <1>4, <1>5, <1>6, <1>7 DEF Moves
<1>. QED
  BY <1>1, <1>7, LedgerMoves

LEMMA QuietCode == ASSUME QuietAlone PROVE CodeAlone
BY DEF QuietAlone, CodeAlone

\* A step that is neither a comp nor its count.
\* The count of a comp fails.
Loses(i) == L!Fail(i) /\ L!Due(i, "bump")

PromoMoves(i) ==
  \/ \E new \in ASteps : /\ todo[i] # <<>> /\ L!Proceed(i, new) /\ Follows(L!Now(i), new)
                         /\ L!Now(i).op \notin {"comp", "bump"}
  \/ L!Fail(i) /\ ~L!Due(i, "bump")
  \/ \E subjects : \E steps \in ASteps :
       /\ Opened(i, subjects, steps)
       /\ \A k \in 1..Len(steps) : steps[k].op \notin {"comp", "bump"}

LEMMA SignupOps ==
  ASSUME NEW p, NEW n, NEW r, NEW promo \in BOOLEAN, NEW k \in 1..Len(Signup(p, n, r, promo))
  PROVE  /\ Signup(p, n, r, promo)[k].op
              \in {"insert", "redeem", "adjust", "referral", "grant"}
         /\ Signup(p, n, r, promo)[k].op \in {"referral", "grant"} =>
              r # None /\ Signup(p, n, r, promo)[k].who = r
<1>. DEFINE insert == L!Step("insert", p, n, r)
            redeem == L!Step("redeem", p, 0, "code")
            bonus == L!Adjust(r, L!REFERRAL_JOIN_BONUS, "bonus")
            referral == L!Step("referral", r, 0, "bonus")
            pass == L!Step("grant", r, 0, p)
<1>1. Signup(p, n, r, promo)
        = IF promo
            THEN IF r = None THEN <<insert, redeem>>
                 ELSE <<insert, redeem, bonus, referral, pass>>
            ELSE IF r = None THEN <<insert>> ELSE <<insert, bonus, referral, pass>>
  BY DEF Signup
<1>2. /\ insert.op = "insert" /\ redeem.op = "redeem" /\ bonus.op = "adjust"
      /\ referral.op = "referral" /\ referral.who = r /\ pass.op = "grant" /\ pass.who = r
  BY DEF L!Step, L!Adjust
<1>. HIDE DEF insert, redeem, bonus, referral, pass
<1>3. \/ Signup(p, n, r, promo)[k] \in {insert, redeem}
      \/ r # None /\ Signup(p, n, r, promo)[k] \in {bonus, referral, pass}
  BY <1>1
<1>. QED
  BY <1>2, <1>3

\* A step of the ledger, by what it does to the code.
LEMMA PromoStep ==
  ASSUME LedgerTyped, L!Next
  PROVE  \/ \E i \in Invocations : L!BumpRedemptions(i) \/ L!ApplyComp(i) \/ Loses(i)
         \/ /\ UNCHANGED <<redemptions, grants, uncounted, quiet>>
            /\ ~\E i \in Invocations : L!ApplyComp(i)
            /\ UNCHANGED <<todo, busy>> \/ \E i \in Invocations : PromoMoves(i)
<1>0. SUFFICES ASSUME ~\E i \in Invocations :
                         L!BumpRedemptions(i) \/ L!ApplyComp(i) \/ Loses(i)
               PROVE  /\ UNCHANGED <<redemptions, grants, uncounted, quiet>>
                      /\ UNCHANGED <<todo, busy>> \/ \E i \in Invocations : PromoMoves(i)
  BY DEF Loses
<1>1. UNCHANGED <<redemptions, grants, uncounted>>
  BY <1>0, ZenonT(60)
  DEF L!Next, L!Call, L!Advance, L!Transfer, L!Spend, L!Register, L!Deliver, L!Practice,
     L!Look, L!vars, L!history, L!AdjustRead, L!AdjustWrite, L!AdjustDisk, L!Record,
     L!ModelAnswers, L!Insert, L!Create, L!PostPractice, L!Redeem, L!ReferralRead,
     L!ReferralWrite, L!ReferralDisk, L!GrantRead, L!GrantCode, L!MarkReferral, L!Fail, L!Expire,
     Loses
<1>2. UNCHANGED quiet
  BY LedgerMoves DEF Moves, L!Proceed, L!Continue, L!Fail, Opened
<1>3. ASSUME NEW i \in Invocations, L!Advance(i), ~L!Fail(i) PROVE PromoMoves(i)
  <2>1. L!Now(i).op \notin {"comp", "bump"}
    BY <1>0, <1>3 DEF L!Advance, L!AdjustRead, L!AdjustWrite, L!AdjustDisk, L!ModelAnswers,
       L!Insert, L!Create, L!PostPractice, L!Redeem, L!ReferralRead, L!ReferralWrite,
       L!ReferralDisk, L!GrantRead, L!GrantCode, L!MarkReferral, L!Due, L!Now
  <2>. QED
    BY <1>3, <2>1, Advances DEF PromoMoves
<1>4. ASSUME NEW i \in Invocations, NEW steps \in PlainSteps, NEW subjects,
             Opened(i, subjects, steps)
      PROVE  PromoMoves(i)
  BY <1>4, PlainOps DEF PromoMoves
<1>5. ASSUME NEW i \in Invocations, NEW e \in Events, L!Deliver(i, e) PROVE PromoMoves(i)
  BY <1>5, DeliverOpens, PurchaseOps DEF PromoMoves
<1>6. ASSUME NEW i \in Invocations, NEW p \in Participants, NEW r \in Participants \cup {None},
             NEW promo \in BOOLEAN, NEW counted \in BOOLEAN, L!Register(i, p, r, promo, counted)
      PROVE  PromoMoves(i)
  <2>1. PICK n \in Int, subjects \in SUBSET (Participants \cup {Code}) :
               /\ Opened(i, subjects, Signup(p, n, r, promo))
               /\ Signup(p, n, r, promo) \in ASteps
    BY <1>6, RegisterOpens
  <2>2. \A k \in 1..Len(Signup(p, n, r, promo)) :
           Signup(p, n, r, promo)[k].op \notin {"comp", "bump"}
    BY SignupOps
  <2>. QED
    BY <2>1, <2>2 DEF PromoMoves
<1>7. ASSUME NEW i \in Invocations, L!Call(i) PROVE UNCHANGED <<todo, busy>> \/ PromoMoves(i)
  <2>1. ASSUME L!Look(i) PROVE UNCHANGED <<todo, busy>>
    BY <2>1 DEF L!Look, L!vars
  <2>. QED
    BY <1>4, <1>5, <1>6, <1>7, <2>1, TransferOpens, SpendOpens, PracticeOpens DEF L!Call
<1>8. ASSUME NEW p \in Participants, L!Expire(p) PROVE UNCHANGED <<todo, busy>>
  BY <1>8 DEF L!Expire
<1>9. ASSUME NEW i \in Invocations, L!Fail(i) PROVE PromoMoves(i)
  BY <1>0, <1>9 DEF PromoMoves, Loses
<1>. QED
  BY <1>0, <1>1, <1>2, <1>3, <1>7, <1>8, <1>9 DEF L!Next

LEMMA CountFacts ==
  ASSUME NEW S \in SUBSET Participants
  PROVE  /\ IsFiniteSet(S) /\ Cardinality(S) \in Nat
         /\ \A T \in SUBSET S : Cardinality(T) <= Cardinality(S)
         /\ \A p \in Participants \ S : Cardinality(S \cup {p}) = Cardinality(S) + 1
<1>1. IsFiniteSet(S)
  BY FS_Subset, LedgerConstants
<1>. QED
  BY <1>1, FS_Subset, FS_CardinalityType, FS_AddElement

LEMMA CompedStep ==
  ASSUME LedgerTyped, L!Next
  PROVE  /\ ~(\E i \in Invocations : L!ApplyComp(i)) => Cardinality(Comped') <= Cardinality(Comped)
         /\ \A i \in Invocations : L!ApplyComp(i) =>
              Cardinality(Comped') <= Cardinality(Comped) + 1
<1>. DEFINE before == {p \in Participants : row[p] # None /\ row[p].comped # "never"}
<1>1. PICK after \in SUBSET Participants :
        \A p \in Participants : p \in after <=> row'[p] # None /\ row'[p].comped # "never"
  <2>1. {p \in Participants : row'[p] # None /\ row'[p].comped # "never"} \in SUBSET Participants
    OBVIOUS
  <2>. QED
    BY <2>1
<1>2. Comped' = after /\ Comped = before /\ before \in SUBSET Participants
  <2>1. Comped = before
    BY DEF Comped, L!Rows, L!Registered
  <2>2. Comped' = {p \in Participants : row'[p] # None /\ row'[p].comped # "never"}
    BY DEF Comped, L!Rows, L!Registered
  <2>. QED
    BY <1>1, <2>1, <2>2
<1>3. CASE ~\E i \in Invocations : L!ApplyComp(i)
  <2>1. ASSUME NEW p \in after PROVE p \in before
    <3>1. RowMoves(p) /\ row'[p] # None /\ row'[p].comped # "never"
      BY <1>1, RowChanges
    <3>. QED
      BY <1>1, <1>3, <3>1 DEF RowMoves
  <2>2. after \in SUBSET before
    BY <2>1
  <2>. QED
    BY <1>2, <1>3, <2>2, CountFacts
<1>4. ASSUME NEW i \in Invocations, L!ApplyComp(i)
      PROVE  Cardinality(Comped') <= Cardinality(Comped) + 1
  <2>. DEFINE who == L!Now(i).who
  <2>1. L!Now(i).op = "comp" /\ todo[i] # <<>>
    BY <1>4 DEF L!ApplyComp, L!Now, L!Due, L!Idle
  <2>2. who \in Participants /\ row[who] # None
    BY <2>1, NowFacts DEF L!Registered
  <2>3. \A p \in Participants \ {who} : row'[p] = row[p]
    BY <1>4 DEF L!ApplyComp, LedgerTyped, RowsTyped
  <2>. HIDE DEF who
  <2>4. after \in SUBSET (before \cup {who}) /\ before \cup {who} \in SUBSET Participants
    BY <1>1, <2>2, <2>3
  <2>5. Cardinality(after) <= Cardinality(before \cup {who})
    BY <2>4, CountFacts
  <2>. HIDE DEF before
  <2>6. Cardinality(before \cup {who}) <= Cardinality(before) + 1
    <3>1. CASE who \in before
      <4>0. before \cup {who} = before
        BY <3>1
      <4>1. Cardinality(before \cup {who}) = Cardinality(before) /\ Cardinality(before) \in Nat
        BY <1>2, <4>0, CountFacts
      <4>. QED
        BY <4>1
    <3>2. CASE who \notin before
      <4>1. Cardinality(before) \in Nat /\ Cardinality(before \cup {who}) = Cardinality(before) + 1
        BY <1>2, <2>2, <3>2, CountFacts
      <4>. QED
        BY <4>1
    <3>. QED
      BY <3>1, <3>2
  <2>7. Cardinality(before) \in Nat /\ Cardinality(before \cup {who}) \in Nat
        /\ Cardinality(after) \in Nat
    BY <1>1, <1>2, <2>4, CountFacts
  <2>. QED
    BY <1>2, <2>5, <2>6, <2>7
<1>. QED
  BY <1>3, <1>4

\* The counters of a call that makes a comp or counts one are its own.
LEMMA PromoAlone ==
  ASSUME LedgerTyped, CodeAlone, Code \in quiet, NEW i \in Invocations, NEW k \in DOMAIN todo[i],
         todo[i][k].op \in PromoOps, NEW j \in Invocations, NEW l \in DOMAIN todo[j],
         todo[j][l].op \in PromoOps
  PROVE  i = j
<1>1. Fits(i, todo[i][k]) /\ Fits(j, todo[j][l])
  BY DEF LedgerTyped, Placed
<1>. QED
  BY <1>1 DEF Fits, CodeAlone

\* The steps of a handler after its first.
LEMMA TailFacts ==
  ASSUME LedgerTyped, NEW i \in Invocations, todo[i] # <<>>, L!Proceed(i, <<>>)
  PROVE  \E q \in ASteps :
           /\ todo'[i] = q /\ Len(q) = Len(todo[i]) - 1
           /\ \A k \in 1..Len(q) : q[k] = todo[i][k + 1]
           /\ DOMAIN q = 1..Len(q) /\ (q # <<>> => Head(q) = q[1])
           /\ UNCHANGED quiet /\ \A j \in Invocations \ {i} : todo'[j] = todo[j]
<1>1. <<>> \in ASteps /\ Len(<<>>) = 0
  BY DEF ASteps
<1>2. PICK q \in ASteps :
        /\ Has(i, q) /\ Len(q) = Len(<<>>) + Len(todo[i]) - 1
        /\ \A k \in 1..Len(q) : q[k] = IF k <= Len(<<>>) THEN <<>>[k]
                                       ELSE todo[i][k - Len(<<>>) + 1]
  BY <1>1, Proceeds DEF LedgerTyped
<1>3. /\ Len(todo[i]) \in Nat /\ Len(q) \in Nat /\ DOMAIN q = 1..Len(q)
      /\ q # <<>> => Head(q) = q[1]
  BY FirstStep DEF LedgerTyped, ASteps
<1>4. Len(q) = Len(todo[i]) - 1 /\ \A k \in 1..Len(q) : q[k] = todo[i][k + 1]
  BY <1>1, <1>2, <1>3
<1>. QED
  BY <1>2, <1>3, <1>4, HasFacts DEF LedgerTyped

LEMMA DueFirst ==
  ASSUME LedgerTyped, NEW i \in Invocations, NEW op
  PROVE  /\ L!Due(i, op) <=> todo[i] # <<>> /\ todo[i][1].op = op
         /\ todo[i] # <<>> => 1 \in DOMAIN todo[i]
BY FirstStep DEF LedgerTyped, L!Due, L!Now, L!Idle

\* The count after a comp.
LEMMA BumpCounts ==
  ASSUME LedgerTyped, CodeAlone, CompsCounted, NEW i \in Invocations, L!BumpRedemptions(i), L!Next
  PROVE  CompsCounted'
<1>1. todo[i] # <<>> /\ L!Now(i).op = "bump" /\ todo[i][1] = L!Now(i) /\ 1 \in DOMAIN todo[i]
  BY NowFacts DEF L!BumpRedemptions, L!Now, L!Due, L!Idle
<1>2. PICK q \in ASteps :
        /\ todo'[i] = q /\ Len(q) = Len(todo[i]) - 1
        /\ \A k \in 1..Len(q) : q[k] = todo[i][k + 1]
        /\ DOMAIN q = 1..Len(q) /\ (q # <<>> => Head(q) = q[1])
        /\ UNCHANGED quiet /\ \A j \in Invocations \ {i} : todo'[j] = todo[j]
  BY <1>1, TailFacts DEF L!BumpRedemptions
<1>3. /\ redemptions' = L!Now(i).n + 1 /\ UNCHANGED <<grants, uncounted>>
      /\ Comped' = Comped
  BY DEF L!BumpRedemptions, L!history, Comped, L!Rows, L!Registered
<1>4. Bumps(L!Now(i))
  BY <1>1 DEF CompsCounted
<1>5. /\ L!Now(i).n \in Nat /\ L!Now(i).n < MaxRedemptions
      /\ Code \in quiet => L!Now(i).n = redemptions
  BY <1>1, <1>4 DEF Bumps
<1>6. \A k \in 1..Len(q) : q[k].op # "bump"
  <2>. TAKE k \in 1..Len(q)
  <2>1. k + 1 \in DOMAIN todo[i] /\ k + 1 # 1 /\ q[k] = todo[i][k + 1]
    BY <1>1, <1>2, FirstStep DEF LedgerTyped
  <2>. QED
    BY <1>1, <2>1 DEF LedgerTyped, Ordered
<1>7. ASSUME NEW j \in Invocations \ {i}, NEW k \in DOMAIN todo[j], Code \in quiet
      PROVE  todo[j][k].op # "bump"
  BY <1>1, <1>7, PromoAlone DEF PromoOps
<1>8. ASSUME NEW j \in Invocations, NEW k \in DOMAIN todo'[j] PROVE Bumps(todo[j][k])'
  <2>1. CASE j = i
    BY <1>2, <1>6, <2>1 DEF Bumps
  <2>2. CASE j # i
    <3>1. todo'[j] = todo[j] /\ Bumps(todo[j][k])
      BY <1>2, <2>2 DEF CompsCounted
    <3>. QED
      BY <1>2, <1>7, <2>2, <3>1 DEF Bumps
  <2>. QED
    BY <2>1, <2>2
<1>9. Code \in quiet => ~\E j \in Invocations : L!Due(j, "bump")'
  <2>1. Code \in quiet => \A j \in Invocations \ {i} : ~L!Due(j, "bump")
    BY <1>7, DueFirst
  <2>2. ~L!Due(i, "bump")'
    <3>1. q # <<>> => 1 \in 1..Len(q)
      BY DEF ASteps
    <3>. QED
      BY <1>2, <1>6, <3>1 DEF L!Due, L!Now, L!Idle
  <2>3. \A j \in Invocations \ {i} : L!Due(j, "bump")' <=> L!Due(j, "bump")
    BY <1>2 DEF L!Due, L!Now, L!Idle
  <2>. QED
    BY <2>1, <2>2, <2>3
<1>10. L!Due(i, "bump")
  BY <1>1, DueFirst
<1>11. redemptions \in Nat /\ grants \in Nat /\ uncounted \in Nat /\ MaxRedemptions \in Nat
  BY LedgerConstants DEF LedgerTyped, CountsTyped
<1>12. redemptions' <= MaxRedemptions
  BY <1>3, <1>5, <1>11
<1>13. Code \in quiet => grants = redemptions + 1 + uncounted
  BY <1>10 DEF CompsCounted
<1>14. Cardinality(Comped') <= grants'
  BY <1>3 DEF CompsCounted
<1>15. (Code \in quiet => grants = redemptions +
          (IF \E j \in Invocations : L!Due(j, "bump") THEN 1 ELSE 0) + uncounted)'
  BY <1>2, <1>3, <1>5, <1>9, <1>11, <1>13
<1>. QED
  BY <1>8, <1>12, <1>14, <1>15 DEF CompsCounted

LEMMA CompCounts ==
  ASSUME LedgerTyped, CodeAlone, CompsCounted, NEW i \in Invocations, L!ApplyComp(i), L!Next
  PROVE  CompsCounted'
<1>1. todo[i] # <<>> /\ L!Now(i).op = "comp" /\ todo[i][1] = L!Now(i) /\ 1 \in DOMAIN todo[i]
  BY NowFacts DEF L!ApplyComp, L!Now, L!Due, L!Idle
<1>2. PICK q \in ASteps :
        /\ todo'[i] = q /\ Len(q) = Len(todo[i]) - 1
        /\ \A k \in 1..Len(q) : q[k] = todo[i][k + 1]
        /\ DOMAIN q = 1..Len(q) /\ (q # <<>> => Head(q) = q[1])
        /\ UNCHANGED quiet /\ \A j \in Invocations \ {i} : todo'[j] = todo[j]
  BY <1>1, TailFacts DEF L!ApplyComp
<1>3. UNCHANGED <<redemptions, uncounted>> /\ grants' = grants + 1
  BY DEF L!ApplyComp
<1>4. Cardinality(Comped') <= Cardinality(Comped) + 1
  BY CompedStep
<1>5. DOMAIN todo[i] = 1..Len(todo[i]) /\ Len(todo[i]) \in Nat
  BY <1>1, FirstStep DEF LedgerTyped
<1>6. q # <<>> /\ q[1].op = "bump" /\ 1 \in DOMAIN q
  <2>1. Len(todo[i]) > 1 /\ todo[i][2].op = "bump"
    BY <1>1 DEF LedgerTyped, Ordered
  <2>. QED
    BY <1>2, <1>5, <2>1
<1>7. L!Due(i, "bump")'
  BY <1>2, <1>6 DEF L!Due, L!Now, L!Idle
<1>8. Code \in quiet => ~\E j \in Invocations : L!Due(j, "bump")
  <2>1. ASSUME Code \in quiet, NEW j \in Invocations, L!Due(j, "bump") PROVE FALSE
    <3>1. todo[j] # <<>> /\ todo[j][1].op = "bump" /\ 1 \in DOMAIN todo[j]
      BY <2>1, DueFirst
    <3>2. i = j
      BY <1>1, <2>1, <3>1, PromoAlone DEF PromoOps
    <3>. QED
      BY <1>1, <3>1, <3>2
  <2>. QED
    BY <2>1
<1>9. ASSUME NEW j \in Invocations, NEW k \in DOMAIN todo'[j] PROVE Bumps(todo[j][k])'
  <2>1. \A s : Bumps(s) => Bumps(s)'
    BY <1>2, <1>3 DEF Bumps
  <2>2. \E l \in DOMAIN todo[j] : todo'[j][k] = todo[j][l]
    <3>1. CASE j = i
      <4>1. k + 1 \in DOMAIN todo[i] /\ todo'[i][k] = todo[i][k + 1]
        BY <1>2, <1>5, <3>1
      <4>. QED
        BY <3>1, <4>1
    <3>2. CASE j # i
      BY <1>2, <3>2
    <3>. QED
      BY <3>1, <3>2
  <2>3. PICK s : s = todo'[j][k] /\ Bumps(s)
    BY <2>2 DEF CompsCounted
  <2>. QED
    BY <2>1, <2>3
<1>10. grants \in Nat /\ redemptions \in Nat /\ uncounted \in Nat /\ MaxRedemptions \in Nat
       /\ Cardinality(Comped) \in Nat /\ Cardinality(Comped') \in Nat
  <2>1. Comped \in SUBSET Participants /\ Comped' \in SUBSET Participants
    BY DEF Comped, L!Rows
  <2>. QED
    BY <2>1, LedgerConstants, CountFacts DEF LedgerTyped, CountsTyped
<1>11. Cardinality(Comped') <= grants'
  BY <1>3, <1>4, <1>10 DEF CompsCounted
<1>12. Code \in quiet => grants = redemptions + uncounted
  BY <1>8, <1>10 DEF CompsCounted
<1>13. (Code \in quiet => grants = redemptions +
          (IF \E j \in Invocations : L!Due(j, "bump") THEN 1 ELSE 0) + uncounted)'
  BY <1>2, <1>3, <1>7, <1>10, <1>12
<1>14. (redemptions <= MaxRedemptions)'
  BY <1>3 DEF CompsCounted
<1>. QED
  BY <1>9, <1>11, <1>13, <1>14 DEF CompsCounted

\* Other steps count no comp and make none due.
LEMMA OtherCounts ==
  ASSUME LedgerTyped, CompsCounted, L!Next, UNCHANGED <<redemptions, grants, uncounted, quiet>>,
         ~\E i \in Invocations : L!ApplyComp(i),
         UNCHANGED <<todo, busy>> \/ \E i \in Invocations : PromoMoves(i)
  PROVE  CompsCounted'
<1>1. Cardinality(Comped') <= grants'
  <2>1. Comped \in SUBSET Participants /\ Comped' \in SUBSET Participants
    BY DEF Comped, L!Rows
  <2>2. grants \in Nat /\ Cardinality(Comped) \in Nat /\ Cardinality(Comped') \in Nat
    BY <2>1, CountFacts DEF LedgerTyped, CountsTyped
  <2>. QED
    BY <2>2, CompedStep DEF CompsCounted
<1>2. \A s : Bumps(s)' <=> Bumps(s)
  BY DEF Bumps
<1>3. SUFFICES /\ \A i \in Invocations : \A k \in DOMAIN todo'[i] : Bumps(todo'[i][k])
               /\ Code \in quiet =>
                    \A i \in Invocations : L!Due(i, "bump")' <=> L!Due(i, "bump")
  <2>1. \A i \in Invocations : \A k \in DOMAIN todo'[i] : Bumps(todo[i][k])'
    <3>. TAKE i \in Invocations
    <3>. TAKE k \in DOMAIN todo'[i]
    <3>1. PICK s : s = todo'[i][k]
      OBVIOUS
    <3>2. Bumps(s)
      BY <1>3, <3>1
    <3>. QED
      BY <1>2, <3>1, <3>2
  <2>. QED
    BY <1>1, <1>3, <2>1 DEF CompsCounted
<1>4. CASE UNCHANGED <<todo, busy>>
  BY <1>4 DEF CompsCounted, L!Due, L!Now, L!Idle
<1>5. ASSUME NEW i \in Invocations, NEW q \in ASteps, todo'[i] = q,
             \A j \in Invocations \ {i} : todo'[j] = todo[j],
             \A k \in 1..Len(q) : Bumps(q[k]),
             Code \in quiet => ((q # <<>> /\ q[1].op = "bump") <=> L!Due(i, "bump"))
      PROVE  /\ \A j \in Invocations : \A k \in DOMAIN todo'[j] : Bumps(todo'[j][k])
             /\ Code \in quiet =>
                  \A j \in Invocations : L!Due(j, "bump")' <=> L!Due(j, "bump")
  <2>1. DOMAIN q = 1..Len(q) /\ (q # <<>> => Head(q) = q[1])
    BY DEF ASteps
  <2>2. \A j \in Invocations : \A k \in DOMAIN todo'[j] : Bumps(todo'[j][k])
    BY <1>5, <2>1 DEF CompsCounted
  <2>3. \A j \in Invocations \ {i} : L!Due(j, "bump")' <=> L!Due(j, "bump")
    BY <1>5 DEF L!Due, L!Now, L!Idle
  <2>4. L!Due(i, "bump")' <=> q # <<>> /\ q[1].op = "bump"
    BY <1>5, <2>1 DEF L!Due, L!Now, L!Idle
  <2>. QED
    BY <1>5, <2>2, <2>3, <2>4
<1>6. ASSUME NEW i \in Invocations, PromoMoves(i)
      PROVE  /\ \A j \in Invocations : \A k \in DOMAIN todo'[j] : Bumps(todo'[j][k])
             /\ Code \in quiet =>
                  \A j \in Invocations : L!Due(j, "bump")' <=> L!Due(j, "bump")
  <2>1. ASSUME NEW new \in ASteps, todo[i] # <<>>, L!Proceed(i, new), Follows(L!Now(i), new),
               L!Now(i).op \notin {"comp", "bump"}
        PROVE  /\ \A j \in Invocations : \A k \in DOMAIN todo'[j] : Bumps(todo'[j][k])
               /\ Code \in quiet =>
                    \A j \in Invocations : L!Due(j, "bump")' <=> L!Due(j, "bump")
    <3>1. PICK q \in ASteps :
            /\ Has(i, q) /\ Len(q) = Len(new) + Len(todo[i]) - 1
            /\ \A k \in 1..Len(q) :
                 q[k] = IF k <= Len(new) THEN new[k] ELSE todo[i][k - Len(new) + 1]
      BY <2>1, Proceeds DEF LedgerTyped
    <3>2. todo'[i] = q /\ \A j \in Invocations \ {i} : todo'[j] = todo[j]
      BY <3>1, HasFacts DEF LedgerTyped
    <3>3. /\ DOMAIN todo[i] = 1..Len(todo[i]) /\ Len(todo[i]) \in Nat \ {0}
          /\ L!Now(i) = todo[i][1] /\ Len(new) \in Nat /\ Len(q) \in Nat
      BY <2>1, FirstStep DEF LedgerTyped, L!Now, ASteps
    <3>4. \A k \in 1..Len(new) : Bumps(new[k]) /\ (new[k].op = "bump" => k = 2)
      <4>1. redemptions \in Nat
        BY DEF LedgerTyped, CountsTyped
      <4>. QED
        BY <2>1, <4>1 DEF Follows, Bumps, L!Step, L!Adjust, L!Grant
    <3>5. \A k \in 2..Len(todo[i]) : Bumps(todo[i][k]) /\ todo[i][k].op # "bump"
      BY <2>1, <3>3 DEF CompsCounted, LedgerTyped, Ordered
    <3>6. \A k \in 1..Len(q) : Bumps(q[k]) /\ (k = 1 => q[k].op # "bump")
      <4>. TAKE k \in 1..Len(q)
      <4>1. CASE k <= Len(new)
        <5>1. k \in 1..Len(new) /\ q[k] = new[k]
          BY <3>1, <3>3, <4>1
        <5>. QED
          BY <3>4, <5>1
      <4>2. CASE k > Len(new)
        <5>1. k - Len(new) + 1 \in 2..Len(todo[i]) /\ q[k] = todo[i][k - Len(new) + 1]
          BY <3>1, <3>3, <4>2
        <5>. QED
          BY <3>5, <5>1
      <4>. QED
        BY <3>3, <4>1, <4>2
    <3>7. (q # <<>> => 1 \in 1..Len(q)) /\ ~L!Due(i, "bump")
      BY <2>1, <3>3 DEF ASteps, L!Due, L!Now
    <3>. QED
      BY <1>5, <3>2, <3>6, <3>7
  <2>2. ASSUME L!Fail(i), ~L!Due(i, "bump")
        PROVE  /\ \A j \in Invocations : \A k \in DOMAIN todo'[j] : Bumps(todo'[j][k])
               /\ Code \in quiet =>
                    \A j \in Invocations : L!Due(j, "bump")' <=> L!Due(j, "bump")
    <3>1. PICK q \in ASteps, m \in Nat \ {0} :
            /\ Has(i, q)
            /\ \A k \in 1..Len(q) : k + m <= Len(todo[i]) /\ q[k] = todo[i][k + m]
            /\ todo[i][1].op = "comp" => m > 1 \/ q = <<>>
      BY <2>2, Fails
    <3>2. todo'[i] = q /\ \A j \in Invocations \ {i} : todo'[j] = todo[j]
      BY <3>1, HasFacts DEF LedgerTyped
    <3>3. todo[i] # <<>>
      BY <2>2, Fails
    <3>4. DOMAIN todo[i] = 1..Len(todo[i]) /\ Len(todo[i]) \in Nat /\ Len(q) \in Nat
          /\ L!Now(i) = todo[i][1]
      BY <3>3, FirstStep DEF LedgerTyped, L!Now, ASteps
    <3>5. \A k \in 1..Len(q) : k + m \in DOMAIN todo[i] /\ q[k] = todo[i][k + m]
      BY <3>1, <3>4
    <3>6. \A k \in 1..Len(q) : Bumps(q[k])
      BY <3>5 DEF CompsCounted
    <3>7. ASSUME q # <<>> PROVE q[1].op # "bump"
      <4>1. 1 \in 1..Len(q)
        BY <3>7 DEF ASteps
      <4>2. 1 + m \in DOMAIN todo[i] /\ q[1] = todo[i][1 + m] /\ 1 + m # 1
            /\ (todo[i][1].op = "comp" => 1 + m # 2)
        BY <3>1, <3>5, <3>7, <4>1
      <4>. QED
        BY <4>2 DEF LedgerTyped, Ordered
    <3>. QED
      BY <1>5, <2>2, <3>2, <3>6, <3>7
  <2>3. ASSUME NEW subjects, NEW steps \in ASteps, Opened(i, subjects, steps),
               \A k \in 1..Len(steps) : steps[k].op \notin {"comp", "bump"}
        PROVE  /\ \A j \in Invocations : \A k \in DOMAIN todo'[j] : Bumps(todo'[j][k])
               /\ Code \in quiet =>
                    \A j \in Invocations : L!Due(j, "bump")' <=> L!Due(j, "bump")
    <3>1. todo'[i] = steps /\ todo[i] = <<>> /\ \A j \in Invocations \ {i} : todo'[j] = todo[j]
      BY <2>3 DEF Opened, LedgerTyped, QueuesTyped
    <3>2. (steps # <<>> => 1 \in 1..Len(steps)) /\ ~L!Due(i, "bump")
      BY <3>1 DEF ASteps, L!Due, L!Idle
    <3>3. \A k \in 1..Len(steps) : Bumps(steps[k])
      BY <2>3 DEF Bumps
    <3>. QED
      BY <1>5, <2>3, <3>1, <3>2, <3>3
  <2>. QED
    BY <1>6, <2>1, <2>2, <2>3 DEF PromoMoves
<1>. QED
  BY <1>4, <1>6

\* A count that fails leaves the comp uncounted, and no count due.
LEMMA LostCounts ==
  ASSUME LedgerTyped, CodeAlone, CompsCounted, NEW i \in Invocations, Loses(i), L!Next
  PROVE  CompsCounted'
<1>1. /\ L!Fail(i) /\ todo[i] # <<>> /\ 1 \in DOMAIN todo[i] /\ todo[i][1].op = "bump"
      /\ DOMAIN todo[i] = 1..Len(todo[i]) /\ Len(todo[i]) \in Nat
  BY DueFirst, FirstStep DEF Loses, LedgerTyped
<1>2. /\ UNCHANGED <<redemptions, grants, quiet>> /\ uncounted' = uncounted + 1
      /\ Comped' = Comped
  BY DEF Loses, L!Fail, L!Continue, Comped, L!Rows, L!Registered
<1>3. PICK q \in ASteps, m \in Nat \ {0} :
        Has(i, q) /\ \A k \in 1..Len(q) : k + m <= Len(todo[i]) /\ q[k] = todo[i][k + m]
  BY <1>1, Fails
<1>4. /\ todo'[i] = q /\ \A j \in Invocations \ {i} : todo'[j] = todo[j]
      /\ DOMAIN q = 1..Len(q) /\ Len(q) \in Nat /\ (q # <<>> => Head(q) = q[1])
  BY <1>3, HasFacts DEF LedgerTyped, ASteps
<1>5. \A k \in 1..Len(q) : k + m \in DOMAIN todo[i] /\ k + m # 1 /\ q[k] = todo[i][k + m]
  BY <1>1, <1>3, <1>4
<1>6. \A k \in 1..Len(q) : Bumps(q[k]) /\ q[k].op # "bump"
  BY <1>1, <1>5 DEF CompsCounted, LedgerTyped, Ordered
<1>7. ASSUME NEW j \in Invocations \ {i}, Code \in quiet PROVE ~L!Due(j, "bump")
  <2>1. ASSUME L!Due(j, "bump") PROVE FALSE
    <3>1. 1 \in DOMAIN todo[j] /\ todo[j][1].op = "bump"
      BY <2>1, DueFirst
    <3>. QED
      BY <1>1, <1>7, <3>1, PromoAlone DEF PromoOps
  <2>. QED
    BY <2>1
<1>8. \A s : Bumps(s) => Bumps(s)'
  BY <1>2 DEF Bumps
<1>9. ASSUME NEW j \in Invocations, NEW k \in DOMAIN todo'[j] PROVE Bumps(todo[j][k])'
  <2>1. PICK s : s = todo'[j][k]
    OBVIOUS
  <2>2. Bumps(s)
    BY <1>4, <1>6, <2>1 DEF CompsCounted
  <2>. QED
    BY <1>8, <2>1, <2>2
<1>10. Code \in quiet => ~\E j \in Invocations : L!Due(j, "bump")'
  <2>1. ~L!Due(i, "bump")'
    <3>1. q # <<>> => 1 \in 1..Len(q)
      BY DEF ASteps
    <3>. QED
      BY <1>4, <1>6, <3>1 DEF L!Due, L!Now, L!Idle
  <2>2. \A j \in Invocations \ {i} : L!Due(j, "bump")' <=> L!Due(j, "bump")
    BY <1>4 DEF L!Due, L!Now, L!Idle
  <2>. QED
    BY <1>7, <2>1, <2>2
<1>11. redemptions \in Nat /\ grants \in Nat /\ uncounted \in Nat
  BY DEF LedgerTyped, CountsTyped
<1>12. Code \in quiet => grants = redemptions + 1 + uncounted
  BY DEF CompsCounted, Loses
<1>13. (Code \in quiet => grants = redemptions +
          (IF \E j \in Invocations : L!Due(j, "bump") THEN 1 ELSE 0) + uncounted)'
  BY <1>2, <1>10, <1>11, <1>12
<1>14. (redemptions <= MaxRedemptions)' /\ Cardinality(Comped') <= grants'
  BY <1>2 DEF CompsCounted
<1>. QED
  BY <1>9, <1>13, <1>14 DEF CompsCounted

LEMMA CompsStep ==
  ASSUME LedgerTyped, CodeAlone, CompsCounted, L!Next
  PROVE  CompsCounted'
BY PromoStep, BumpCounts, CompCounts, LostCounts, OtherCounts

\* A step owes a referrer no more than the one it follows.
LEMMA FollowOwes ==
  ASSUME NEW s \in ASteps, s # <<>>, NEW new \in ASteps, Follows(s[1], new),
         NEW q \in ASteps, Len(q) = Len(new) + Len(s) - 1,
         \A k \in 1..Len(q) : q[k] = IF k <= Len(new) THEN new[k] ELSE s[k - Len(new) + 1],
         NEW ops \in {CountOps, PassOps}, NEW r
  PROVE  /\ Owed(q, r, ops) => Owed(s, r, ops)
         /\ Ordered(s) /\ new = <<>> /\ s[1].op \in ops => ~Owed(q, r, ops)
<1>1. /\ DOMAIN s = 1..Len(s) /\ Len(s) \in Nat \ {0} /\ DOMAIN q = 1..Len(q) /\ Len(q) \in Nat
      /\ Len(new) \in Nat /\ (new = <<>> => Len(new) = 0)
  BY DEF ASteps
<1>2. \A k \in 1..Len(new) : new[k].op \in ops => s[1].op \in ops /\ s[1].who = new[k].who
  <2>. TAKE k \in 1..Len(new)
  <2>1. CASE s[1].op \in {"adjust", "post", "redeem"} /\ new # <<>>
    <3>1. new[k].op \in {"set", "adjust", "comp", "bump"}
      BY <2>1 DEF Follows, L!Step, L!Adjust, L!Grant
    <3>. QED
      BY <3>1 DEF CountOps, PassOps
  <2>2. CASE s[1].op = "referral" /\ new # <<>>
    <3>1. new[k].op = "count" /\ new[k].who = s[1].who
      BY <2>2 DEF Follows, L!Step
    <3>. QED
      BY <2>2, <3>1 DEF CountOps, PassOps
  <2>3. CASE s[1].op = "grant" /\ new # <<>>
    <3>1. new[k].op = "code" /\ new[k].who = s[1].who
      BY <2>3 DEF Follows, L!Step
    <3>. QED
      BY <2>3, <3>1 DEF CountOps, PassOps
  <2>4. CASE s[1].op = "code" /\ new # <<>>
    <3>1. new[k].op \in {"comp", "bump"} \/ (new[k].op = "mark" /\ new[k].who = s[1].who)
      BY <2>4 DEF Follows, L!Step
    <3>. QED
      BY <2>4, <3>1 DEF CountOps, PassOps
  <2>5. new # <<>>
    BY <1>1
  <2>. QED
    BY <2>1, <2>2, <2>3, <2>4, <2>5 DEF Follows
<1>3. \A k \in 1..Len(q) :
        \/ k \in 1..Len(new) /\ q[k] = new[k]
        \/ k - Len(new) + 1 \in 2..Len(s) /\ q[k] = s[k - Len(new) + 1]
  BY <1>1
<1>4. Owed(q, r, ops) => Owed(s, r, ops)
  <2>1. ASSUME NEW k \in 1..Len(q), q[k].op \in ops, q[k].who = r PROVE Owed(s, r, ops)
    <3>1. CASE k \in 1..Len(new) /\ q[k] = new[k]
      BY <1>1, <1>2, <2>1, <3>1 DEF Owed
    <3>2. CASE k - Len(new) + 1 \in 2..Len(s) /\ q[k] = s[k - Len(new) + 1]
      BY <1>1, <2>1, <3>2 DEF Owed
    <3>. QED
      BY <1>3, <3>1, <3>2
  <2>. QED
    BY <1>1, <2>1 DEF Owed
<1>5. ASSUME Ordered(s), new = <<>>, s[1].op \in ops, Owed(q, r, ops) PROVE FALSE
  <2>1. PICK k \in 1..Len(q) : q[k].op \in ops
    BY <1>1, <1>5 DEF Owed
  <2>2. k + 1 \in DOMAIN s /\ q[k] = s[k + 1] /\ 1 \in DOMAIN s /\ k + 1 # 1
    BY <1>1, <1>5
  <2>. QED
    BY <1>5, <2>1, <2>2 DEF Ordered
<1>. QED
  BY <1>4, <1>5

\* How what is owed to referrers moves: with the call that owes it, or with
\* the registration of a newcomer no other call is about.
Carries(i) ==
  /\ \A j \in Invocations \ {i} : todo'[j] = todo[j] /\ busy'[j] = busy[j]
  /\ \/ \A r \in Participants, ops \in {CountOps, PassOps} : Owed(todo'[i], r, ops) =>
          /\ Owed(todo[i], r, ops) /\ busy'[i] = busy[i]
          /\ L!Due(i, "insert") =>
               row'[L!Now(i).who] # None /\ row'[L!Now(i).who].by = L!Now(i).tag
     \/ \E p \in Participants, r \in Participants \cup {None}, promo \in BOOLEAN :
          /\ Registers(i, busy'[i], p, r, promo) /\ UNCHANGED row
          /\ L!Due(i, "insert")' /\ L!Now(i)'.who = p /\ L!Now(i)'.tag = r
          /\ \A x \in Participants, ops \in {CountOps, PassOps} :
               Owed(todo'[i], x, ops) => x = r

LEMMA SignupFirst ==
  ASSUME NEW p, NEW n, NEW r, NEW promo \in BOOLEAN, Signup(p, n, r, promo) \in ASteps
  PROVE  /\ Signup(p, n, r, promo) # <<>>
         /\ Head(Signup(p, n, r, promo)) = L!Step("insert", p, n, r)
<1>. DEFINE insert == L!Step("insert", p, n, r)
            redeem == L!Step("redeem", p, 0, "code")
            bonus == L!Adjust(r, L!REFERRAL_JOIN_BONUS, "bonus")
            referral == L!Step("referral", r, 0, "bonus")
            pass == L!Step("grant", r, 0, p)
<1>1. Signup(p, n, r, promo)
        = IF promo
            THEN IF r = None THEN <<insert, redeem>>
                 ELSE <<insert, redeem, bonus, referral, pass>>
            ELSE IF r = None THEN <<insert>> ELSE <<insert, bonus, referral, pass>>
  BY DEF Signup
<1>. HIDE DEF insert, redeem, bonus, referral, pass
<1>2. Signup(p, n, r, promo) # <<>> /\ Signup(p, n, r, promo)[1] = insert
  BY <1>1
<1>3. Head(Signup(p, n, r, promo)) = Signup(p, n, r, promo)[1]
  BY <1>2 DEF ASteps
<1>. QED
  BY <1>2, <1>3 DEF insert

LEMMA MovesCarry ==
  ASSUME LedgerTyped, NEW i \in Invocations, Moves(i)
  PROVE  Carries(i)
<1>1. ASSUME NEW new \in ASteps, todo[i] # <<>>, L!Proceed(i, new), Follows(L!Now(i), new),
             L!Due(i, "insert") =>
               row'[L!Now(i).who] # None /\ row'[L!Now(i).who].by = L!Now(i).tag
      PROVE  Carries(i)
  <2>1. PICK q \in ASteps :
          /\ Has(i, q) /\ Len(q) = Len(new) + Len(todo[i]) - 1
          /\ \A k \in 1..Len(q) :
               q[k] = IF k <= Len(new) THEN new[k] ELSE todo[i][k - Len(new) + 1]
    BY <1>1, Proceeds DEF LedgerTyped
  <2>2. /\ todo'[i] = q /\ busy'[i] = IF q = <<>> THEN {} ELSE busy[i]
        /\ \A j \in Invocations \ {i} : todo'[j] = todo[j] /\ busy'[j] = busy[j]
    BY <2>1, HasFacts DEF LedgerTyped
  <2>3. todo[i] \in ASteps /\ L!Now(i) = todo[i][1]
    BY <1>1, FirstStep DEF LedgerTyped, L!Now
  <2>4. \A r \in Participants, ops \in {CountOps, PassOps} :
          Owed(q, r, ops) => Owed(todo[i], r, ops)
    <3>. TAKE r \in Participants
    <3>. TAKE ops \in {CountOps, PassOps}
    <3>1. PICK s \in ASteps : s = todo[i]
      BY <2>3
    <3>2. /\ s # <<>> /\ Follows(s[1], new) /\ Len(q) = Len(new) + Len(s) - 1
          /\ \A k \in 1..Len(q) : q[k] = IF k <= Len(new) THEN new[k] ELSE s[k - Len(new) + 1]
      BY <1>1, <2>1, <2>3, <3>1
    <3>3. Owed(q, r, ops) => Owed(s, r, ops)
      BY <3>2, FollowOwes
    <3>. QED
      BY <3>1, <3>3
  <2>5. \A r \in Participants, ops \in {CountOps, PassOps} : Owed(q, r, ops) => q # <<>>
    BY DEF Owed
  <2>. QED
    BY <1>1, <2>2, <2>4, <2>5 DEF Carries
<1>2. ASSUME L!Fail(i) PROVE Carries(i)
  <2>1. PICK q \in ASteps, m \in Nat \ {0} :
          /\ Has(i, q)
          /\ \A k \in 1..Len(q) : k + m <= Len(todo[i]) /\ q[k] = todo[i][k + m]
          /\ todo[i][1].op = "insert" => q = <<>>
    BY <1>2, Fails
  <2>2. /\ todo'[i] = q /\ busy'[i] = IF q = <<>> THEN {} ELSE busy[i]
        /\ \A j \in Invocations \ {i} : todo'[j] = todo[j] /\ busy'[j] = busy[j]
    BY <2>1, HasFacts DEF LedgerTyped
  <2>3. /\ todo[i] # <<>> /\ DOMAIN todo[i] = 1..Len(todo[i]) /\ Len(todo[i]) \in Nat
        /\ DOMAIN q = 1..Len(q) /\ Len(q) \in Nat
    <3>1. todo[i] # <<>>
      BY <1>2, Fails
    <3>2. DOMAIN q = 1..Len(q) /\ Len(q) \in Nat
      BY DEF ASteps
    <3>. QED
      BY <3>1, <3>2, FirstStep DEF LedgerTyped
  <2>4. \A k \in DOMAIN q : k + m \in DOMAIN todo[i] /\ q[k] = todo[i][k + m]
    BY <2>1, <2>3
  <2>5. \A r \in Participants, ops \in {CountOps, PassOps} :
          Owed(q, r, ops) => Owed(todo[i], r, ops) /\ q # <<>>
    BY <2>4 DEF Owed
  <2>6. L!Due(i, "insert") => q = <<>>
    BY <2>1, DueFirst
  <2>. QED
    BY <2>2, <2>5, <2>6 DEF Carries
<1>3. ASSUME NEW subjects, NEW steps \in ASteps, Opened(i, subjects, steps)
      PROVE  /\ todo'[i] = steps /\ (steps # <<>> => busy'[i] = subjects) /\ UNCHANGED row
             /\ \A j \in Invocations \ {i} : todo'[j] = todo[j] /\ busy'[j] = busy[j]
  BY <1>3 DEF Opened, LedgerTyped, QueuesTyped
<1>4. ASSUME NEW subjects, NEW steps \in ASteps, Opened(i, subjects, steps),
             \A k \in 1..Len(steps) : steps[k].op \in {"adjust", "model", "create", "post"}
      PROVE  Carries(i)
  <2>1. \A r \in Participants, ops \in {CountOps, PassOps} : ~Owed(steps, r, ops)
    <3>1. DOMAIN steps = 1..Len(steps)
      BY DEF ASteps
    <3>. QED
      BY <1>4, <3>1 DEF Owed, CountOps, PassOps
  <2>. QED
    BY <1>3, <1>4, <2>1 DEF Carries
<1>5. ASSUME NEW steps \in PlainSteps, NEW subjects, Opened(i, subjects, steps) PROVE Carries(i)
  BY <1>4, <1>5, PlainOps
<1>6. ASSUME NEW e \in Events, NEW n \in Int, NEW subjects,
             L!Adjust(Bought[e].who, n, e) \in Steps(Events),
             Opened(i, subjects, <<L!Adjust(Bought[e].who, n, e)>>)
      PROVE  Carries(i)
  BY <1>4, <1>6, PurchaseOps
<1>7. ASSUME NEW p \in Participants, NEW r \in Participants \cup {None}, NEW promo \in BOOLEAN,
             NEW n \in Int, NEW subjects, Registers(i, subjects, p, r, promo),
             Opened(i, subjects, Signup(p, n, r, promo)), Signup(p, n, r, promo) \in ASteps
      PROVE  Carries(i)
  <2>. DEFINE s == Signup(p, n, r, promo)
  <2>1. s # <<>> /\ Head(s) = L!Step("insert", p, n, r)
    BY <1>7, SignupFirst
  <2>2. \A x \in Participants, ops \in {CountOps, PassOps} : Owed(s, x, ops) => x = r
    <3>1. DOMAIN s = 1..Len(s)
      BY <1>7 DEF ASteps
    <3>2. \A k \in 1..Len(s) :
            /\ s[k].op \in {"insert", "redeem", "adjust", "referral", "grant"}
            /\ s[k].op \in {"referral", "grant"} => s[k].who = r
      BY SignupOps
    <3>. HIDE DEF s
    <3>. QED
      BY <3>1, <3>2 DEF Owed, CountOps, PassOps
  <2>3. s \in ASteps /\ Opened(i, subjects, s)
    BY <1>7
  <2>. HIDE DEF s
  <2>4. /\ todo'[i] = s /\ busy'[i] = subjects /\ UNCHANGED row
        /\ \A j \in Invocations \ {i} : todo'[j] = todo[j] /\ busy'[j] = busy[j]
    BY <1>3, <2>1, <2>3
  <2>5. L!Due(i, "insert")' /\ L!Now(i)'.who = p /\ L!Now(i)'.tag = r
    BY <2>1, <2>4 DEF L!Due, L!Now, L!Idle, L!Step
  <2>6. Registers(i, busy'[i], p, r, promo)
    BY <1>7, <2>4
  <2>. QED
    BY <2>2, <2>4, <2>5, <2>6 DEF Carries
<1>. QED
  BY <1>1, <1>2, <1>5, <1>6, <1>7 DEF Moves

\* A registration with a referrer is about the newcomer, the referrer and the
\* code.
LEMMA RegistersNames ==
  ASSUME NEW i \in Invocations, NEW p \in Participants, NEW r \in Participants,
         NEW subjects, NEW promo \in BOOLEAN, Registers(i, subjects, p, r, promo)
  PROVE  /\ p # r /\ subjects = {p, r, Code}
         /\ \A q \in Participants : subjects = {q, r, Code} /\ q # r => q = p
<1>1. p # r /\ p # None /\ r # None /\ Code # p /\ Code # r
  BY LedgerConstants DEF Registers
<1>. QED
  BY <1>1, LedgerConstants DEF Registers

LEMMA NewcomersApart ==
  ASSUME Newcomers, NEW i \in Invocations, NEW j \in Invocations, NEW p \in Participants,
         NEW r \in Participants, NEW q \in Participants,
         Names(i, p, r), Owes(i, r, CountOps \cup PassOps),
         Names(j, p, q), Owes(j, q, CountOps \cup PassOps)
  PROVE  i = j
BY DEF Newcomers

LEMMA NewcomersStep ==
  ASSUME LedgerTyped, Newcomers, L!Next
  PROVE  Newcomers'
<1>1. \A p \in Participants : L!Registered(p) => L!Registered(p)' /\ row'[p].by = row[p].by
  BY RowsStep DEF RowsGrow, L!Registered
<1>2. (\A p \in L!Rows : row[p].by # p)'
  <2>1. ASSUME NEW p \in Participants, row'[p] # None PROVE row'[p].by # p
    <3>1. CASE L!Registered(p)
      BY <1>1, <3>1 DEF Newcomers, L!Rows
    <3>2. CASE ~L!Registered(p)
      BY <2>1, <3>2, RowChanges DEF RowMoves, L!Registered
    <3>. QED
      BY <3>1, <3>2
  <2>. QED
    BY <2>1 DEF L!Rows, L!Registered
<1>. DEFINE Of(i, r) ==
       Owes(i, r, CountOps \cup PassOps) =>
       \E p \in Participants :
            /\ Names(i, p, r)
            /\ \/ L!Registered(p) /\ row[p].by = r
               \/ L!Due(i, "insert") /\ L!Now(i).who = p /\ L!Now(i).tag = r
<1>3. ASSUME NEW i \in Invocations, UNCHANGED <<todo[i], busy[i]>>, NEW r \in Participants
      PROVE  Of(i, r)'
  <2>1. Of(i, r)
    BY DEF Newcomers
  <2>2. /\ L!Due(i, "insert")' <=> L!Due(i, "insert")
        /\ L!Now(i)' = L!Now(i)
        /\ Owes(i, r, CountOps \cup PassOps)' <=> Owes(i, r, CountOps \cup PassOps)
        /\ \A p : Names(i, p, r)' <=> Names(i, p, r)
    BY <1>3 DEF L!Due, L!Now, L!Idle, Owes, Owed, Names
  <2>. QED
    BY <1>1, <2>1, <2>2
<1>. HIDE DEF Of
<1>4. CASE UNCHANGED <<todo, busy>>
  <2>1. \A i \in Invocations, r \in Participants : Of(i, r)'
    BY <1>3, <1>4
  <2>2. \A i \in Invocations, p, r \in Participants :
          /\ Names(i, p, r)' <=> Names(i, p, r)
          /\ Owes(i, r, CountOps \cup PassOps)' <=> Owes(i, r, CountOps \cup PassOps)
    BY <1>4 DEF Owes, Owed, Names
  <2>3. ASSUME NEW j \in Invocations, NEW k \in Invocations, NEW q \in Participants,
               NEW x \in Participants, NEW y \in Participants,
               Names(j, q, x)', Owes(j, x, CountOps \cup PassOps)',
               Names(k, q, y)', Owes(k, y, CountOps \cup PassOps)'
        PROVE  j = k
    <3>1. /\ Names(j, q, x) /\ Owes(j, x, CountOps \cup PassOps)
          /\ Names(k, q, y) /\ Owes(k, y, CountOps \cup PassOps)
      BY <2>2, <2>3
    <3>. QED
      BY <3>1, NewcomersApart
  <2>. QED
    BY <1>2, <2>1, <2>3 DEF Newcomers, Of
<1>5. ASSUME NEW i \in Invocations, Carries(i) PROVE Newcomers'
  <2>1. \A j \in Invocations \ {i} : todo'[j] = todo[j] /\ busy'[j] = busy[j]
    BY <1>5 DEF Carries
  <2>2. ASSUME NEW j \in Invocations \ {i}, NEW p \in Participants, NEW r \in Participants
        PROVE  /\ Names(j, p, r)' <=> Names(j, p, r)
               /\ Owes(j, r, CountOps \cup PassOps)' <=> Owes(j, r, CountOps \cup PassOps)
    BY <2>1 DEF Owes, Owed, Names
  <2>3. \A q, r : /\ Owed(q, r, CountOps \cup PassOps)
                       <=> Owed(q, r, CountOps) \/ Owed(q, r, PassOps)
    BY DEF Owed
  <2>4. CASE \A r \in Participants, ops \in {CountOps, PassOps} : Owed(todo'[i], r, ops) =>
               /\ Owed(todo[i], r, ops) /\ busy'[i] = busy[i]
               /\ L!Due(i, "insert") =>
                    row'[L!Now(i).who] # None /\ row'[L!Now(i).who].by = L!Now(i).tag
    <3>1. ASSUME NEW r \in Participants, Owes(i, r, CountOps \cup PassOps)'
          PROVE  /\ Owes(i, r, CountOps \cup PassOps) /\ busy'[i] = busy[i]
                 /\ L!Due(i, "insert") =>
                      row'[L!Now(i).who] # None /\ row'[L!Now(i).who].by = L!Now(i).tag
      BY <2>3, <2>4, <3>1 DEF Owes
    <3>2. ASSUME NEW r \in Participants PROVE Of(i, r)'
      BY <1>1, <3>1 DEF Of, Newcomers, Names, L!Registered
    <3>3. ASSUME NEW p \in Participants, NEW r \in Participants, Names(i, p, r)',
                 Owes(i, r, CountOps \cup PassOps)'
          PROVE  Names(i, p, r) /\ Owes(i, r, CountOps \cup PassOps)
      BY <3>1, <3>3 DEF Names
    <3>4. \A j \in Invocations, r \in Participants : Of(j, r)'
      BY <1>3, <2>1, <3>2
    <3>5. \A j \in Invocations, p, r \in Participants :
            (Names(j, p, r) /\ Owes(j, r, CountOps \cup PassOps))'
               => Names(j, p, r) /\ Owes(j, r, CountOps \cup PassOps)
      BY <2>2, <3>3
    <3>6. ASSUME NEW j \in Invocations, NEW k \in Invocations, NEW q \in Participants,
                 NEW x \in Participants, NEW y \in Participants,
                 Names(j, q, x)', Owes(j, x, CountOps \cup PassOps)',
                 Names(k, q, y)', Owes(k, y, CountOps \cup PassOps)'
          PROVE  j = k
      <4>1. /\ Names(j, q, x) /\ Owes(j, x, CountOps \cup PassOps)
            /\ Names(k, q, y) /\ Owes(k, y, CountOps \cup PassOps)
        BY <3>5, <3>6
      <4>. QED
        BY <4>1, NewcomersApart
    <3>. QED
      BY <1>2, <3>4, <3>6 DEF Newcomers, Of
  <2>5. ASSUME NEW p \in Participants, NEW r \in Participants \cup {None}, NEW promo \in BOOLEAN,
               Registers(i, busy'[i], p, r, promo), UNCHANGED row,
               L!Due(i, "insert")', L!Now(i)'.who = p, L!Now(i)'.tag = r,
               \A x \in Participants, ops \in {CountOps, PassOps} :
                 Owed(todo'[i], x, ops) => x = r
        PROVE  Newcomers'
    <3>1. ASSUME NEW x \in Participants, Owes(i, x, CountOps \cup PassOps)'
          PROVE  x = r /\ r \in Participants
      BY <2>3, <2>5, <3>1, LedgerConstants DEF Owes
    <3>2. r \in Participants => Names(i, p, r)' /\ \A q \in Participants :
            Names(i, q, r)' => q = p
      BY <2>5, RegistersNames DEF Names
    <3>3. ASSUME NEW x \in Participants PROVE Of(i, x)'
      BY <2>5, <3>1, <3>2 DEF Of
    <3>4. \A j \in Invocations : p \notin busy[j]
      BY <2>5 DEF Registers
    <3>5. ASSUME NEW j \in Invocations \ {i}, NEW q \in Participants,
                 NEW x \in Participants, NEW y \in Participants,
                 Names(j, q, x)', Names(i, q, y)', Owes(i, y, CountOps \cup PassOps)'
          PROVE  FALSE
      <4>1. y = r /\ q = p
        BY <3>1, <3>2, <3>5
      <4>2. q \in busy[j]
        BY <2>1, <3>5 DEF Names
      <4>. QED
        BY <3>4, <4>1, <4>2
    <3>6. \A j \in Invocations, x \in Participants : Of(j, x)'
      BY <1>3, <2>1, <3>3
    <3>7. ASSUME NEW j \in Invocations, NEW k \in Invocations, NEW q \in Participants,
                 NEW x \in Participants, NEW y \in Participants,
                 Names(j, q, x)', Owes(j, x, CountOps \cup PassOps)',
                 Names(k, q, y)', Owes(k, y, CountOps \cup PassOps)'
          PROVE  j = k
      <4>1. CASE j # i /\ k # i
        <5>1. /\ Names(j, q, x) /\ Owes(j, x, CountOps \cup PassOps)
              /\ Names(k, q, y) /\ Owes(k, y, CountOps \cup PassOps)
          BY <2>2, <3>7, <4>1
        <5>. QED
          BY <5>1, NewcomersApart
      <4>2. CASE j = i \/ k = i
        BY <3>5, <3>7, <4>2
      <4>. QED
        BY <4>1, <4>2
    <3>. QED
      BY <1>2, <3>6, <3>7 DEF Newcomers, Of
  <2>. QED
    BY <1>5, <2>4, <2>5 DEF Carries
<1>. QED
  BY <1>4, <1>5, LedgerMoves, MovesCarry

\* Once done with, a newcomer stays so.
LEMMA DoneGrows ==
  ASSUME LedgerTyped, L!Next, NEW r \in Participants, NEW ops \in {CountOps, PassOps}
  PROVE  \A p \in Done(r, ops) : p \in Done(r, ops)'
<1>. SUFFICES ASSUME NEW p \in Done(r, ops) PROVE p \in Done(r, ops)'
  OBVIOUS
<1>1. /\ p \in Participants /\ L!Registered(p) /\ row[p].by = r
      /\ \A i \in Invocations : ~(Names(i, p, r) /\ Owes(i, r, ops))
  BY DEF Done, L!Rows
<1>2. L!Registered(p)' /\ row'[p].by = r
  BY <1>1, RowsStep DEF RowsGrow, L!Registered
<1>3. ASSUME NEW i \in Invocations, UNCHANGED <<todo[i], busy[i]>>
      PROVE  ~(Names(i, p, r) /\ Owes(i, r, ops))'
  BY <1>1, <1>3 DEF Names, Owes, Owed
<1>4. SUFFICES \A i \in Invocations : ~(Names(i, p, r) /\ Owes(i, r, ops))'
  BY <1>1, <1>2, <1>4 DEF Done, L!Rows
<1>5. CASE UNCHANGED <<todo, busy>>
  BY <1>3, <1>5
<1>6. ASSUME NEW i \in Invocations, Carries(i)
      PROVE  \A j \in Invocations : ~(Names(j, p, r) /\ Owes(j, r, ops))'
  <2>1. \A j \in Invocations \ {i} : todo'[j] = todo[j] /\ busy'[j] = busy[j]
    BY <1>6 DEF Carries
  <2>2. CASE \A x \in Participants, o \in {CountOps, PassOps} : Owed(todo'[i], x, o) =>
               Owed(todo[i], x, o) /\ busy'[i] = busy[i]
    <3>1. ~(Names(i, p, r) /\ Owes(i, r, ops))'
      BY <1>1, <2>2 DEF Names, Owes
    <3>. QED
      BY <1>3, <2>1, <3>1
  <2>3. ASSUME NEW q \in Participants, NEW x \in Participants \cup {None}, NEW promo \in BOOLEAN,
               Registers(i, busy'[i], q, x, promo),
               \A y \in Participants, o \in {CountOps, PassOps} :
                 Owed(todo'[i], y, o) => y = x
        PROVE  ~(Names(i, p, r) /\ Owes(i, r, ops))'
    <3>1. SUFFICES ASSUME Names(i, p, r)', Owes(i, r, ops)' PROVE FALSE
      OBVIOUS
    <3>2. r = x
      BY <2>3, <3>1 DEF Owes
    <3>3. p = q
      BY <1>1, <2>3, <3>1, <3>2, RegistersNames DEF Names
    <3>. QED
      BY <1>1, <2>3, <3>3 DEF Registers
  <2>. QED
    BY <1>3, <1>6, <2>1, <2>2, <2>3 DEF Carries
<1>. QED
  BY <1>5, <1>6, LedgerMoves, MovesCarry

LEMMA DoneCounts ==
  ASSUME LedgerTyped, L!Next, NEW r \in Participants, NEW ops \in {CountOps, PassOps}
  PROVE  /\ Cardinality(Done(r, ops)) \in Nat /\ Cardinality(Done(r, ops)') \in Nat
         /\ Cardinality(Done(r, ops)) <= Cardinality(Done(r, ops)')
<1>1. Done(r, ops) \in SUBSET Participants /\ Done(r, ops)' \in SUBSET Participants
  BY DEF Done, L!Rows
<1>2. Done(r, ops) \in SUBSET (Done(r, ops)')
  BY DoneGrows
<1>. QED
  BY <1>1, <1>2, CountFacts

\* A referrer's count goes with a newcomer that was not counted yet.
LEMMA OneMoreDone ==
  ASSUME LedgerTyped, Newcomers, L!Next, NEW i \in Invocations, todo[i] # <<>>,
         L!Proceed(i, <<>>), NEW ops \in {CountOps, PassOps}, L!Now(i).op \in ops
  PROVE  \E r \in Participants :
           /\ r = L!Now(i).who
           /\ Cardinality(Done(r, ops)) + 1 <= Cardinality(Done(r, ops)')
           /\ Cardinality(Done(r, ops)) \in Nat
<1>1. L!Now(i) = todo[i][1] /\ 1 \in DOMAIN todo[i] /\ L!Now(i).who \in Participants
  BY NowFacts
<1>2. PICK r \in Participants : r = L!Now(i).who
  BY <1>1
<1>3. Owes(i, r, ops) /\ Owes(i, r, CountOps \cup PassOps)
  BY <1>1, <1>2 DEF Owes, Owed
<1>4. ~L!Due(i, "insert")
  BY DEF L!Due, L!Now, CountOps, PassOps
<1>5. PICK p \in Participants : Names(i, p, r) /\ L!Registered(p) /\ row[p].by = r
  BY <1>3, <1>4 DEF Newcomers
<1>6. \A j \in Invocations \ {i} : ~(Names(j, p, r) /\ Owes(j, r, ops))
  <2>1. \A q : Owed(q, r, ops) => Owed(q, r, CountOps \cup PassOps)
    BY DEF Owed
  <2>2. ASSUME NEW j \in Invocations \ {i}, Names(j, p, r), Owes(j, r, ops) PROVE FALSE
    <3>1. Owes(j, r, CountOps \cup PassOps)
      BY <2>1, <2>2 DEF Owes
    <3>. QED
      BY <1>3, <1>5, <2>2, <3>1, NewcomersApart
  <2>. QED
    BY <2>2
<1>7. p \notin Done(r, ops)
  BY <1>3, <1>5 DEF Done
<1>8. PICK q \in ASteps :
        /\ todo'[i] = q /\ Len(q) = Len(todo[i]) - 1
        /\ \A k \in 1..Len(q) : q[k] = todo[i][k + 1]
        /\ DOMAIN q = 1..Len(q)
        /\ \A j \in Invocations \ {i} : todo'[j] = todo[j]
  BY TailFacts
<1>9. ~Owed(q, r, ops)
  <2>1. SUFFICES ASSUME NEW k \in 1..Len(q), q[k].op \in ops PROVE FALSE
    BY <1>8 DEF Owed
  <2>2. k + 1 \in DOMAIN todo[i] /\ k + 1 # 1 /\ q[k] = todo[i][k + 1]
    BY <1>8, FirstStep DEF LedgerTyped
  <2>. QED
    BY <1>1, <2>1, <2>2 DEF LedgerTyped, Ordered
<1>10. \A j \in Invocations \ {i} : busy'[j] = busy[j]
  <2>1. busy' = IF <<>> \o Tail(todo[i]) = <<>> THEN [busy EXCEPT ![i] = {}] ELSE busy
    BY DEF L!Proceed, L!Continue
  <2>. QED
    BY <2>1 DEF LedgerTyped, QueuesTyped
<1>11. L!Registered(p)' /\ row'[p].by = r
  BY <1>5, RowsStep DEF RowsGrow, L!Registered
<1>12. p \in Done(r, ops)'
  <2>1. ASSUME NEW j \in Invocations PROVE ~(Names(j, p, r) /\ Owes(j, r, ops))'
    <3>1. CASE j = i
      BY <1>8, <1>9, <3>1 DEF Owes
    <3>2. CASE j # i
      BY <1>6, <1>8, <1>10, <3>2 DEF Owes, Names
    <3>. QED
      BY <3>1, <3>2
  <2>. QED
    BY <1>11, <2>1 DEF Done, L!Rows
<1>13. /\ Done(r, ops) \in SUBSET Participants /\ Done(r, ops)' \in SUBSET Participants
       /\ Done(r, ops) \cup {p} \in SUBSET (Done(r, ops)')
  BY <1>12, DoneGrows DEF Done, L!Rows
<1>14. /\ Cardinality(Done(r, ops) \cup {p}) = Cardinality(Done(r, ops)) + 1
       /\ Cardinality(Done(r, ops)) \in Nat
  BY <1>7, <1>13, CountFacts
<1>15. Cardinality(Done(r, ops) \cup {p}) <= Cardinality(Done(r, ops)')
  BY <1>13, CountFacts
<1>. QED
  BY <1>2, <1>14, <1>15

\* What a handler goes on with was counted, or read from a row.
LEMMA FollowCounts ==
  ASSUME LedgerTyped, ReferralsCounted, NEW i \in Invocations, todo[i] # <<>>,
         NEW new \in ASteps, Follows(L!Now(i), new), NEW k \in 1..Len(new)
  PROVE  Counts(new[k])
<1>. DEFINE s == L!Now(i)
<1>1. s = todo[i][1] /\ 1 \in DOMAIN todo[i] /\ s.who \in Participants
      /\ (s.op \in CountOps \cup PassOps => s.who \in L!Rows)
  BY NowFacts DEF L!Rows
<1>2. Counts(s)
  BY <1>1 DEF ReferralsCounted
<1>3. Len(new) # 0 /\ (new = <<>> => Len(new) = 0)
  BY DEF ASteps
<1>. HIDE DEF s
<1>4. CASE s.op \in {"adjust", "post", "redeem"} /\ new # <<>>
  <2>1. new[k].op \in {"set", "adjust", "comp", "bump"}
    BY <1>3, <1>4 DEF Follows, L!Step, L!Adjust, L!Grant, s
  <2>. QED
    BY <2>1 DEF Counts
<1>5. CASE s.op = "referral" /\ new # <<>>
  <2>1. new[k].op = "count" /\ new[k].who = s.who /\ new[k].n = row[s.who].referrals
    BY <1>3, <1>5 DEF Follows, L!Step, s
  <2>2. s.who \in L!Rows
    BY <1>1, <1>5 DEF CountOps
  <2>. QED
    BY <2>1, <2>2 DEF Counts, ReferralsCounted
<1>6. CASE s.op = "grant" /\ new # <<>>
  <2>1. /\ new[k].op = "code" /\ new[k].who = s.who /\ new[k].n = row[s.who].compedReferrals
        /\ row[s.who].compedReferrals < MaxReferrals
    BY <1>3, <1>6 DEF Follows, L!Step, s
  <2>2. s.who \in L!Rows
    BY <1>1, <1>6 DEF PassOps
  <2>. QED
    BY <2>1, <2>2 DEF Counts, ReferralsCounted
<1>7. CASE s.op = "code" /\ new # <<>>
  <2>1. \/ new[k].op \in {"comp", "bump"}
        \/ new[k].op = "mark" /\ new[k].who = s.who /\ new[k].n = s.n
    BY <1>3, <1>7 DEF Follows, L!Step, s
  <2>. QED
    BY <1>2, <1>7, <2>1 DEF Counts
<1>. QED
  BY <1>3, <1>4, <1>5, <1>6, <1>7 DEF Follows, s

LEMMA MovesCount ==
  ASSUME LedgerTyped, ReferralsCounted, NEW i \in Invocations, Moves(i)
  PROVE  /\ \A j \in Invocations \ {i} : todo'[j] = todo[j]
         /\ \A k \in DOMAIN todo'[i] : Counts(todo'[i][k])
<1>1. \A j \in Invocations \ {i} : todo'[j] = todo[j]
  BY MovesCarry DEF Carries
<1>2. ASSUME NEW q \in ASteps, todo'[i] = q, \A k \in 1..Len(q) : Counts(q[k])
      PROVE  \A k \in DOMAIN todo'[i] : Counts(todo'[i][k])
  BY <1>2 DEF ASteps
<1>3. ASSUME NEW new \in ASteps, todo[i] # <<>>, L!Proceed(i, new), Follows(L!Now(i), new)
      PROVE  \A k \in DOMAIN todo'[i] : Counts(todo'[i][k])
  <2>1. PICK q \in ASteps :
          /\ Has(i, q) /\ Len(q) = Len(new) + Len(todo[i]) - 1
          /\ \A k \in 1..Len(q) :
               q[k] = IF k <= Len(new) THEN new[k] ELSE todo[i][k - Len(new) + 1]
    BY <1>3, Proceeds DEF LedgerTyped
  <2>2. todo'[i] = q
    BY <2>1, HasFacts DEF LedgerTyped
  <2>3. /\ DOMAIN todo[i] = 1..Len(todo[i]) /\ Len(todo[i]) \in Nat
        /\ Len(new) \in Nat /\ Len(q) \in Nat
    BY <1>3, FirstStep DEF LedgerTyped, ASteps
  <2>4. ASSUME NEW k \in 1..Len(q) PROVE Counts(q[k])
    <3>1. CASE k <= Len(new)
      <4>1. q[k] = new[k] /\ k \in 1..Len(new)
        BY <2>1, <2>3, <3>1
      <4>. QED
        BY <1>3, <4>1, FollowCounts
    <3>2. CASE k > Len(new)
      <4>1. q[k] = todo[i][k - Len(new) + 1] /\ k - Len(new) + 1 \in DOMAIN todo[i]
        BY <2>1, <2>3, <3>2
      <4>. QED
        BY <4>1 DEF ReferralsCounted
    <3>. QED
      BY <2>3, <3>1, <3>2
  <2>. QED
    BY <1>2, <2>2, <2>4
<1>4. ASSUME L!Fail(i) PROVE \A k \in DOMAIN todo'[i] : Counts(todo'[i][k])
  <2>1. PICK q \in ASteps, m \in Nat \ {0} :
          /\ Has(i, q)
          /\ \A k \in 1..Len(q) : k + m <= Len(todo[i]) /\ q[k] = todo[i][k + m]
    BY <1>4, Fails
  <2>2. todo'[i] = q
    BY <2>1, HasFacts DEF LedgerTyped
  <2>3. DOMAIN todo[i] = 1..Len(todo[i]) /\ Len(todo[i]) \in Nat /\ Len(q) \in Nat
    <3>1. todo[i] # <<>>
      BY <1>4, Fails
    <3>. QED
      BY <3>1, FirstStep DEF LedgerTyped, ASteps
  <2>4. \A k \in 1..Len(q) : k + m \in DOMAIN todo[i] /\ q[k] = todo[i][k + m]
    BY <2>1, <2>3
  <2>5. \A k \in 1..Len(q) : Counts(q[k])
    BY <2>4 DEF ReferralsCounted
  <2>. QED
    BY <1>2, <2>2, <2>5
<1>5. ASSUME NEW subjects, NEW steps \in ASteps, Opened(i, subjects, steps),
             \A k \in 1..Len(steps) : steps[k].op \notin {"count", "code", "mark"}
      PROVE  \A k \in DOMAIN todo'[i] : Counts(todo'[i][k])
  <2>1. todo'[i] = steps
    BY <1>5 DEF Opened, LedgerTyped, QueuesTyped
  <2>2. \A k \in 1..Len(steps) : Counts(steps[k])
    BY <1>5 DEF Counts
  <2>. QED
    BY <1>2, <2>1, <2>2
<1>6. ASSUME NEW steps \in PlainSteps, NEW subjects, Opened(i, subjects, steps)
      PROVE  \A k \in DOMAIN todo'[i] : Counts(todo'[i][k])
  BY <1>5, <1>6, PlainOps
<1>7. ASSUME NEW e \in Events, NEW n \in Int, NEW subjects,
             L!Adjust(Bought[e].who, n, e) \in Steps(Events),
             Opened(i, subjects, <<L!Adjust(Bought[e].who, n, e)>>)
      PROVE  \A k \in DOMAIN todo'[i] : Counts(todo'[i][k])
  BY <1>5, <1>7, PurchaseOps
<1>8. ASSUME NEW p, NEW n, NEW r, NEW promo \in BOOLEAN, NEW subjects,
             Opened(i, subjects, Signup(p, n, r, promo)), Signup(p, n, r, promo) \in ASteps
      PROVE  \A k \in DOMAIN todo'[i] : Counts(todo'[i][k])
  BY <1>5, <1>8, SignupOps
<1>. QED
  BY <1>1, <1>3, <1>4, <1>6, <1>7, <1>8 DEF Moves

LEMMA ReferralsStep ==
  ASSUME LedgerTyped, Newcomers, ReferralsCounted, L!Next
  PROVE  ReferralsCounted'
<1>. DEFINE Fine(r) ==
       /\ row[r].referrals <= Cardinality(Done(r, CountOps))
       /\ row[r].compedReferrals <= Cardinality(Done(r, PassOps))
       /\ row[r].compedReferrals <= MaxReferrals
<1>0. MaxReferrals \in Nat
  BY LedgerConstants
<1>1. ASSUME NEW i \in Invocations, NEW k \in DOMAIN todo'[i] PROVE Counts(todo[i][k])'
  <2>1. Counts(todo'[i][k])
    BY LedgerMoves, MovesCount DEF ReferralsCounted
  <2>2. PICK s \in Steps(Tags \cup Events) : s = todo'[i][k]
    <3>1. todo'[i] \in ASteps
      BY TypedStep DEF LedgerTyped, QueuesTyped
    <3>. QED
      BY <3>1 DEF ASteps
  <2>3. s.who \in Participants /\ s.n \in Int
    BY DEF Steps
  <2>4. Counts(s)
    BY <2>1, <2>2
  <2>5. /\ Cardinality(Done(s.who, CountOps)) \in Nat
        /\ Cardinality(Done(s.who, CountOps)') \in Nat
        /\ Cardinality(Done(s.who, CountOps)) <= Cardinality(Done(s.who, CountOps)')
        /\ Cardinality(Done(s.who, PassOps)) \in Nat
        /\ Cardinality(Done(s.who, PassOps)') \in Nat
        /\ Cardinality(Done(s.who, PassOps)) <= Cardinality(Done(s.who, PassOps)')
    BY <2>3, DoneCounts
  <2>6. Counts(s)'
    BY <2>3, <2>4, <2>5 DEF Counts
  <2>. QED
    BY <2>2, <2>6
<1>2. ASSUME NEW r \in Participants, row'[r] # None PROVE Fine(r)'
  <2>1. /\ Cardinality(Done(r, CountOps)) \in Nat
        /\ Cardinality(Done(r, CountOps)') \in Nat
        /\ Cardinality(Done(r, CountOps)) <= Cardinality(Done(r, CountOps)')
        /\ Cardinality(Done(r, PassOps)) \in Nat
        /\ Cardinality(Done(r, PassOps)') \in Nat
        /\ Cardinality(Done(r, PassOps)) <= Cardinality(Done(r, PassOps)')
    BY DoneCounts
  <2>2. RowMoves(r)
    BY RowChanges
  <2>3. CASE row[r] = None
    <3>1. row'[r].referrals = 0 /\ row'[r].compedReferrals = 0
      BY <1>2, <2>2, <2>3 DEF RowMoves
    <3>. QED
      BY <1>0, <2>1, <3>1
  <2>4. CASE row[r] # None
    <3>1. Fine(r) /\ row[r].referrals \in Nat /\ row[r].compedReferrals \in Nat
      <4>1. r \in L!Rows /\ row[r] \in ARow
        BY <2>4 DEF L!Rows, L!Registered, LedgerTyped, RowsTyped
      <4>. QED
        BY <4>1 DEF ReferralsCounted, ARow
    <3>2. ASSUME NEW i \in Invocations,
                 L!ReferralWrite(i) \/ L!ReferralDisk(i) \/ L!MarkReferral(i),
                 L!Now(i).who = r
          PROVE  /\ todo[i] # <<>> /\ L!Proceed(i, <<>>) /\ Counts(L!Now(i)) /\ L!Now(i).n \in Int
                 /\ L!Now(i).op = IF L!ReferralWrite(i) THEN "count"
                                  ELSE IF L!ReferralDisk(i) THEN "referral" ELSE "mark"
      <4>1. todo[i] # <<>> /\ L!Proceed(i, <<>>)
        BY <3>2 DEF L!ReferralWrite, L!ReferralDisk, L!MarkReferral, L!Due, L!Idle
      <4>2. L!Now(i).op = IF L!ReferralWrite(i) THEN "count"
                          ELSE IF L!ReferralDisk(i) THEN "referral" ELSE "mark"
        BY <3>2 DEF L!ReferralWrite, L!ReferralDisk, L!MarkReferral, L!Due, L!Now
      <4>3. Counts(L!Now(i)) /\ L!Now(i).n \in Int
        BY <4>1, NowFacts DEF ReferralsCounted
      <4>. QED
        BY <4>1, <4>2, <4>3
    <3>3. row'[r].referrals <= Cardinality(Done(r, CountOps)')
      <4>1. CASE row'[r].referrals = row[r].referrals
        BY <2>1, <3>1, <4>1
      <4>2. ASSUME NEW i \in Invocations, L!ReferralWrite(i), L!Now(i).who = r,
                   row'[r].referrals = L!Now(i).n + 1
            PROVE  row'[r].referrals <= Cardinality(Done(r, CountOps)')
        <5>1. /\ todo[i] # <<>> /\ L!Proceed(i, <<>>) /\ Counts(L!Now(i)) /\ L!Now(i).n \in Int
              /\ L!Now(i).op = "count"
          BY <3>2, <4>2
        <5>2. L!Now(i).op \in CountOps
          BY <5>1 DEF CountOps
        <5>3. Cardinality(Done(r, CountOps)) + 1 <= Cardinality(Done(r, CountOps)')
          BY <4>2, <5>1, <5>2, OneMoreDone
        <5>4. L!Now(i).n <= Cardinality(Done(r, CountOps))
          BY <4>2, <5>1 DEF Counts
        <5>. QED
          BY <2>1, <4>2, <5>1, <5>3, <5>4
      <4>3. ASSUME NEW i \in Invocations, L!ReferralDisk(i), L!Now(i).who = r,
                   row'[r].referrals = row[r].referrals + 1
            PROVE  row'[r].referrals <= Cardinality(Done(r, CountOps)')
        <5>1. /\ todo[i] # <<>> /\ L!Proceed(i, <<>>) /\ L!Now(i).op \in {"count", "referral"}
          BY <3>2, <4>3
        <5>2. L!Now(i).op \in CountOps
          BY <5>1 DEF CountOps
        <5>3. Cardinality(Done(r, CountOps)) + 1 <= Cardinality(Done(r, CountOps)')
          BY <4>3, <5>1, <5>2, OneMoreDone
        <5>. QED
          BY <2>1, <3>1, <4>3, <5>3
      <4>. QED
        BY <1>2, <2>2, <2>4, <4>1, <4>2, <4>3 DEF RowMoves
    <3>4. /\ row'[r].compedReferrals <= Cardinality(Done(r, PassOps)')
          /\ row'[r].compedReferrals <= MaxReferrals
      <4>1. CASE row'[r].compedReferrals = row[r].compedReferrals
        BY <2>1, <3>1, <4>1
      <4>2. ASSUME NEW i \in Invocations, L!MarkReferral(i), L!Now(i).who = r,
                   row'[r].compedReferrals = L!Now(i).n + 1
            PROVE  /\ row'[r].compedReferrals <= Cardinality(Done(r, PassOps)')
                   /\ row'[r].compedReferrals <= MaxReferrals
        <5>1. /\ todo[i] # <<>> /\ L!Proceed(i, <<>>) /\ Counts(L!Now(i)) /\ L!Now(i).n \in Int
          BY <3>2, <4>2
        <5>2. L!Now(i).op = "mark" /\ L!Now(i).op \in PassOps
          BY <4>2 DEF L!MarkReferral, L!Due, L!Now, PassOps
        <5>3. Cardinality(Done(r, PassOps)) + 1 <= Cardinality(Done(r, PassOps)')
          BY <4>2, <5>1, <5>2, OneMoreDone
        <5>4. L!Now(i).n <= Cardinality(Done(r, PassOps)) /\ L!Now(i).n < MaxReferrals
          BY <4>2, <5>1, <5>2 DEF Counts
        <5>. QED
          BY <1>0, <2>1, <4>2, <5>1, <5>3, <5>4
      <4>. QED
        BY <1>2, <2>2, <2>4, <4>1, <4>2 DEF RowMoves
    <3>. QED
      BY <3>3, <3>4
  <2>. QED
    BY <2>3, <2>4
<1>. QED
  BY <1>1, <1>2 DEF ReferralsCounted, L!Rows, L!Registered

LedgerHolds == /\ LedgerTyped /\ QuietAlone /\ CompsCounted /\ Newcomers /\ ReferralsCounted

LEMMA LedgerHoldsAtFirst == ASSUME L!Init PROVE LedgerHolds
<1>1. LedgerTyped
  BY LedgerBegins
<1>2. /\ todo = [i \in Invocations |-> <<>>] /\ busy = [i \in Invocations |-> {}]
      /\ grants = redemptions /\ redemptions <= MaxRedemptions /\ uncounted = 0
  BY DEF L!Init
<1>3. PICK start \in Starts, early \in SUBSET Participants :
        /\ early \subseteq {p \in Participants : start[p] # None}
        /\ row = [p \in Participants |->
             IF start[p] = None THEN None
             ELSE [L!NewRow(start[p], "db", None) EXCEPT
                     !.comped = IF p \in early THEN "now" ELSE "never"]]
        /\ redemptions = L!Cardinality(early)
  BY DEF L!Init
<1>4. \A p \in Participants : row[p] # None =>
        /\ row[p].by = None /\ row[p].referrals = 0 /\ row[p].compedReferrals = 0
        /\ row[p].comped # "never" => p \in early
  BY <1>3 DEF L!NewRow
<1>5. \A i \in Invocations : todo[i] = <<>>
  BY <1>2
<1>6. QuietAlone
  BY <1>2 DEF QuietAlone
<1>7. Newcomers
  BY <1>4, <1>5, LedgerConstants DEF Newcomers, L!Rows, L!Registered, Owes, Owed
<1>8. ReferralsCounted
  <2>1. \A r \in Participants : \A ops : Cardinality(Done(r, ops)) \in Nat
    <3>1. \A r \in Participants : \A ops : Done(r, ops) \in SUBSET Participants
      BY DEF Done, L!Rows
    <3>. QED
      BY <3>1, CountFacts
  <2>. QED
    BY <1>4, <1>5, <2>1, LedgerConstants DEF ReferralsCounted, L!Rows, L!Registered
<1>9. CompsCounted
  <2>1. Comped \in SUBSET early /\ early \in SUBSET Participants
    BY <1>4 DEF Comped, L!Rows, L!Registered
  <2>2. Cardinality(Comped) <= Cardinality(early)
    BY <2>1, CountFacts
  <2>3. redemptions = Cardinality(early) /\ redemptions \in Nat
    BY <1>1, <1>3 DEF L!Cardinality, Cardinality, LedgerTyped, CountsTyped
  <2>4. ~\E i \in Invocations : L!Due(i, "bump")
    BY <1>5 DEF L!Due, L!Idle
  <2>. QED
    BY <1>2, <1>5, <2>2, <2>3, <2>4 DEF CompsCounted
<1>. QED
  BY <1>1, <1>6, <1>7, <1>8, <1>9 DEF LedgerHolds

LEMMA LedgerHoldsOn == ASSUME LedgerHolds, UNCHANGED ledger PROVE LedgerHolds'
<1>. USE DEF ledger
<1>1. LedgerTyped'
  BY DEF LedgerHolds, LedgerTyped, RowsTyped, QueuesTyped, CountsTyped, InsertsApart, Ordered,
     Placed, Fits, Here, L!Registered, L!Due, L!Now, L!Idle
<1>2. QuietAlone' /\ CompsCounted'
  BY DEF LedgerHolds, QuietAlone, CompsCounted, Bumps, Comped, L!Rows, L!Registered, L!Due, L!Now,
     L!Idle
<1>3. Newcomers'
  BY DEF LedgerHolds, Newcomers, Owes, Owed, Names, L!Rows, L!Registered, L!Due, L!Now, L!Idle
<1>4. ReferralsCounted'
  <2>1. \A r, ops : Done(r, ops)' = Done(r, ops)
    BY DEF Done, Owes, Owed, Names, L!Rows, L!Registered
  <2>2. \A s : Counts(s)' <=> Counts(s)
    BY <2>1 DEF Counts
  <2>. QED
    BY <2>1, <2>2 DEF LedgerHolds, ReferralsCounted, L!Rows, L!Registered
<1>. QED
  BY <1>1, <1>2, <1>3, <1>4 DEF LedgerHolds

LEMMA LedgerHoldsStep == ASSUME LedgerHolds, [Next]_vars PROVE LedgerHolds'
<1>1. CASE L!Next
  BY <1>1, TypedStep, AloneStep, QuietCode, CompsStep, NewcomersStep, ReferralsStep DEF LedgerHolds
<1>2. CASE UNCHANGED ledger
  BY <1>2, LedgerHoldsOn
<1>. QED
  BY <1>1, <1>2, PartsMove

LEMMA BumpCount ==
  ASSUME LedgerTyped, CodeAlone, Code \in quiet
  PROVE  L!Cardinality({i \in Invocations : L!Due(i, "bump")})
           = IF \E i \in Invocations : L!Due(i, "bump") THEN 1 ELSE 0
<1>. DEFINE S == {i \in Invocations : L!Due(i, "bump")}
<1>1. L!Cardinality(S) = Cardinality(S)
  BY DEF L!Cardinality, Cardinality
<1>2. CASE ~\E i \in Invocations : L!Due(i, "bump")
  <2>1. S = {}
    BY <1>2
  <2>. QED
    BY <1>1, <1>2, <2>1, FS_EmptySet
<1>3. ASSUME NEW i \in Invocations, L!Due(i, "bump")
      PROVE  L!Cardinality(S) = 1
  <2>1. ASSUME NEW j \in Invocations, L!Due(j, "bump") PROVE i = j
    <3>1. /\ 1 \in DOMAIN todo[i] /\ todo[i][1].op \in PromoOps
          /\ 1 \in DOMAIN todo[j] /\ todo[j][1].op \in PromoOps
      BY <1>3, <2>1, DueFirst DEF PromoOps
    <3>. QED
      BY <3>1, PromoAlone
  <2>2. S = {i}
    BY <1>3, <2>1
  <2>. QED
    BY <1>1, <2>2, FS_Singleton
<1>. QED
  BY <1>2, <1>3

\* CapHeld: the count of the code never passes its cap and, one redemption at a
\* time, counts every comp given but those whose count failed, so the comps pass
\* the cap by those at most; a referrer is credited
\* with no more than the newcomers that named it (promo.ts redeemPromoCode,
\* grantCompedReferral; agents.ts rewardReferrer).
THEOREM CapsHold == Spec => []CapHeld
<1>1. Init => LedgerHolds
  BY PartsBegin, LedgerHoldsAtFirst
<1>2. LedgerHolds /\ [Next]_vars => LedgerHolds'
  BY LedgerHoldsStep
<1>3. LedgerHolds => CapHeld
  <2>. SUFFICES ASSUME LedgerHolds PROVE CapHeld
    OBVIOUS
  <2>1. /\ redemptions <= MaxRedemptions /\ Cardinality(Comped) <= grants
        /\ LedgerTyped /\ CodeAlone /\ redemptions \in Nat /\ grants \in Nat
        /\ MaxRedemptions \in Nat /\ uncounted \in Nat
    BY QuietCode, LedgerConstants DEF LedgerHolds, CompsCounted, LedgerTyped, CountsTyped
  <2>2. \A S : L!Cardinality(S) = Cardinality(S)
    BY DEF L!Cardinality, Cardinality
  <2>3. Code \in quiet =>
          /\ grants = redemptions + L!Cardinality({i \in Invocations : L!Due(i, "bump")})
                        + uncounted
          /\ grants <= MaxRedemptions + uncounted
    <3>1. SUFFICES ASSUME Code \in quiet
                   PROVE /\ grants = redemptions +
                              (IF \E i \in Invocations : L!Due(i, "bump") THEN 1 ELSE 0)
                              + uncounted
                         /\ grants <= MaxRedemptions + uncounted
      BY <2>1, BumpCount
    <3>2. ASSUME NEW i \in Invocations, L!Due(i, "bump") PROVE redemptions < MaxRedemptions
      <4>1. 1 \in DOMAIN todo[i] /\ todo[i][1].op = "bump"
        BY <2>1, <3>2, DueFirst
      <4>2. Bumps(todo[i][1])
        BY <4>1 DEF LedgerHolds, CompsCounted
      <4>. QED
        BY <3>1, <4>1, <4>2 DEF Bumps
    <3>. QED
      BY <2>1, <3>1, <3>2 DEF LedgerHolds, CompsCounted
  <2>4. ASSUME NEW r \in L!Rows
        PROVE  /\ row[r].compedReferrals <= MaxReferrals
               /\ row[r].compedReferrals <= L!Cardinality({p \in L!Rows : row[p].by = r})
               /\ row[r].referrals <= L!Cardinality({p \in L!Rows : row[p].by = r})
    <3>. DEFINE J == {p \in L!Rows : row[p].by = r}
    <3>1. /\ J \in SUBSET Participants
          /\ Done(r, CountOps) \in SUBSET J /\ Done(r, PassOps) \in SUBSET J
      BY DEF Done, L!Rows
    <3>2. /\ Cardinality(Done(r, CountOps)) <= Cardinality(J)
          /\ Cardinality(Done(r, PassOps)) <= Cardinality(J)
      BY <3>1, CountFacts
    <3>3. /\ Cardinality(J) \in Nat /\ Cardinality(Done(r, CountOps)) \in Nat
          /\ Cardinality(Done(r, PassOps)) \in Nat
      <4>1. Done(r, CountOps) \in SUBSET Participants /\ Done(r, PassOps) \in SUBSET Participants
        BY <3>1
      <4>. QED
        BY <3>1, <4>1, CountFacts
    <3>4. row[r].referrals \in Nat /\ row[r].compedReferrals \in Nat
      BY <2>1 DEF LedgerTyped, RowsTyped, L!Rows, L!Registered, ARow
    <3>5. /\ row[r].referrals <= Cardinality(Done(r, CountOps))
          /\ row[r].compedReferrals <= Cardinality(Done(r, PassOps))
          /\ row[r].compedReferrals <= MaxReferrals
      BY DEF LedgerHolds, ReferralsCounted
    <3>6. L!Cardinality(J) = Cardinality(J)
      BY <2>2
    <3>. HIDE DEF J
    <3>7. /\ row[r].compedReferrals <= Cardinality(J) /\ row[r].referrals <= Cardinality(J)
      BY <3>2, <3>3, <3>4, <3>5
    <3>. QED
      BY <3>5, <3>6, <3>7 DEF J
  <2>5. L!Cardinality({p \in L!Rows : row[p].comped # "never"}) <= grants
    BY <2>1, <2>2 DEF Comped
  <2>. QED
    BY <2>1, <2>3, <2>4, <2>5 DEF CapHeld, L!CapHeld
<1>. QED
  BY <1>1, <1>2, <1>3, PTL DEF Spec

-----------------------------------------------------------------------------
(* The ledger: credits *)

CashOps == {"adjust", "set"}
Issuing == Events \cup {"bonus", "topup"}
Spending == {"spend", "escrow"}
Transfers == {"transfer_out", "transfer_in"}

\* What a step of a call about these subjects may do to balances.
Within(s, subjects) ==
  /\ s.op \in CashOps => s.tag \in Issuing \cup Spending \cup Transfers
  /\ s.op \in CashOps \cup {"insert", "create", "post"} => s.who \in subjects
  /\ s.op \in {"create", "post"} => s.who = Poster
  /\ s.op = "insert" => s.n >= 0
  /\ s.tag \in Transfers => s.op \in CashOps
  /\ s.tag = "transfer_in" => s.n >= 0

\* What is taken was checked, and nothing the call does comes in between; a
\* transfer takes first and gives as much last.
Taken(q) ==
  \A k \in DOMAIN q :
    /\ q[k].op = "set" => k = 1
    /\ q[k].op \in CashOps /\ q[k].n < 0 => \A l \in 1..k - 1 : q[l].op = "model"
    /\ q[k].tag = "transfer_out" =>
         k = 1 /\ Len(q) = 2 /\ q[2].tag = "transfer_in" /\ q[2].n = -q[1].n
    /\ q[k].tag = "transfer_in" => k = Len(q) /\ (k = 1 \/ (k = 2 /\ q[1].tag = "transfer_out"))

Budgeted(i) == Taken(todo[i]) /\ \A k \in DOMAIN todo[i] : Within(todo[i][k], busy[i])

\* A balance about to be written is the one read, and covers what it loses.
Sound(s) ==
  s.op \in CashOps /\ s.who \in quiet =>
    /\ s.op = "set" => s.seen = row[s.who].credits
    /\ s.n < 0 => L!Registered(s.who) /\ row[s.who].credits + s.n >= 0

Credits(p) == IF L!Registered(p) THEN row[p].credits ELSE 0

\* What was spent, less what spends of a negative number of units gave.
Net == spent - made

Books ==
  Participants \subseteq quiet =>
    /\ L!Balances + L!InFlight <= issued - Net
    /\ "transfer_in" \notin dropped => L!Balances + L!InFlight = issued - Net

StepsSound == \A i \in Invocations : \A k \in DOMAIN todo[i] : Sound(todo[i][k])

CreditsKept ==
  /\ issued \in Int /\ spent \in Int /\ made \in Int
  /\ \A i \in Invocations : Budgeted(i)
  /\ StepsSound
  /\ \A p \in quiet \cap Participants : Credits(p) >= 0
  /\ Books

Lead(q) == IF q # <<>> /\ q[1].tag = "transfer_in" THEN q[1].n ELSE 0

\* What a handler goes on with keeps to its subjects, and takes nothing that
\* was not checked.
LEMMA TakenFollows ==
  ASSUME NEW s \in ASteps, s # <<>>, Taken(s), NEW subjects,
         \A k \in DOMAIN s : Within(s[k], subjects),
         s[1].op = "grant" => s[1].tag \in Participants,
         NEW new \in ASteps, Follows(s[1], new), NEW q \in ASteps,
         Len(q) = Len(new) + Len(s) - 1,
         \A k \in 1..Len(q) : q[k] = IF k <= Len(new) THEN new[k] ELSE s[k - Len(new) + 1]
  PROVE  /\ Taken(q) /\ \A k \in DOMAIN q : Within(q[k], subjects)
         /\ Lead(q) = IF new = <<>> THEN IF s[1].tag = "transfer_out" THEN -s[1].n ELSE 0
                      ELSE Lead(s)
<1>1. /\ DOMAIN s = 1..Len(s) /\ Len(s) \in Nat \ {0} /\ DOMAIN q = 1..Len(q) /\ Len(q) \in Nat
      /\ Len(new) \in Nat /\ (Len(new) = 0 <=> new = <<>>) /\ (Len(q) = 0 <=> q = <<>>)
      /\ \A k \in 1..Len(s) : s[k].n \in Int
  <2>1. \A t \in Steps(Tags \cup Events) : t.n \in Int
    BY DEF Steps
  <2>. DEFINE S == Steps(Tags \cup Events)
  <2>2. s \in Seq(S) /\ q \in Seq(S) /\ new \in Seq(S)
    BY DEF ASteps
  <2>. HIDE DEF S
  <2>3. \A k \in 1..Len(s) : s[k] \in S
    BY <2>2
  <2>4. \A k \in 1..Len(s) : s[k].n \in Int
    BY <2>1, <2>3 DEF S
  <2>. QED
    BY <2>2, <2>4
<1>2. \A k \in 2..Len(s) :
        /\ s[k].op # "set" /\ s[k].tag # "transfer_out" /\ Within(s[k], subjects)
        /\ s[k].tag = "transfer_in" => k = 2 /\ Len(s) = 2 /\ s[1].tag = "transfer_out"
        /\ s[k].op \in CashOps /\ s[k].n < 0 => \A l \in 1..k - 1 : s[l].op = "model"
  <2>. TAKE k \in 2..Len(s)
  <2>1. k \in DOMAIN s /\ k # 1
    BY <1>1
  <2>2. /\ s[k].op # "set" /\ s[k].tag # "transfer_out"
        /\ s[k].tag = "transfer_in" => k = Len(s) /\ k = 2 /\ s[1].tag = "transfer_out"
    BY <2>1 DEF Taken
  <2>3. s[k].op \in CashOps /\ s[k].n < 0 => \A l \in 1..k - 1 : s[l].op = "model"
    BY <2>1 DEF Taken
  <2>. QED
    BY <2>1, <2>2, <2>3
<1>3. s[1].tag = "transfer_out" =>
        /\ Len(s) = 2 /\ s[2].tag = "transfer_in" /\ s[2].n = -s[1].n
  BY <1>1 DEF Taken
<1>4. s[1].tag \in Transfers => s[1].op \in CashOps
  BY <1>1 DEF Within
<1>5. CASE new = <<>>
  <2>1. Len(q) = Len(s) - 1 /\ \A k \in 1..Len(q) : q[k] = s[k + 1] /\ k + 1 \in 2..Len(s)
    BY <1>1, <1>5
  <2>2. \A k \in DOMAIN q : Within(q[k], subjects)
    BY <1>1, <1>2, <2>1
  <2>3. Taken(q)
    <3>1. ASSUME NEW k \in DOMAIN q, q[k].op \in CashOps, q[k].n < 0, NEW l \in 1..k - 1
          PROVE  q[l].op = "model"
      <4>1. q[k] = s[k + 1] /\ k + 1 \in 2..Len(s) /\ q[l] = s[l + 1] /\ l + 1 \in 1..(k + 1) - 1
        BY <1>1, <2>1
      <4>. QED
        BY <1>2, <3>1, <4>1
    <3>2. ASSUME NEW k \in DOMAIN q PROVE q[k].op # "set" /\ q[k].tag # "transfer_out"
      BY <1>1, <1>2, <2>1
    <3>3. ASSUME NEW k \in DOMAIN q, q[k].tag = "transfer_in" PROVE k = 1 /\ k = Len(q)
      BY <1>1, <1>2, <2>1, <3>3
    <3>. QED
      BY <3>1, <3>2, <3>3 DEF Taken
  <2>4. Lead(q) = IF s[1].tag = "transfer_out" THEN -s[1].n ELSE 0
    <3>1. CASE s[1].tag = "transfer_out"
      <4>1. q # <<>> /\ q[1] = s[2]
        BY <1>1, <1>3, <2>1, <3>1
      <4>. QED
        BY <1>3, <3>1, <4>1 DEF Lead
    <3>2. CASE s[1].tag # "transfer_out"
      <4>1. q # <<>> => q[1] = s[2] /\ 2 \in 2..Len(s)
        BY <1>1, <2>1
      <4>. QED
        BY <1>2, <3>2, <4>1 DEF Lead
    <3>. QED
      BY <3>1, <3>2
  <2>. QED
    BY <1>5, <2>2, <2>3, <2>4
<1>6. CASE s[1].op = "adjust" /\ new # <<>>
  <2>1. PICK t : /\ new = <<t>> /\ t.op = "set" /\ t.who = s[1].who /\ t.n = s[1].n
                 /\ t.tag = s[1].tag
    BY <1>6 DEF Follows
  <2>2. Len(q) = Len(s) /\ q[1] = t /\ \A k \in 2..Len(q) : q[k] = s[k]
    BY <1>1, <2>1
  <2>3. Within(t, subjects)
    <3>1. Within(s[1], subjects)
      BY <1>1
    <3>. QED
      BY <1>6, <2>1, <3>1 DEF Within, CashOps
  <2>4. \A k \in DOMAIN q : Within(q[k], subjects)
    BY <1>1, <1>2, <2>2, <2>3
  <2>5. Taken(q)
    <3>1. ASSUME NEW k \in 2..Len(q) PROVE ~(q[k].op \in CashOps /\ q[k].n < 0)
      <4>1. 1 \in 1..k - 1 /\ s[1].op # "model"
        BY <1>6
      <4>. QED
        BY <1>2, <2>2, <4>1
    <3>2. q[1].tag = "transfer_out" =>
            /\ Len(q) = 2 /\ q[2].tag = "transfer_in" /\ q[2].n = -q[1].n
      BY <1>3, <2>1, <2>2
    <3>3. ASSUME NEW k \in 2..Len(q)
          PROVE  /\ q[k].op # "set" /\ q[k].tag # "transfer_out"
                 /\ q[k].tag = "transfer_in" => k = 2 /\ Len(q) = 2 /\ q[1].tag = "transfer_out"
      BY <1>2, <2>1, <2>2
    <3>4. s[1].tag = "transfer_in" => Len(s) = 1
      BY <1>1 DEF Taken
    <3>5. ASSUME NEW k \in DOMAIN q
          PROVE  /\ q[k].op = "set" => k = 1
                 /\ q[k].tag = "transfer_out" =>
                      k = 1 /\ Len(q) = 2 /\ q[2].tag = "transfer_in" /\ q[2].n = -q[1].n
                 /\ q[k].tag = "transfer_in" =>
                      k = Len(q) /\ (k = 1 \/ (k = 2 /\ q[1].tag = "transfer_out"))
      <4>1. k = 1 \/ k \in 2..Len(q)
        BY <1>1
      <4>. QED
        BY <2>1, <2>2, <3>2, <3>3, <3>4, <4>1
    <3>6. ASSUME NEW k \in DOMAIN q, q[k].op \in CashOps, q[k].n < 0, NEW l \in 1..k - 1
          PROVE  q[l].op = "model"
      BY <1>1, <3>1, <3>6
    <3>. QED
      BY <3>5, <3>6 DEF Taken
  <2>6. Lead(q) = Lead(s)
    BY <1>1, <2>1, <2>2 DEF Lead
  <2>. QED
    BY <1>6, <2>4, <2>5, <2>6
<1>7. CASE s[1].op \in {"post", "redeem", "referral", "grant", "code"} /\ new # <<>>
  <2>1. \A k \in 1..Len(new) :
          /\ new[k].op \notin {"set", "insert", "create", "post"} /\ new[k].tag \notin Transfers
          /\ new[k].op \in CashOps => k = 1 /\ new[k].tag = "escrow" /\ new[k].who = Poster
                                      /\ s[1].op = "post"
    <3>0. {"escrow", "code", "bonus"} \cap Transfers = {}
      BY DEF Transfers
    <3>1. CASE s[1].op = "post"
      BY <1>7, <3>0, <3>1 DEF Follows, L!Adjust, L!Step
    <3>2. CASE s[1].op = "redeem"
      <4>1. PICK a, b : /\ new = <<a, b>> /\ a.tag = "code" /\ b.tag = "code"
                        /\ a.op = "comp" /\ b.op = "bump"
        BY <1>7, <3>2 DEF Follows, L!Grant, L!Step
      <4>. QED
        BY <3>0, <4>1 DEF CashOps
    <3>3. CASE s[1].op = "referral"
      BY <1>7, <3>0, <3>3 DEF Follows, L!Step, CashOps
    <3>4. CASE s[1].op = "grant"
      <4>1. s[1].tag \notin Transfers
        BY <3>4, LedgerConstants DEF Transfers
      <4>. QED
        BY <1>7, <3>4, <4>1 DEF Follows, L!Step, CashOps
    <3>5. CASE s[1].op = "code"
      <4>1. PICK a, b, d : /\ new = <<a, b, d>> /\ a.tag = "code" /\ b.tag = "code"
                           /\ d.tag = "code" /\ a.op = "comp" /\ b.op = "bump" /\ d.op = "mark"
        BY <1>7, <3>5 DEF Follows, L!Step
      <4>. QED
        BY <3>0, <4>1 DEF CashOps
    <3>. QED
      BY <1>7, <3>1, <3>2, <3>3, <3>4, <3>5
  <2>2. s[1].tag \notin Transfers /\ s[1].op \notin CashOps \cup {"model"}
    BY <1>4, <1>7 DEF CashOps
  <2>3. \A k \in 1..Len(new) : Within(new[k], subjects)
    <3>1. s[1].op = "post" => Poster \in subjects
      BY <1>1 DEF Within
    <3>. QED
      BY <2>1, <3>1 DEF Within, Spending, Transfers
  <2>4. \A k \in 2..Len(s) :
          /\ s[k].op # "set" /\ s[k].tag \notin Transfers /\ Within(s[k], subjects)
          /\ ~(s[k].op \in CashOps /\ s[k].n < 0)
    <3>1. ASSUME NEW k \in 2..Len(s) PROVE 1 \in 1..k - 1
      OBVIOUS
    <3>. QED
      BY <1>2, <2>2, <3>1 DEF Transfers
  <2>5. ASSUME NEW k \in 1..Len(q)
        PROVE  /\ Within(q[k], subjects) /\ q[k].op # "set" /\ q[k].tag \notin Transfers
               /\ q[k].op \in CashOps /\ q[k].n < 0 => k = 1
    <3>1. CASE k <= Len(new)
      <4>1. q[k] = new[k] /\ k \in 1..Len(new)
        BY <1>1, <3>1
      <4>. QED
        BY <2>1, <2>3, <4>1
    <3>2. CASE k > Len(new)
      <4>1. q[k] = s[k - Len(new) + 1] /\ k - Len(new) + 1 \in 2..Len(s)
        BY <1>1, <3>2
      <4>. QED
        BY <2>4, <4>1
    <3>. QED
      BY <1>1, <3>1, <3>2
  <2>6. Taken(q)
    <3>1. ASSUME NEW k \in DOMAIN q, k = 1 PROVE 1..k - 1 = {}
      BY <3>1
    <3>2. ASSUME NEW k \in DOMAIN q
          PROVE  /\ q[k].op # "set" /\ q[k].tag # "transfer_out" /\ q[k].tag # "transfer_in"
                 /\ q[k].op \in CashOps /\ q[k].n < 0 => \A l \in 1..k - 1 : q[l].op = "model"
      BY <1>1, <2>5, <3>1 DEF Transfers
    <3>. QED
      BY <3>2 DEF Taken
  <2>7. Lead(q) = 0 /\ Lead(s) = 0
    BY <1>1, <2>2, <2>5 DEF Lead, Transfers
  <2>. QED
    BY <1>1, <1>7, <2>5, <2>6, <2>7
<1>. QED
  BY <1>5, <1>6, <1>7 DEF Follows

\* Invocation i goes on with new before the rest of what it has to do.
GoesOn(i, new) ==
  /\ todo[i] # <<>> /\ L!Proceed(i, new) /\ Follows(L!Now(i), new) /\ UNCHANGED dropped

\* What a move of invocation i does to what is to be taken and given.
Flows(i, lead) ==
  /\ \A j \in Invocations \ {i} : todo'[j] = todo[j] /\ busy'[j] = busy[j]
  /\ Budgeted(i)' /\ Lead(todo'[i]) = lead /\ UNCHANGED quiet

LEMMA GoesOnFlows ==
  ASSUME LedgerTyped, NEW i \in Invocations, Budgeted(i), NEW new \in ASteps, GoesOn(i, new)
  PROVE  /\ Flows(i, IF new # <<>> THEN Lead(todo[i])
                     ELSE IF L!Now(i).tag = "transfer_out" THEN -L!Now(i).n ELSE 0)
         /\ \A k \in DOMAIN todo'[i] :
              \/ k \in 1..Len(new) /\ todo'[i][k] = new[k]
              \/ \E l \in DOMAIN todo[i] : l > 1 /\ todo'[i][k] = todo[i][l]
<1>1. PICK q \in ASteps :
        /\ Has(i, q) /\ Len(q) = Len(new) + Len(todo[i]) - 1
        /\ \A k \in 1..Len(q) :
             q[k] = IF k <= Len(new) THEN new[k] ELSE todo[i][k - Len(new) + 1]
  BY Proceeds DEF LedgerTyped, GoesOn
<1>2. /\ todo'[i] = q /\ UNCHANGED quiet
      /\ \A j \in Invocations \ {i} : todo'[j] = todo[j] /\ busy'[j] = busy[j]
      /\ busy'[i] = IF q = <<>> THEN {} ELSE busy[i]
  BY <1>1, HasFacts DEF LedgerTyped
<1>3. /\ todo[i] \in ASteps /\ L!Now(i) = todo[i][1] /\ todo[i] # <<>>
      /\ Len(todo[i]) \in Nat \ {0} /\ DOMAIN todo[i] = 1..Len(todo[i])
  BY FirstStep DEF LedgerTyped, L!Now, GoesOn
<1>4. todo[i][1].op = "grant" => todo[i][1].tag \in Participants
  BY <1>3, NowFacts
<1>5. Follows(todo[i][1], new)
  BY <1>3 DEF GoesOn
<1>6. /\ Taken(q) /\ \A k \in DOMAIN q : Within(q[k], busy[i])
      /\ Lead(q) = IF new = <<>>
           THEN IF todo[i][1].tag = "transfer_out" THEN -todo[i][1].n ELSE 0
           ELSE Lead(todo[i])
  BY <1>1, <1>3, <1>4, <1>5, TakenFollows, ZenonT(60) DEF Budgeted
<1>7. DOMAIN q = 1..Len(q) /\ Len(q) \in Nat /\ Len(new) \in Nat
  BY DEF ASteps
<1>8. Budgeted(i)'
  <2>1. Taken(todo'[i])
    BY <1>2, <1>6
  <2>2. ASSUME NEW k \in DOMAIN q PROVE Within(q[k], busy'[i])
    <3>1. q # <<>>
      BY <1>7
    <3>. QED
      BY <1>2, <1>6, <3>1
  <2>3. \A k \in DOMAIN todo'[i] : Within(todo'[i][k], busy'[i])
    BY <1>2, <2>2
  <2>. QED
    BY <2>1, <2>3 DEF Budgeted, Taken, Within
<1>9. ASSUME NEW k \in DOMAIN q
      PROVE  \/ k \in 1..Len(new) /\ q[k] = new[k]
             \/ \E l \in DOMAIN todo[i] : l > 1 /\ q[k] = todo[i][l]
  <2>1. CASE k <= Len(new)
    BY <1>1, <1>7, <2>1
  <2>2. CASE k > Len(new)
    <3>1. k - Len(new) + 1 \in DOMAIN todo[i] /\ k - Len(new) + 1 > 1
          /\ q[k] = todo[i][k - Len(new) + 1]
      BY <1>1, <1>3, <1>7, <2>2
    <3>. QED
      BY <3>1
  <2>. QED
    BY <1>7, <2>1, <2>2
<1>. QED
  BY <1>2, <1>3, <1>6, <1>8, <1>9 DEF Flows

\* A transfer that fails ends; what it took and did not give is dropped.
LEMMA FailFlows ==
  ASSUME LedgerTyped, NEW i \in Invocations, Budgeted(i), L!Fail(i)
  PROVE  /\ Flows(i, 0) /\ dropped \subseteq dropped'
         /\ L!Now(i).tag = "transfer_in" => "transfer_in" \in dropped'
         /\ \A k \in DOMAIN todo'[i] : \E l \in DOMAIN todo[i] : l > 1 /\ todo'[i][k] = todo[i][l]
<1>1. PICK q \in ASteps, m \in Nat \ {0} :
        /\ Has(i, q)
        /\ \A k \in 1..Len(q) : k + m <= Len(todo[i]) /\ q[k] = todo[i][k + m]
  BY Fails
<1>2. /\ todo'[i] = q /\ UNCHANGED quiet
      /\ \A j \in Invocations \ {i} : todo'[j] = todo[j] /\ busy'[j] = busy[j]
      /\ busy'[i] = IF q = <<>> THEN {} ELSE busy[i]
  BY <1>1, HasFacts DEF LedgerTyped
<1>3. PICK s \in ASteps :
        /\ s = todo[i] /\ s # <<>> /\ Head(s) = s[1] /\ L!Now(i) = s[1]
        /\ DOMAIN s = 1..Len(s) /\ Len(s) \in Nat \ {0}
  <2>1. todo[i] # <<>>
    BY Fails
  <2>. QED
    BY <2>1, FirstStep DEF LedgerTyped, L!Now
<1>4. DOMAIN q = 1..Len(q) /\ Len(q) \in Nat /\ (q # <<>> => 1 \in 1..Len(q))
  BY DEF ASteps
<1>5. \A k \in 1..Len(q) : k + m \in 2..Len(s) /\ q[k] = s[k + m]
  BY <1>1, <1>3, <1>4
<1>6. Taken(s) /\ \A k \in 1..Len(s) : Within(s[k], busy[i])
  BY <1>3 DEF Budgeted
<1>7. s[1].tag = "transfer_out" => q = <<>>
  <2>1. SUFFICES ASSUME s[1].tag = "transfer_out" PROVE q = <<>>
    OBVIOUS
  <2>2. s[1].op \in CashOps
    <3>1. 1 \in 1..Len(s)
      BY <1>3
    <3>. QED
      BY <1>6, <2>1, <3>1 DEF Within, Transfers
  <2>3. L!Recover(s) = <<>>
    BY <1>3, <2>1, <2>2 DEF L!Recover, CashOps
  <2>4. \E left \in {<<>>, L!Recover(s)} : L!Continue(i, left)
    BY <1>3 DEF L!Fail
  <2>5. L!Continue(i, <<>>)
    BY <2>3, <2>4
  <2>. QED
    BY <1>2, <2>5 DEF L!Continue, LedgerTyped, QueuesTyped
<1>8. ASSUME NEW k \in 1..Len(q)
      PROVE  /\ Within(q[k], busy[i]) /\ q[k].op # "set" /\ q[k].tag \notin Transfers
             /\ q[k].op \in CashOps /\ q[k].n < 0 => \A l \in 1..k - 1 : q[l].op = "model"
  <2>1. k + m \in DOMAIN s /\ k + m # 1 /\ q[k] = s[k + m]
    BY <1>3, <1>5
  <2>2. q[k].op # "set" /\ q[k].tag # "transfer_out" /\ Within(q[k], busy[i])
    BY <1>3, <1>6, <2>1 DEF Taken
  <2>3. q[k].tag # "transfer_in"
    <3>1. q[k].tag = "transfer_in" => s[1].tag = "transfer_out"
      BY <1>6, <2>1 DEF Taken
    <3>. QED
      BY <1>7, <3>1, <1>4 DEF ASteps
  <2>4. ASSUME q[k].op \in CashOps, q[k].n < 0, NEW l \in 1..k - 1 PROVE q[l].op = "model"
    <3>1. l \in 1..Len(q) /\ q[l] = s[l + m] /\ l + m \in 1..(k + m) - 1
      BY <1>4, <1>5
    <3>2. \A h \in 1..(k + m) - 1 : s[h].op = "model"
      BY <1>6, <2>1, <2>4 DEF Taken
    <3>. QED
      BY <3>1, <3>2
  <2>. QED
    BY <2>2, <2>3, <2>4 DEF Transfers
<1>9. Taken(q) /\ Lead(q) = 0
  <2>1. Lead(q) = 0
    BY <1>4, <1>8 DEF Lead, Transfers
  <2>2. \A k \in DOMAIN q : q[k].tag \notin {"transfer_out", "transfer_in"}
    BY <1>4, <1>8 DEF Transfers
  <2>. QED
    BY <1>4, <1>8, <2>1, <2>2 DEF Taken
<1>10. Budgeted(i)'
  <2>1. \A k \in DOMAIN q : Within(q[k], busy'[i])
    <3>1. DOMAIN q # {} => q # <<>>
      BY <1>4
    <3>. QED
      BY <1>2, <1>4, <1>8, <3>1
  <2>2. Taken(todo'[i]) /\ \A k \in DOMAIN todo'[i] : Within(todo'[i][k], busy'[i])
    BY <1>2, <1>9, <2>1
  <2>. QED
    BY <2>2 DEF Budgeted, Taken, Within
<1>11. dropped' = dropped \cup L!Half(s)
  BY <1>3 DEF L!Fail
<1>12. L!Now(i).tag = "transfer_in" => "transfer_in" \in L!Half(s)
  BY <1>3 DEF L!Half
<1>13. ASSUME NEW k \in DOMAIN todo'[i]
       PROVE  \E l \in DOMAIN todo[i] : l > 1 /\ todo'[i][k] = todo[i][l]
  <2>1. k \in 1..Len(q) /\ k + m \in 2..Len(s) /\ q[k] = s[k + m]
    BY <1>2, <1>4, <1>5
  <2>2. k + m \in DOMAIN todo[i] /\ k + m > 1 /\ todo'[i][k] = todo[i][k + m]
    BY <1>2, <1>3, <2>1
  <2>. QED
    BY <2>2
<1>. QED
  BY <1>2, <1>9, <1>10, <1>11, <1>12, <1>13 DEF Flows

\* A call opens with steps about its subjects, and what it is to take is there.
Opens(i) ==
  \E subjects : \E steps \in ASteps :
    /\ Opened(i, subjects, steps) /\ UNCHANGED <<issued, spent, made>>
    /\ Taken(steps) /\ Lead(steps) = 0
    /\ \A k \in 1..Len(steps) : Within(steps[k], subjects) /\ Sound(steps[k])

LEMMA OpenBegun ==
  ASSUME NEW i \in Invocations, NEW subjects, NEW steps \in ASteps,
         L!Begin(i, subjects, steps), UNCHANGED <<row, redemptions, dropped>>,
         UNCHANGED L!history,
         \A k \in 1..Len(steps) :
           /\ steps[k].tag # "transfer_out" => steps[k].tag # "transfer_in"
           /\ Within(steps[k], subjects) /\ Sound(steps[k]) /\ steps[k].op # "set"
           /\ steps[k].op \in CashOps /\ steps[k].n < 0 =>
                \A l \in 1..k - 1 : steps[l].op = "model"
           /\ steps[k].tag # "transfer_out"
  PROVE  Opens(i)
<1>1. DOMAIN steps = 1..Len(steps) /\ Len(steps) \in Nat /\ (steps # <<>> => 1 \in 1..Len(steps))
  BY DEF ASteps
<1>2. Taken(steps) /\ Lead(steps) = 0
  BY <1>1 DEF Taken, Lead
<1>3. Opened(i, subjects, steps)
  BY OpenedBegins DEF L!history
<1>. QED
  BY <1>2, <1>3 DEF Opens, L!history

LEMMA TransferOpensSound ==
  ASSUME LedgerTyped, NEW i \in Invocations, NEW p \in Participants, NEW q \in Participants,
         NEW n \in Amounts, L!Transfer(i, p, q, n)
  PROVE  Opens(i)
<1>. DEFINE out == L!Step("adjust", p, -n, "transfer_out")
            in == L!Step("adjust", q, n, "transfer_in")
<1>1. n \in Int /\ n > 0 /\ {"transfer_out", "transfer_in"} \subseteq Tags
  BY LedgerConstants DEF Tags
<1>2. L!TransferSteps(p, q, n) = <<out, in>>
  BY DEF L!TransferSteps, L!Adjust
<1>3. L!Registered(p) /\ row[p].credits >= n /\ row[p].credits \in Int
  BY DEF L!Transfer, L!Registered, LedgerTyped, RowsTyped, ARow
<1>4. /\ out.op = "adjust" /\ out.who = p /\ out.n = -n /\ out.tag = "transfer_out"
      /\ in.op = "adjust" /\ in.who = q /\ in.n = n /\ in.tag = "transfer_in"
  BY DEF L!Step
<1>5. out \in Steps(Tags \cup Events) /\ in \in Steps(Tags \cup Events)
  BY <1>1 DEF L!Step, Steps, Ops
<1>. HIDE DEF out, in
<1>6. <<out, in>> \in ASteps
  BY <1>5 DEF ASteps
<1>7. Taken(<<out, in>>) /\ Lead(<<out, in>>) = 0
  BY <1>1, <1>4 DEF Taken, Lead, CashOps
<1>8. /\ Within(out, {p, q}) /\ Within(in, {p, q}) /\ Sound(out) /\ Sound(in)
  BY <1>1, <1>3, <1>4 DEF Within, Sound, CashOps, Transfers
<1>9. Opened(i, {p, q}, <<out, in>>) /\ UNCHANGED <<issued, spent, made>>
  BY <1>2, OpenedBegins DEF L!Transfer, L!history
<1>. QED
  BY <1>6, <1>7, <1>8, <1>9 DEF Opens

LEMMA SpendOpensSound ==
  ASSUME LedgerTyped, NEW i \in Invocations, NEW p \in Participants, NEW service \in Services,
         NEW u \in Units, NEW cap \in WarrantCaps, L!Spend(i, p, service, u, cap)
  PROVE  Opens(i)
<1>. DEFINE cost == L!SERVICE_COSTS[service] * u
            model == L!Step("model", p, 0, "spend")
            pay == L!Step("adjust", p, -cost, "spend")
            before == IF service = "generate" THEN <<model>> ELSE <<>>
            after == IF L!IsComped(p) THEN <<>> ELSE <<pay>>
<1>1. cost \in Int /\ -cost \in Int /\ "spend" \in Tags
  BY CostsAreNumbers DEF Tags
<1>2. L!SpendSteps(p, service, cost) = before \o after
  BY DEF L!SpendSteps, L!Adjust
<1>3. L!Registered(p) /\ row[p].credits \in Int /\ (L!IsComped(p) \/ row[p].credits >= cost)
  BY DEF L!Spend, L!Registered, LedgerTyped, RowsTyped, ARow
<1>4. /\ model.op = "model" /\ model.who = p /\ model.tag = "spend"
      /\ pay.op = "adjust" /\ pay.who = p /\ pay.tag = "spend" /\ pay.n = -cost
  BY DEF L!Step
<1>5. model \in Steps(Tags \cup Events) /\ pay \in Steps(Tags \cup Events)
  BY <1>1 DEF L!Step, Steps, Ops
<1>. HIDE DEF cost, model, pay
<1>6. before \o after \in ASteps /\ \A k \in 1..Len(before \o after) :
        \/ (before \o after)[k] = model
        \/ ~L!IsComped(p) /\ (before \o after)[k] = pay
             /\ \A l \in 1..k - 1 : (before \o after)[l] = model
  <2>. DEFINE S == Steps(Tags \cup Events)
  <2>1. before \in {<<>>, <<model>>} /\ after \in {<<>>, <<pay>>}
        /\ (after # <<>> => ~L!IsComped(p))
    OBVIOUS
  <2>2. <<>> \in Seq(S) /\ <<model>> \in Seq(S) /\ <<pay>> \in Seq(S)
    BY <1>5
  <2>. HIDE DEF before, after, S
  <2>3. before \in Seq(S) /\ after \in Seq(S)
    BY <2>1, <2>2
  <2>4. /\ Len(before) \in 0..1 /\ (Len(before) = 1 => before[1] = model)
        /\ Len(after) \in 0..1 /\ (Len(after) = 1 => after[1] = pay /\ ~L!IsComped(p))
    BY <2>1
  <2>5. /\ before \o after \in Seq(S) /\ Len(before \o after) = Len(before) + Len(after)
        /\ \A k \in 1..Len(before) + Len(after) :
             (before \o after)[k] = IF k <= Len(before) THEN before[k] ELSE after[k - Len(before)]
    BY <2>3
  <2>. DEFINE q == before \o after
  <2>. HIDE DEF q
  <2>6. /\ Len(q) = Len(before) + Len(after) /\ q \in Seq(S)
        /\ \A k \in 1..Len(before) + Len(after) :
             q[k] = IF k <= Len(before) THEN before[k] ELSE after[k - Len(before)]
    BY <2>5 DEF q
  <2>7. ASSUME NEW k \in 1..Len(q)
        PROVE  q[k] = model \/ (~L!IsComped(p) /\ q[k] = pay /\ \A l \in 1..k - 1 : q[l] = model)
    <3>1. CASE k <= Len(before)
      BY <2>4, <2>6, <3>1
    <3>2. CASE k > Len(before)
      <4>1. Len(after) = 1 /\ k = Len(before) + 1 /\ q[k] = pay /\ ~L!IsComped(p)
        BY <2>4, <2>6, <3>2
      <4>2. \A l \in 1..k - 1 : q[l] = model
        BY <2>4, <2>6, <4>1
      <4>. QED
        BY <4>1, <4>2
    <3>. QED
      BY <2>4, <2>6, <3>1, <3>2
  <2>. QED
    BY <2>6, <2>7 DEF ASteps, S, q
<1>7. /\ Within(model, {p}) /\ Sound(model)
      /\ Within(pay, {p}) /\ (~L!IsComped(p) => Sound(pay))
  BY <1>1, <1>3, <1>4 DEF Within, Sound, CashOps, Transfers, Spending
<1>8. L!Begin(i, {p}, before \o after)
  <2>1. L!Begin(i, {p}, L!SpendSteps(p, service, cost))
    BY DEF L!Spend, cost
  <2>. QED
    BY <1>2, <2>1
<1>9. UNCHANGED <<row, redemptions, dropped>> /\ UNCHANGED L!history
  BY DEF L!Spend, L!history
<1>. DEFINE steps == before \o after
<1>. HIDE DEF before, after
<1>10. ASSUME NEW k \in 1..Len(steps)
       PROVE  /\ steps[k].tag = "spend"
              /\ Within(steps[k], {p}) /\ Sound(steps[k]) /\ steps[k].op # "set"
              /\ steps[k].op \in CashOps /\ steps[k].n < 0 =>
                   \A l \in 1..k - 1 : steps[l].op = "model"
  BY <1>4, <1>6, <1>7 DEF CashOps
<1>. HIDE DEF steps
<1>11. steps \in ASteps /\ L!Begin(i, {p}, steps)
  BY <1>6, <1>8 DEF steps
<1>. QED
  BY <1>9, <1>10, <1>11, OpenBegun

LEMMA PracticeOpensSound ==
  ASSUME LedgerTyped, NEW i \in Invocations, L!Practice(i)
  PROVE  Opens(i)
<1>. DEFINE floor == L!Step("create", Poster, L!PRACTICE_FLOOR, "topup")
            top == L!Step("adjust", Poster, L!PRACTICE_FLOOR - row[Poster].credits, "topup")
            post == L!Step("post", Poster, L!PRACTICE_REWARD, "escrow")
            steps == Append(L!FloorSteps, post)
            low == L!Registered(Poster) /\ row[Poster].credits < L!PRACTICE_FLOOR
<1>1. {"topup", "escrow"} \subseteq Tags /\ L!PRACTICE_FLOOR \in Int /\ L!PRACTICE_REWARD \in Int
  BY PartsAreNumbers DEF Tags
<1>2. L!Registered(Poster) => row[Poster].credits \in Int
  BY LedgerConstants DEF LedgerTyped, RowsTyped, ARow, L!Registered
<1>3. /\ floor \in Steps(Tags \cup Events) /\ post \in Steps(Tags \cup Events)
      /\ low => top \in Steps(Tags \cup Events)
  BY <1>1, <1>2, LedgerConstants DEF L!Step, Steps, Ops
<1>4. /\ floor.op = "create" /\ floor.who = Poster /\ floor.tag = "topup"
      /\ post.op = "post" /\ post.who = Poster /\ post.tag = "escrow"
      /\ top.op = "adjust" /\ top.who = Poster /\ top.tag = "topup"
      /\ low => top.n > 0
  BY <1>1, <1>2 DEF L!Step
<1>5. /\ Within(floor, {Poster}) /\ Sound(floor) /\ Within(post, {Poster}) /\ Sound(post)
      /\ low => Within(top, {Poster}) /\ Sound(top)
  <2>1. low => top.n \in Int
    BY <1>1, <1>2 DEF L!Step
  <2>. HIDE DEF floor, top, post, low
  <2>2. low => Within(top, {Poster}) /\ Sound(top)
    BY <1>4, <2>1 DEF Within, Sound, CashOps, Transfers, Issuing
  <2>. QED
    BY <1>4, <2>2 DEF Within, Sound, CashOps, Transfers
<1>6. L!FloorSteps = <<floor>> \/ L!FloorSteps = <<>> \/ (low /\ L!FloorSteps = <<top>>)
  BY DEF L!FloorSteps, L!Adjust
<1>. HIDE DEF floor, top, post, low
<1>7. steps \in ASteps /\ \A k \in 1..Len(steps) :
        steps[k] = floor \/ steps[k] = post \/ (low /\ steps[k] = top)
  <2>. DEFINE S == Steps(Tags \cup Events)
              F0 == L!FloorSteps
  <2>1. F0 \in {<<floor>>, <<>>} \/ (low /\ F0 = <<top>>)
    BY <1>6
  <2>2. <<>> \in Seq(S) /\ <<floor>> \in Seq(S) /\ (low => <<top>> \in Seq(S)) /\ post \in S
    BY <1>3
  <2>. HIDE DEF F0, S
  <2>3. F0 \in Seq(S) /\ Len(F0) \in 0..1
        /\ (Len(F0) = 1 => F0[1] = floor \/ (low /\ F0[1] = top))
    <3>1. CASE F0 = <<floor>>
      BY <2>2, <3>1
    <3>2. CASE F0 = <<>>
      BY <2>2, <3>2
    <3>3. CASE low /\ F0 = <<top>>
      BY <2>2, <3>3
    <3>. QED
      BY <2>1, <3>1, <3>2, <3>3
  <2>4. /\ Append(F0, post) \in Seq(S) /\ Len(Append(F0, post)) = Len(F0) + 1
        /\ \A k \in 1..Len(F0) + 1 :
             Append(F0, post)[k] = IF k <= Len(F0) THEN F0[k] ELSE post
    BY <2>2, <2>3
  <2>. QED
    BY <2>3, <2>4 DEF ASteps, S, F0
<1>8. L!Begin(i, {Poster}, steps)
  BY DEF L!Practice, post
<1>9. UNCHANGED <<row, redemptions, dropped>> /\ UNCHANGED L!history
  BY DEF L!Practice, L!history
<1>. HIDE DEF steps
<1>10. ASSUME NEW k \in 1..Len(steps)
       PROVE  /\ steps[k].tag \in {"topup", "escrow"}
              /\ Within(steps[k], {Poster}) /\ Sound(steps[k]) /\ steps[k].op # "set"
              /\ steps[k].op \in CashOps => ~(steps[k].n < 0)
  <2>1. CASE steps[k] = floor \/ steps[k] = post
    BY <1>4, <1>5, <2>1 DEF CashOps
  <2>2. CASE low /\ steps[k] = top
    <3>1. top.n > 0 /\ top.n \in Int
      BY <1>1, <1>2, <1>4, <2>2 DEF top, low, L!Step
    <3>. QED
      BY <1>4, <1>5, <2>2, <3>1
  <2>. QED
    BY <1>7, <2>1, <2>2
<1>. QED
  BY <1>7, <1>8, <1>9, <1>10, OpenBegun

LEMMA DeliverOpensSound ==
  ASSUME NEW i \in Invocations, NEW e \in Events, L!Deliver(i, e)
  PROVE  Opens(i)
<1>. DEFINE n == L!UsdCentsToCredits(Bought[e].cents)
            s == L!Adjust(Bought[e].who, n, e)
<1>1. n \in Int /\ n >= 0
  BY LedgerConstants, PartsAreNumbers
<1>. HIDE DEF n
<1>2. /\ s \in Steps(Tags \cup Events)
      /\ s.op = "adjust" /\ s.who = Bought[e].who /\ s.n = n /\ s.tag = e
  BY <1>1, LedgerConstants DEF L!Adjust, L!Step, Steps, Ops
<1>3. e \notin Transfers
  BY LedgerConstants DEF Transfers
<1>4. L!Begin(i, {Bought[e].who}, <<s>>) /\ UNCHANGED <<row, redemptions, dropped>>
      /\ UNCHANGED L!history
  BY DEF L!Deliver, L!PurchaseSteps, L!history, n
<1>5. Within(s, {Bought[e].who}) /\ Sound(s)
  BY <1>1, <1>2, <1>3 DEF Within, Sound, CashOps, Issuing, Transfers
<1>. HIDE DEF s
<1>6. <<s>> \in ASteps
  BY <1>2 DEF ASteps
<1>. DEFINE steps == <<s>>
<1>7. ASSUME NEW k \in 1..Len(steps)
      PROVE  /\ steps[k].tag \notin Transfers
             /\ Within(steps[k], {Bought[e].who}) /\ Sound(steps[k]) /\ steps[k].op # "set"
             /\ ~(steps[k].n < 0)
  <2>1. steps[k] = s
    OBVIOUS
  <2>. QED
    BY <1>1, <1>2, <1>3, <1>5, <2>1
<1>8. steps \in ASteps /\ L!Begin(i, {Bought[e].who}, steps)
  BY <1>4, <1>6
<1>. HIDE DEF steps
<1>. QED
  BY <1>4, <1>7, <1>8, OpenBegun DEF Transfers

LEMMA RegisterOpensSound ==
  ASSUME LedgerTyped, NEW i \in Invocations, NEW p \in Participants,
         NEW r \in Participants \cup {None}, NEW promo \in BOOLEAN, NEW counted \in BOOLEAN,
         L!Register(i, p, r, promo, counted)
  PROVE  Opens(i)
<1>1. PICK n \in Int, subjects \in SUBSET (Participants \cup {Code}) :
        /\ n >= 0 /\ Registers(i, subjects, p, r, promo)
        /\ Opened(i, subjects, Signup(p, n, r, promo)) /\ UNCHANGED <<issued, spent, made>>
        /\ Signup(p, n, r, promo) \in ASteps
  BY RegisterOpens
<1>. DEFINE insert == L!Step("insert", p, n, r)
            redeem == L!Step("redeem", p, 0, "code")
            bonus == L!Adjust(r, L!REFERRAL_JOIN_BONUS, "bonus")
            referral == L!Step("referral", r, 0, "bonus")
            pass == L!Step("grant", r, 0, p)
<1>2. Signup(p, n, r, promo)
        = IF promo
            THEN IF r = None THEN <<insert, redeem>>
                 ELSE <<insert, redeem, bonus, referral, pass>>
            ELSE IF r = None THEN <<insert>> ELSE <<insert, bonus, referral, pass>>
  BY DEF Signup
<1>3. p \in subjects /\ (r # None => r \in subjects)
  BY <1>1, LedgerConstants DEF Registers
<1>4. r \notin Transfers /\ p \notin Transfers
  BY LedgerConstants DEF Transfers
<1>5. /\ insert.op = "insert" /\ insert.who = p /\ insert.n = n /\ insert.tag = r
      /\ redeem.op = "redeem" /\ redeem.tag = "code"
      /\ bonus.op = "adjust" /\ bonus.who = r /\ bonus.n = L!REFERRAL_JOIN_BONUS
      /\ bonus.tag = "bonus"
      /\ referral.op = "referral" /\ referral.tag = "bonus"
      /\ pass.op = "grant" /\ pass.tag = p
  BY DEF L!Step, L!Adjust
<1>6. ASSUME NEW s, s \in {insert, redeem} \/ (r # None /\ s \in {bonus, referral, pass})
      PROVE  /\ Within(s, subjects) /\ Sound(s) /\ s.op # "set" /\ s.tag \notin Transfers
             /\ ~(s.op \in CashOps /\ s.n < 0)
  <2>1. s.op = "insert" => s.who = p /\ s.n >= 0
    BY <1>1, <1>5, <1>6
  <2>2. s.op \in CashOps => s.who \in subjects /\ ~(s.n < 0) /\ s.tag = "bonus"
    <3>1. L!REFERRAL_JOIN_BONUS \in Nat
      BY PartsAreNumbers
    <3>2. s.op \in CashOps => s.n = L!REFERRAL_JOIN_BONUS /\ s.who = r /\ r # None
      BY <1>5, <1>6 DEF CashOps
    <3>. QED
      BY <1>3, <1>5, <1>6, <3>1, <3>2 DEF CashOps
  <2>3. s.op \notin {"set", "create", "post"} /\ s.tag \notin Transfers
    BY <1>4, <1>5, <1>6 DEF Transfers
  <2>. QED
    BY <1>3, <2>1, <2>2, <2>3 DEF Within, Sound, Issuing, Transfers
<1>. DEFINE steps == Signup(p, n, r, promo)
<1>7. ASSUME NEW k \in 1..Len(steps)
      PROVE  steps[k] \in {insert, redeem} \/ (r # None /\ steps[k] \in {bonus, referral, pass})
  <2>. HIDE DEF insert, redeem, bonus, referral, pass
  <2>. QED
    BY <1>2
<1>. HIDE DEF steps
<1>8. ASSUME NEW k \in 1..Len(steps)
      PROVE  /\ Within(steps[k], subjects) /\ Sound(steps[k]) /\ steps[k].op # "set"
             /\ steps[k].tag \notin Transfers /\ ~(steps[k].op \in CashOps /\ steps[k].n < 0)
  BY <1>6, <1>7
<1>9. DOMAIN steps = 1..Len(steps) /\ Len(steps) \in Nat /\ (steps # <<>> => 1 \in 1..Len(steps))
  BY <1>1 DEF ASteps, steps
<1>10. Taken(steps) /\ Lead(steps) = 0
  <2>1. \A k \in DOMAIN steps : steps[k].tag \notin {"transfer_out", "transfer_in"}
    BY <1>8, <1>9 DEF Transfers
  <2>. QED
    BY <1>8, <1>9, <2>1 DEF Taken, Lead
<1>11. Opened(i, subjects, steps) /\ steps \in ASteps
  BY <1>1 DEF steps
<1>. QED
  BY <1>1, <1>8, <1>10, <1>11 DEF Opens

\* No balance moves, or that of p alone, to m.
Stays ==
  /\ \A p \in Participants :
       Credits(p)' = Credits(p) /\ (L!Registered(p)' <=> L!Registered(p))
  /\ UNCHANGED <<issued, spent, made>>

Becomes(p, m) ==
  /\ L!Registered(p)' /\ Credits(p)' = m
  /\ \A q \in Participants \ {p} :
       Credits(q)' = Credits(q) /\ (L!Registered(q)' <=> L!Registered(q))

Recorded(s) ==
  /\ issued' = IF s.tag \in Issuing THEN issued + s.n ELSE issued
  /\ spent' = IF s.tag \in Spending /\ s.n < 0 THEN spent - s.n ELSE spent
  /\ made' = IF s.tag \in Spending /\ s.n > 0 THEN made + s.n ELSE made

\* A handler reads, or does what no balance hangs on.
Reads(i) ==
  \E new \in ASteps :
    /\ GoesOn(i, new) /\ Stays
    /\ new = <<>> => L!Now(i).op \notin CashOps
    /\ L!Now(i).op \in {"adjust", "post"} => UNCHANGED row
    /\ L!Now(i).op = "post" => L!Registered(Poster) /\ row[Poster].credits >= L!PRACTICE_REWARD

\* It writes the balance it has read, or adds to it on disk.
Writes(i) ==
  \E m \in Int :
    /\ GoesOn(i, <<>>) /\ L!Registered(L!Now(i).who) /\ Becomes(L!Now(i).who, m)
    /\ \/ L!Now(i).op = "set" /\ m = L!Now(i).seen + L!Now(i).n
       \/ L!Now(i).op = "adjust" /\ m = row[L!Now(i).who].credits + L!Now(i).n
    /\ Recorded(L!Now(i))

\* It enters a row with credits issued for it.
Enters(i) ==
  \E m \in Int :
    /\ GoesOn(i, <<>>) /\ ~L!Registered(L!Now(i).who) /\ Becomes(L!Now(i).who, m)
    /\ \/ L!Now(i).op = "insert" /\ m = L!Now(i).n
       \/ L!Now(i).op = "create" /\ m = L!PRACTICE_FLOOR
    /\ issued' = issued + m /\ UNCHANGED <<spent, made>>

LEMMA RowStays ==
  ASSUME RowsTyped, NEW p \in Participants, NEW r \in ARow, row[p] \in ARow,
         row' = [row EXCEPT ![p] = r], r.credits = row[p].credits
  PROVE  \A q \in Participants : Credits(q)' = Credits(q) /\ (L!Registered(q)' <=> L!Registered(q))
<1>1. r # None /\ row[p] # None
  BY LedgerConstants DEF ARow
<1>2. row'[p] = r /\ \A q \in Participants \ {p} : row'[q] = row[q]
  BY DEF RowsTyped
<1>. QED
  BY <1>1, <1>2 DEF Credits, L!Registered

LEMMA RowBecomes ==
  ASSUME RowsTyped, NEW p \in Participants, NEW r \in ARow, row' = [row EXCEPT ![p] = r]
  PROVE  Becomes(p, r.credits)
<1>1. r # None
  BY LedgerConstants DEF ARow
<1>2. row'[p] = r /\ \A q \in Participants \ {p} : row'[q] = row[q]
  BY DEF RowsTyped
<1>. QED
  BY <1>1, <1>2 DEF Credits, L!Registered, Becomes

LEMMA SameCredits ==
  ASSUME NEW r \in ARow, NEW comped \in {"now", "past"}, NEW n \in Nat
  PROVE  /\ [r EXCEPT !.comped = comped] \in ARow
         /\ [r EXCEPT !.comped = comped].credits = r.credits
         /\ [r EXCEPT !.referrals = n] \in ARow /\ [r EXCEPT !.referrals = n].credits = r.credits
         /\ [r EXCEPT !.compedReferrals = n] \in ARow
         /\ [r EXCEPT !.compedReferrals = n].credits = r.credits
BY DEF ARow

LEMMA OtherCredits ==
  ASSUME NEW r \in ARow, NEW m \in Int
  PROVE  [r EXCEPT !.credits = m] \in ARow /\ [r EXCEPT !.credits = m].credits = m
BY DEF ARow

\* Rows may change without a balance changing.
LEMMA OtherColumns ==
  ASSUME LedgerTyped, NEW i \in Invocations,
         L!ApplyComp(i) \/ L!ReferralWrite(i) \/ L!ReferralDisk(i) \/ L!MarkReferral(i)
  PROVE  Stays
<1>. DEFINE p == L!Now(i).who
<1>1. todo[i] # <<>> /\ L!Now(i).op \in {"comp", "mark"} \cup CountOps
  BY DEF L!ApplyComp, L!ReferralWrite, L!ReferralDisk, L!MarkReferral, L!Due, L!Idle, L!Now,
         CountOps
<1>2. p \in Participants /\ row[p] \in ARow /\ row[p].referrals \in Nat
  BY <1>1, NowFacts DEF ARow, PassOps
<1>3. L!Now(i).op \in {"count", "mark"} => L!Now(i).n + 1 \in Nat
  BY <1>1, NowFacts DEF LedgerTyped, Placed, Fits
<1>4. \/ UNCHANGED row
      \/ row' = [row EXCEPT ![p] = [row[p] EXCEPT !.comped = "now"]]
      \/ \E n \in Nat : \/ row' = [row EXCEPT ![p] = [row[p] EXCEPT !.referrals = n]]
                        \/ row' = [row EXCEPT ![p] = [row[p] EXCEPT !.compedReferrals = n]]
  <2>1. CASE L!ApplyComp(i)
    BY <2>1 DEF L!ApplyComp
  <2>2. CASE L!ReferralWrite(i)
    <3>1. L!Now(i).op = "count"
      BY <2>2 DEF L!ReferralWrite, L!Due, L!Now
    <3>2. row' = [row EXCEPT ![p] = [row[p] EXCEPT !.referrals = L!Now(i).n + 1]]
      BY <2>2 DEF L!ReferralWrite
    <3>. QED
      BY <1>3, <3>1, <3>2
  <2>3. CASE L!ReferralDisk(i)
    <3>1. row' = [row EXCEPT ![p] = [row[p] EXCEPT !.referrals = row[p].referrals + 1]]
      BY <2>3 DEF L!ReferralDisk
    <3>2. row[p].referrals + 1 \in Nat
      BY <1>2
    <3>. QED
      BY <3>1, <3>2
  <2>4. CASE L!MarkReferral(i)
    <3>1. L!Now(i).op = "mark"
      BY <2>4 DEF L!MarkReferral, L!Due, L!Now
    <3>2. row' = [row EXCEPT ![p] = [row[p] EXCEPT !.compedReferrals = L!Now(i).n + 1]]
      BY <2>4 DEF L!MarkReferral
    <3>. QED
      BY <1>3, <3>1, <3>2
  <2>. QED
    BY <2>1, <2>2, <2>3, <2>4
<1>5. UNCHANGED <<issued, spent, made>>
  BY DEF L!ApplyComp, L!ReferralWrite, L!ReferralDisk, L!MarkReferral, L!history
<1>. HIDE DEF p
<1>6. \A q \in Participants : Credits(q)' = Credits(q) /\ (L!Registered(q)' <=> L!Registered(q))
  <2>1. CASE UNCHANGED row
    BY <2>1 DEF Credits, L!Registered
  <2>2. CASE row' = [row EXCEPT ![p] = [row[p] EXCEPT !.comped = "now"]]
    BY <1>2, <2>2, SameCredits, RowStays DEF LedgerTyped
  <2>3. ASSUME NEW n \in Nat, \/ row' = [row EXCEPT ![p] = [row[p] EXCEPT !.referrals = n]]
                              \/ row' = [row EXCEPT ![p] = [row[p] EXCEPT !.compedReferrals = n]]
        PROVE  \A q \in Participants :
                 Credits(q)' = Credits(q) /\ (L!Registered(q)' <=> L!Registered(q))
    BY <1>2, <2>3, SameCredits, RowStays DEF LedgerTyped
  <2>. QED
    BY <1>4, <2>1, <2>2, <2>3
<1>. QED
  BY <1>5, <1>6 DEF Stays

\* A step of the ledger, by what it does to balances.
LEMMA CashStep ==
  ASSUME LedgerTyped, \A i \in Invocations : Budgeted(i), L!Next
  PROVE  \/ Stays /\ UNCHANGED <<todo, busy, quiet, dropped>>
         \/ \E i \in Invocations :
              \/ Reads(i) \/ Writes(i) \/ Enters(i)
              \/ Opens(i) /\ UNCHANGED dropped
              \/ L!Fail(i) /\ Stays
<1>. USE DEF L!Due, L!Idle
<1>0. RowsTyped
  BY DEF LedgerTyped
<1>1. ASSUME UNCHANGED row PROVE
        \A p \in Participants : Credits(p)' = Credits(p) /\ (L!Registered(p)' <=> L!Registered(p))
  BY <1>1 DEF Credits, L!Registered
<1>2. ASSUME NEW i \in Invocations, L!Call(i)
      PROVE  \/ Stays /\ UNCHANGED <<todo, busy, quiet, dropped>>
             \/ Opens(i) /\ UNCHANGED dropped
  <2>1. ASSUME NEW p \in Participants, NEW q \in Participants, NEW n \in Amounts,
               L!Transfer(i, p, q, n)
        PROVE  Opens(i) /\ UNCHANGED dropped
    BY <2>1, TransferOpensSound DEF L!Transfer
  <2>2. ASSUME NEW p \in Participants, NEW s \in Services, NEW u \in Units,
               NEW cap \in WarrantCaps, L!Spend(i, p, s, u, cap)
        PROVE  Opens(i) /\ UNCHANGED dropped
    BY <2>2, SpendOpensSound DEF L!Spend
  <2>3. ASSUME NEW p \in Participants, NEW r \in Participants \cup {None},
               NEW promo \in BOOLEAN, NEW counted \in BOOLEAN,
               L!Register(i, p, r, promo, counted)
        PROVE  Opens(i) /\ UNCHANGED dropped
    BY <2>3, RegisterOpensSound DEF L!Register
  <2>4. ASSUME NEW e \in Events, L!Deliver(i, e) PROVE Opens(i) /\ UNCHANGED dropped
    BY <2>4, DeliverOpensSound DEF L!Deliver
  <2>5. ASSUME L!Practice(i) PROVE Opens(i) /\ UNCHANGED dropped
    BY <2>5, PracticeOpensSound DEF L!Practice
  <2>6. ASSUME L!Look(i) PROVE Stays /\ UNCHANGED <<todo, busy, quiet, dropped>>
    BY <1>1, <2>6 DEF L!Look, L!vars, Stays
  <2>. QED
    BY <1>2, <2>1, <2>2, <2>3, <2>4, <2>5, <2>6 DEF L!Call
<1>3. ASSUME NEW i \in Invocations, L!AdjustRead(i) PROVE Reads(i)
  <2>. DEFINE s == L!Now(i)
              new == <<[op |-> "set", who |-> s.who, n |-> s.n, tag |-> s.tag,
                        seen |-> row[s.who].credits]>>
  <2>1. /\ todo[i] # <<>> /\ s.op = "adjust" /\ L!Registered(s.who) /\ L!Proceed(i, new)
        /\ UNCHANGED <<row, dropped, issued, spent, made>>
    BY <1>3 DEF L!AdjustRead, L!Now, L!history
  <2>2. Follows(s, new)
    BY <2>1 DEF Follows
  <2>3. s \in Steps(Tags \cup Events)
    BY <2>1, FirstStep DEF LedgerTyped, L!Now
  <2>4. new \in ASteps
    BY <2>1, <2>2, <2>3, FollowsTyped DEF LedgerTyped, CountOps, PassOps
  <2>5. new # <<>>
    OBVIOUS
  <2>. HIDE DEF new
  <2>6. GoesOn(i, new) /\ Stays
    BY <1>1, <2>1, <2>2 DEF GoesOn, Stays
  <2>. QED
    BY <2>1, <2>4, <2>5, <2>6 DEF Reads
<1>4. ASSUME NEW i \in Invocations, L!PostPractice(i) PROVE Reads(i)
  <2>. DEFINE s == L!Now(i)
              new == <<L!Adjust(Poster, -L!PRACTICE_REWARD, "escrow")>>
  <2>1. /\ todo[i] # <<>> /\ s.op = "post" /\ L!Proceed(i, new)
        /\ L!Registered(Poster) /\ row[Poster].credits >= L!PRACTICE_REWARD
        /\ UNCHANGED <<row, dropped, issued, spent, made>>
    BY <1>4 DEF L!PostPractice, L!Now, L!history
  <2>2. Follows(s, new)
    BY <2>1 DEF Follows
  <2>3. s \in Steps(Tags \cup Events)
    BY <2>1, FirstStep DEF LedgerTyped, L!Now
  <2>4. new \in ASteps
    BY <2>1, <2>2, <2>3, FollowsTyped DEF LedgerTyped, CountOps, PassOps
  <2>5. s.op \notin CashOps
    BY <2>1 DEF CashOps
  <2>. HIDE DEF new
  <2>6. GoesOn(i, new) /\ Stays
    BY <1>1, <2>1, <2>2 DEF GoesOn, Stays
  <2>. QED
    BY <2>1, <2>4, <2>5, <2>6 DEF Reads
<1>5. ASSUME NEW i \in Invocations, L!AdjustWrite(i) PROVE Writes(i)
  <2>. DEFINE p == L!Now(i).who
              m == L!Now(i).seen + L!Now(i).n
  <2>1. /\ L!Now(i).op = "set" /\ todo[i] # <<>> /\ L!Proceed(i, <<>>) /\ UNCHANGED dropped
        /\ L!Record(L!Now(i).tag, L!Now(i).n)
    BY <1>5 DEF L!AdjustWrite, L!Now
  <2>2. p \in Participants /\ row[p] \in ARow /\ m \in Int /\ L!Registered(p)
    BY <2>1, NowFacts
  <2>3. row' = [row EXCEPT ![p] = [row[p] EXCEPT !.credits = m]]
    BY <1>5 DEF L!AdjustWrite
  <2>4. GoesOn(i, <<>>) /\ Recorded(L!Now(i))
    BY <2>1 DEF GoesOn, Follows, Recorded, L!Record, Issuing, Spending
  <2>5. L!Now(i).op = "set" /\ m = L!Now(i).seen + L!Now(i).n
    BY <2>1
  <2>. HIDE DEF m
  <2>6. Becomes(p, m)
    <3>1. [row[p] EXCEPT !.credits = m] \in ARow /\ [row[p] EXCEPT !.credits = m].credits = m
      BY <2>2, OtherCredits
    <3>. HIDE DEF p
    <3>. QED
      BY <1>0, <2>2, <2>3, <3>1, RowBecomes
  <2>. QED
    BY <2>2, <2>4, <2>5, <2>6 DEF Writes
<1>6. ASSUME NEW i \in Invocations, L!AdjustDisk(i) PROVE Writes(i)
  <2>. DEFINE p == L!Now(i).who
              m == row[p].credits + L!Now(i).n
  <2>1. /\ L!Now(i).op = "adjust" /\ todo[i] # <<>> /\ L!Proceed(i, <<>>) /\ UNCHANGED dropped
        /\ L!Record(L!Now(i).tag, L!Now(i).n) /\ L!Registered(p)
    BY <1>6 DEF L!AdjustDisk, L!Now
  <2>2. p \in Participants /\ row[p] \in ARow /\ L!Now(i).n \in Int
    BY <1>0, <2>1, NowFacts DEF RowsTyped, L!Registered
  <2>3. m \in Int
    BY <2>2 DEF ARow
  <2>4. row' = [row EXCEPT ![p] = [row[p] EXCEPT !.credits = m]]
    BY <1>6 DEF L!AdjustDisk
  <2>5. GoesOn(i, <<>>) /\ Recorded(L!Now(i))
    BY <2>1 DEF GoesOn, Follows, Recorded, L!Record, Issuing, Spending
  <2>6. L!Now(i).op = "adjust" /\ m = row[L!Now(i).who].credits + L!Now(i).n
    BY <2>1
  <2>. HIDE DEF m
  <2>7. Becomes(p, m)
    <3>1. [row[p] EXCEPT !.credits = m] \in ARow /\ [row[p] EXCEPT !.credits = m].credits = m
      BY <2>2, <2>3, OtherCredits
    <3>. HIDE DEF p
    <3>. QED
      BY <1>0, <2>2, <2>4, <3>1, RowBecomes
  <2>. QED
    BY <2>1, <2>3, <2>5, <2>6, <2>7 DEF Writes
<1>7. ASSUME NEW i \in Invocations, NEW home \in {"db", "disk"}, L!Insert(i, home)
      PROVE  Enters(i)
  <2>. DEFINE p == L!Now(i).who
              r == L!NewRow(L!Now(i).n, home, L!Now(i).tag)
  <2>1. /\ L!Now(i).op = "insert" /\ todo[i] # <<>> /\ L!Proceed(i, <<>>) /\ UNCHANGED dropped
        /\ issued' = issued + L!Now(i).n /\ UNCHANGED <<spent, made>>
    BY <1>7 DEF L!Insert, L!Now
  <2>2. p \in Participants /\ r \in ARow /\ L!Now(i).n \in Int /\ ~L!Registered(p)
    BY <2>1, NowFacts, NewRows
  <2>3. r.credits = L!Now(i).n
    BY DEF L!NewRow
  <2>4. row' = [row EXCEPT ![p] = r]
    BY <1>7 DEF L!Insert
  <2>5. GoesOn(i, <<>>)
    BY <2>1 DEF GoesOn, Follows
  <2>. HIDE DEF r
  <2>6. Becomes(p, L!Now(i).n)
    <3>. HIDE DEF p
    <3>. QED
      BY <1>0, <2>2, <2>3, <2>4, RowBecomes
  <2>. QED
    BY <2>1, <2>2, <2>5, <2>6 DEF Enters
<1>8. ASSUME NEW i \in Invocations, L!Create(i) PROVE Enters(i)
  <2>. DEFINE r == L!NewRow(L!PRACTICE_FLOOR, "db", None)
  <2>1. /\ L!Now(i).op = "create" /\ todo[i] # <<>> /\ L!Proceed(i, <<>>) /\ UNCHANGED dropped
        /\ issued' = issued + L!PRACTICE_FLOOR /\ UNCHANGED <<spent, made>>
        /\ ~L!Registered(Poster)
        /\ row' = [row EXCEPT ![Poster] = r]
    BY <1>8 DEF L!Create, L!Now
  <2>2. L!Now(i).who = Poster
    <3>1. L!Now(i) = todo[i][1] /\ 1 \in DOMAIN todo[i]
      BY <2>1, NowFacts
    <3>. QED
      BY <2>1, <3>1 DEF Budgeted, Within
  <2>3. r \in ARow /\ Poster \in Participants
    BY NewRows, PartsAreNumbers, LedgerConstants
  <2>4. r.credits = L!PRACTICE_FLOOR
    BY DEF L!NewRow
  <2>5. GoesOn(i, <<>>)
    BY <2>1 DEF GoesOn, Follows
  <2>. HIDE DEF r
  <2>6. Becomes(Poster, L!PRACTICE_FLOOR)
    BY <1>0, <2>1, <2>3, <2>4, RowBecomes
  <2>. QED
    BY <2>1, <2>2, <2>5, <2>6, PartsAreNumbers DEF Enters
<1>9. ASSUME NEW i \in Invocations, L!Fail(i) PROVE Stays
  BY <1>1, <1>9 DEF L!Fail, L!history, Stays
<1>10. ASSUME NEW i \in Invocations, ~L!Fail(i),
              \/ L!ModelAnswers(i) \/ L!Redeem(i) \/ L!ApplyComp(i) \/ L!BumpRedemptions(i)
              \/ L!ReferralRead(i) \/ L!ReferralWrite(i) \/ L!ReferralDisk(i) \/ L!GrantRead(i)
              \/ L!GrantCode(i) \/ L!MarkReferral(i)
       PROVE  Reads(i)
  <2>1. PICK new \in ASteps : GoesOn(i, new)
    <3>1. L!Advance(i) /\ UNCHANGED dropped
      BY <1>10 DEF L!Advance, L!ModelAnswers, L!Redeem, L!ApplyComp, L!BumpRedemptions,
                   L!ReferralRead, L!ReferralWrite, L!ReferralDisk, L!GrantRead, L!GrantCode,
                   L!MarkReferral
    <3>. QED
      BY <1>10, <3>1, Advances DEF GoesOn
  <2>2. Stays
    <3>1. CASE L!ApplyComp(i) \/ L!ReferralWrite(i) \/ L!ReferralDisk(i) \/ L!MarkReferral(i)
      BY <3>1, OtherColumns
    <3>2. CASE L!ModelAnswers(i) \/ L!Redeem(i) \/ L!BumpRedemptions(i) \/ L!ReferralRead(i)
               \/ L!GrantRead(i) \/ L!GrantCode(i)
      BY <1>1, <3>2 DEF L!ModelAnswers, L!Redeem, L!BumpRedemptions, L!ReferralRead,
                        L!GrantRead, L!GrantCode, L!history, Stays
    <3>. QED
      BY <1>10, <3>1, <3>2
  <2>3. L!Now(i).op \notin CashOps \cup {"post"}
    BY <1>10 DEF L!ModelAnswers, L!Redeem, L!ApplyComp, L!BumpRedemptions, L!ReferralRead,
                 L!ReferralWrite, L!ReferralDisk, L!GrantRead, L!GrantCode, L!MarkReferral,
                 L!Now, CashOps
  <2>. QED
    BY <2>1, <2>2, <2>3 DEF Reads, CashOps
<1>11. ASSUME NEW p \in Participants, L!Expire(p)
       PROVE  Stays /\ UNCHANGED <<todo, busy, quiet, dropped>>
  <2>1. row[p] \in ARow /\ row' = [row EXCEPT ![p] = [row[p] EXCEPT !.comped = "past"]]
    BY <1>0, <1>11 DEF L!Expire, RowsTyped, L!Registered
  <2>2. UNCHANGED <<todo, busy, quiet, dropped, issued, spent, made>>
    BY <1>11 DEF L!Expire, L!history
  <2>. QED
    BY <1>0, <2>1, <2>2, SameCredits, RowStays DEF Stays
<1>12. ASSUME NEW i \in Invocations, L!Advance(i)
       PROVE  Reads(i) \/ Writes(i) \/ Enters(i) \/ (L!Fail(i) /\ Stays)
  BY <1>3, <1>4, <1>5, <1>6, <1>7, <1>8, <1>9, <1>10, <1>12 DEF L!Advance
<1>. QED
  <2>1. CASE \E i \in Invocations : L!Call(i)
    BY <1>2, <2>1
  <2>2. CASE \E i \in Invocations : L!Advance(i)
    BY <1>12, <2>2
  <2>3. CASE \E p \in Participants : L!Expire(p)
    BY <1>11, <2>3
  <2>. QED
    BY <2>1, <2>2, <2>3 DEF L!Next

LEMMA DueStep ==
  ASSUME LedgerTyped, NEW i \in Invocations, Budgeted(i), NEW k \in DOMAIN todo[i]
  PROVE  \E s \in Steps(Tags \cup Events) :
           /\ s = todo[i][k] /\ s.who \in Participants /\ s.n \in Int
           /\ Within(s, busy[i]) /\ Fits(i, s)
<1>1. todo[i] \in ASteps
  BY DEF LedgerTyped, QueuesTyped
<1>2. PICK s \in Steps(Tags \cup Events) : s = todo[i][k]
  BY <1>1 DEF ASteps
<1>3. s.who \in Participants /\ s.n \in Int
  BY DEF Steps
<1>. QED
  BY <1>2, <1>3 DEF Budgeted, LedgerTyped, Placed

LEMMA SoundStays ==
  ASSUME NEW s, s.who \in Participants, Credits(s.who)' = Credits(s.who),
         L!Registered(s.who)' <=> L!Registered(s.who), UNCHANGED quiet, Sound(s),
         s.op = "set" => L!Registered(s.who)
  PROVE  Sound(s)'
BY DEF Sound, Credits, L!Registered

\* Invocation i may change the balance of whom it is about only, and then has
\* nothing to take that hangs on it.
LEMMA OldSound ==
  ASSUME LedgerTyped, QuietAlone, \A j \in Invocations : Budgeted(j), StepsSound,
         UNCHANGED quiet, NEW i \in Invocations,
         \/ Stays
         \/ /\ todo[i] # <<>> /\ L!Now(i).op \in CashOps \cup {"insert", "create"}
            /\ \E m : Becomes(L!Now(i).who, m),
         NEW j \in Invocations, NEW k \in DOMAIN todo[j], j # i \/ k > 1
  PROVE  \E s : s = todo[j][k] /\ Sound(s)'
<1>1. PICK s \in Steps(Tags \cup Events) :
        /\ s = todo[j][k] /\ s.who \in Participants /\ s.n \in Int
        /\ Within(s, busy[j]) /\ Fits(j, s)
  BY DueStep
<1>2. Sound(s) /\ (s.op = "set" => L!Registered(s.who))
  BY <1>1 DEF StepsSound, Fits
<1>3. CASE Stays
  BY <1>1, <1>2, <1>3, SoundStays DEF Stays
<1>4. CASE /\ todo[i] # <<>> /\ L!Now(i).op \in CashOps \cup {"insert", "create"}
           /\ \E m : Becomes(L!Now(i).who, m)
  <2>1. L!Now(i) = todo[i][1] /\ 1 \in DOMAIN todo[i]
    BY <1>4, NowFacts
  <2>2. L!Now(i).who \in busy[i]
    BY <1>4, <2>1 DEF Budgeted, Within
  <2>3. SUFFICES ASSUME s.op \in CashOps, s.who \in quiet PROVE Sound(s)'
    BY <1>1 DEF Sound
  <2>4. s.who \in busy[j]
    BY <1>1, <2>3 DEF Within
  <2>5. CASE j # i
    <3>1. s.who # L!Now(i).who
      BY <2>2, <2>3, <2>4, <2>5 DEF QuietAlone
    <3>. QED
      BY <1>1, <1>2, <1>4, <3>1, SoundStays DEF Becomes
  <2>6. CASE j = i
    <3>1. k \in DOMAIN todo[i] /\ 1 \in 1..k - 1 /\ todo[i][1].op # "model"
      <4>1. DOMAIN todo[i] = 1..Len(todo[i])
        BY <1>4, FirstStep DEF LedgerTyped
      <4>. QED
        BY <1>4, <2>1, <2>6, <4>1 DEF CashOps
    <3>2. Taken(todo[i]) /\ s = todo[i][k] /\ k # 1
      BY <1>1, <2>6 DEF Budgeted
    <3>3. s.op # "set" /\ ~(s.n < 0)
      BY <2>3, <3>1, <3>2 DEF Taken
    <3>. QED
      BY <3>3 DEF Sound
  <2>. QED
    BY <2>5, <2>6
<1>. QED
  BY <1>3, <1>4

\* What a handler has read to write, or checked to take, stands.
LEMMA NewSound ==
  ASSUME LedgerTyped, \A j \in Invocations : Budgeted(j), StepsSound, UNCHANGED quiet,
         NEW i \in Invocations, NEW new \in ASteps, GoesOn(i, new),
         L!Now(i).op \in {"adjust", "post"} => UNCHANGED row,
         L!Now(i).op = "post" => L!Registered(Poster) /\ row[Poster].credits >= L!PRACTICE_REWARD,
         NEW k \in 1..Len(new)
  PROVE  \E s : s = new[k] /\ Sound(s)'
<1>1. /\ todo[i] # <<>> /\ Follows(L!Now(i), new) /\ L!Now(i) = todo[i][1] /\ 1 \in DOMAIN todo[i]
      /\ L!Now(i).who \in Participants /\ Sound(L!Now(i))
  BY NowFacts DEF GoesOn, StepsSound
<1>2. new # <<>>
  BY DEF ASteps
<1>3. CASE L!Now(i).op = "adjust"
  <2>1. PICK s : s = L!Now(i) /\ s.op = "adjust" /\ Sound(s) /\ L!Registered(s.who)
                 /\ new = <<[op |-> "set", who |-> s.who, n |-> s.n, tag |-> s.tag,
                             seen |-> row[s.who].credits]>>
    BY <1>1, <1>2, <1>3 DEF Follows
  <2>2. PICK c : c = row[s.who].credits
    OBVIOUS
  <2>3. PICK t : t = [op |-> "set", who |-> s.who, n |-> s.n, tag |-> s.tag, seen |-> c]
    OBVIOUS
  <2>4. new[k] = t
    BY <2>1, <2>2, <2>3
  <2>5. Sound(t)'
    BY <1>3, <2>1, <2>2, <2>3 DEF Sound, CashOps, L!Registered
  <2>. QED
    BY <2>4, <2>5
<1>4. CASE L!Now(i).op = "post"
  <2>1. PICK t : t = L!Adjust(Poster, -L!PRACTICE_REWARD, "escrow") /\ new = <<t>>
    BY <1>1, <1>2, <1>4 DEF Follows
  <2>2. t.who = Poster /\ t.op = "adjust" /\ t.n = -L!PRACTICE_REWARD
    BY <2>1 DEF L!Adjust, L!Step
  <2>3. row[Poster].credits \in Int
    BY <1>4, LedgerConstants DEF LedgerTyped, RowsTyped, ARow, L!Registered
  <2>4. Sound(t)'
    <3>1. PICK w \in Nat : w = L!PRACTICE_REWARD
      BY PartsAreNumbers
    <3>2. L!Registered(Poster) /\ row[Poster].credits >= w /\ UNCHANGED row
      BY <1>4, <3>1
    <3>3. PICK c \in Int : c = row[Poster].credits
      BY <2>3
    <3>4. t.n = -w /\ c + t.n >= 0
      BY <2>2, <3>1, <3>2, <3>3
    <3>. QED
      BY <2>2, <3>2, <3>3, <3>4 DEF Sound, L!Registered
  <2>5. new[k] = t
    BY <2>1
  <2>. QED
    BY <2>4, <2>5
<1>5. CASE L!Now(i).op \in {"redeem", "referral", "grant", "code"}
  <2>1. new[k].op \notin CashOps
    <3>1. CASE L!Now(i).op = "redeem"
      <4>1. PICK a, b : new = <<a, b>> /\ a.op = "comp" /\ b.op = "bump"
        BY <1>1, <1>2, <3>1 DEF Follows, L!Grant, L!Step
      <4>. QED
        BY <4>1 DEF CashOps
    <3>2. CASE L!Now(i).op = "code"
      <4>1. PICK a, b, d : /\ new = <<a, b, d>> /\ a.op = "comp" /\ b.op = "bump"
                           /\ d.op = "mark"
        BY <1>1, <1>2, <3>2 DEF Follows, L!Step
      <4>. QED
        BY <4>1 DEF CashOps
    <3>3. CASE L!Now(i).op \in {"referral", "grant"}
      BY <1>1, <1>2, <3>3 DEF Follows, L!Step, CashOps
    <3>. QED
      BY <1>5, <3>1, <3>2, <3>3
  <2>2. PICK t : t = new[k]
    OBVIOUS
  <2>3. Sound(t)'
    BY <2>1, <2>2 DEF Sound
  <2>. QED
    BY <2>2, <2>3
<1>. QED
  BY <1>1, <1>2, <1>3, <1>4, <1>5 DEF Follows

\* A call that opens starts within its subjects.
LEMMA OpenFlows ==
  ASSUME LedgerTyped, StepsSound, NEW i \in Invocations, Opens(i)
  PROVE  /\ Flows(i, 0) /\ todo[i] = <<>> /\ Stays
         /\ \A k \in DOMAIN todo'[i] : \E s : s = todo'[i][k] /\ Sound(s)'
<1>0. PICK subjects : \E steps \in ASteps :
        /\ Opened(i, subjects, steps) /\ UNCHANGED <<issued, spent, made>>
        /\ Taken(steps) /\ Lead(steps) = 0
        /\ \A k \in 1..Len(steps) : Within(steps[k], subjects) /\ Sound(steps[k])
  BY DEF Opens
<1>1. PICK steps \in ASteps :
        /\ Opened(i, subjects, steps) /\ UNCHANGED <<issued, spent, made>>
        /\ Taken(steps) /\ Lead(steps) = 0
        /\ \A k \in 1..Len(steps) : Within(steps[k], subjects) /\ Sound(steps[k])
  BY <1>0
<1>2. /\ todo[i] = <<>> /\ todo'[i] = steps /\ UNCHANGED <<quiet, row>>
      /\ busy'[i] = IF steps = <<>> THEN {} ELSE subjects
      /\ \A j \in Invocations \ {i} : todo'[j] = todo[j] /\ busy'[j] = busy[j]
  BY <1>1 DEF Opened, LedgerTyped, QueuesTyped
<1>3. DOMAIN steps = 1..Len(steps) /\ (steps = <<>> => 1..Len(steps) = {})
  BY DEF ASteps
<1>4. Budgeted(i)'
  <2>1. Taken(todo'[i]) /\ \A k \in DOMAIN todo'[i] : Within(todo'[i][k], busy'[i])
    BY <1>1, <1>2, <1>3
  <2>. QED
    BY <2>1 DEF Budgeted, Taken, Within
<1>5. ASSUME NEW k \in DOMAIN todo'[i] PROVE \E s : s = todo'[i][k] /\ Sound(s)'
  <2>1. PICK s : s = steps[k]
    OBVIOUS
  <2>2. Sound(s)'
    BY <1>1, <1>2, <1>3, <2>1 DEF Sound, L!Registered
  <2>. QED
    BY <1>2, <2>1, <2>2
<1>6. Stays
  BY <1>1, <1>2 DEF Stays, Credits, L!Registered
<1>. QED
  BY <1>1, <1>2, <1>4, <1>5, <1>6 DEF Flows

LEMMA CreditsTyped ==
  ASSUME RowsTyped, NEW p \in Participants
  PROVE  Credits(p) \in Int /\ (L!Registered(p) => Credits(p) = row[p].credits)
BY DEF RowsTyped, ARow, Credits, L!Registered

LEMMA BalancesTyped == ASSUME RowsTyped PROVE L!Balances \in Int
<1>. DEFINE f == [q \in Participants |-> Credits(q)]
<1>1. f \in [Participants -> Int] /\ L!Balances = L!SumFunction(f) /\ IsFiniteSet(Participants)
  BY CreditsTyped, LedgerConstants DEF L!Balances, Credits
<1>. HIDE DEF f
<1>. QED
  BY <1>1, SumInt

LEMMA BalancesStay == ASSUME Stays PROVE L!Balances' = L!Balances
<1>. DEFINE f == [p \in Participants |-> IF L!Registered(p) THEN row[p].credits ELSE 0]
<1>1. f' = f
  <2>1. ASSUME NEW p \in Participants
        PROVE  (IF L!Registered(p) THEN row[p].credits ELSE 0)'
                 = IF L!Registered(p) THEN row[p].credits ELSE 0
    BY DEF Stays, Credits
  <2>. QED
    BY <2>1
<1>2. L!Balances = L!SumFunction(f)
  BY DEF L!Balances
<1>3. L!Balances' = L!SumFunction(f')
  BY DEF L!Balances
<1>. HIDE DEF f
<1>. QED
  BY <1>1, <1>2, <1>3

LEMMA BalancesMove ==
  ASSUME RowsTyped, RowsTyped', NEW p \in Participants, NEW m \in Int, Becomes(p, m)
  PROVE  L!Balances \in Int /\ L!Balances' = L!Balances + (m - Credits(p))
<1>. DEFINE f == [q \in Participants |-> Credits(q)]
            h == [q \in Participants |-> IF q = p THEN m ELSE Credits(q)]
<1>1. f \in [Participants -> Int] /\ h \in [Participants -> Int] /\ f[p] = Credits(p) /\ h[p] = m
  BY CreditsTyped
<1>2. \A q \in Participants \ {p} : h[q] = f[q]
  OBVIOUS
<1>3. L!Balances = L!SumFunction(f)
  BY DEF L!Balances, Credits
<1>4. L!Balances' = L!SumFunction(h)
  <2>1. ASSUME NEW q \in Participants
        PROVE  (IF L!Registered(q) THEN row[q].credits ELSE 0)' = IF q = p THEN m ELSE Credits(q)
    <3>1. Credits(q)' = IF q = p THEN m ELSE Credits(q)
      BY DEF Becomes
    <3>. QED
      BY <3>1 DEF Credits
  <2>2. [q \in Participants |-> IF L!Registered(q) THEN row[q].credits ELSE 0]' = h
    BY <2>1
  <2>. HIDE DEF h
  <2>. QED
    BY <2>2 DEF L!Balances
<1>5. IsFiniteSet(Participants)
  BY LedgerConstants
<1>. HIDE DEF f, h
<1>6. L!SumFunction(h) = L!SumFunction(f) + (h[p] - f[p]) /\ L!SumFunction(f) \in Int
  BY <1>1, <1>2, <1>5, SumEdit, SumInt
<1>. QED
  BY <1>1, <1>3, <1>4, <1>6

LEMMA LeadTyped ==
  ASSUME NEW q \in ASteps
  PROVE  /\ Lead(q) \in Int
         /\ (IF ~(q = <<>>) /\ Head(q).tag = "transfer_in" THEN Head(q).n ELSE 0) = Lead(q)
<1>1. q # <<>> => Head(q) = q[1] /\ q[1] \in Steps(Tags \cup Events)
  BY DEF ASteps
<1>2. \A s \in Steps(Tags \cup Events) : s.n \in Int
  BY DEF Steps
<1>3. CASE q = <<>>
  BY <1>3 DEF Lead
<1>4. CASE q # <<>>
  <2>1. PICK s \in Steps(Tags \cup Events) : s = q[1] /\ s = Head(q) /\ s.n \in Int
    BY <1>1, <1>2, <1>4
  <2>2. Lead(q) = IF s.tag = "transfer_in" THEN s.n ELSE 0
    BY <1>4, <2>1 DEF Lead
  <2>. QED
    BY <1>4, <2>1, <2>2
<1>. QED
  BY <1>3, <1>4

LEMMA InFlightStays == ASSUME UNCHANGED todo PROVE L!InFlight' = L!InFlight
BY DEF L!InFlight, L!Owing, L!Idle, L!Now

LEMMA InFlightMoves ==
  ASSUME QueuesTyped, QueuesTyped', NEW i \in Invocations, NEW lead, Flows(i, lead)
  PROVE  L!InFlight \in Int /\ L!InFlight' = L!InFlight + (lead - Lead(todo[i]))
<1>. DEFINE f == [j \in Invocations |-> Lead(todo[j])]
            h == [j \in Invocations |-> IF j = i THEN lead ELSE Lead(todo[j])]
<1>1. \A j \in Invocations : Lead(todo[j]) \in Int /\ Lead(todo'[j]) \in Int
  BY LeadTyped DEF QueuesTyped
<1>2. lead \in Int
  BY <1>1 DEF Flows
<1>3. /\ f \in [Invocations -> Int] /\ h \in [Invocations -> Int]
      /\ f[i] = Lead(todo[i]) /\ h[i] = lead /\ \A j \in Invocations \ {i} : h[j] = f[j]
  BY <1>1, <1>2
<1>4. L!InFlight = L!SumFunction(f)
  <2>1. \A j \in Invocations : L!Owing(j) = Lead(todo[j])
    <3>1. \A j \in Invocations : todo[j] \in ASteps
      BY DEF QueuesTyped
    <3>. QED
      BY <3>1, LeadTyped DEF L!Owing, L!Idle, L!Now
  <2>2. [j \in Invocations |-> L!Owing(j)] = f
    BY <2>1
  <2>. HIDE DEF f
  <2>. QED
    BY <2>2 DEF L!InFlight
<1>5. L!InFlight' = L!SumFunction(h)
  <2>1. ASSUME NEW j \in Invocations PROVE L!Owing(j)' = IF j = i THEN lead ELSE Lead(todo[j])
    <3>1. PICK q \in ASteps : q = todo'[j]
      BY DEF QueuesTyped
    <3>2. L!Owing(j)' = IF ~(q = <<>>) /\ Head(q).tag = "transfer_in" THEN Head(q).n ELSE 0
      BY <3>1 DEF L!Owing, L!Idle, L!Now
    <3>3. L!Owing(j)' = Lead(q)
      BY <3>2, LeadTyped
    <3>4. Lead(q) = IF j = i THEN lead ELSE Lead(todo[j])
      <4>1. Lead(q) = Lead(todo'[j])
        BY <3>1
      <4>. QED
        BY <4>1 DEF Flows
    <3>. QED
      BY <3>3, <3>4
  <2>2. [j \in Invocations |-> L!Owing(j)]' = h
    BY <2>1
  <2>. HIDE DEF h
  <2>. QED
    BY <2>2 DEF L!InFlight
<1>6. IsFiniteSet(Invocations)
  BY LedgerConstants
<1>. HIDE DEF f, h
<1>7. L!SumFunction(h) = L!SumFunction(f) + (h[i] - f[i]) /\ L!SumFunction(f) \in Int
  BY <1>3, <1>6, SumEdit, SumInt
<1>. QED
  BY <1>3, <1>4, <1>5, <1>7

\* The head of what is still to be done, by the budget of its call.
LEMMA NowWithin ==
  ASSUME LedgerTyped, NEW i \in Invocations, Budgeted(i), StepsSound, todo[i] # <<>>
  PROVE  \E s \in Steps(Tags \cup Events) :
           /\ s = L!Now(i) /\ s.who \in Participants /\ s.n \in Int /\ Within(s, busy[i])
           /\ Fits(i, s) /\ Sound(s)
           /\ Lead(todo[i]) = IF s.tag = "transfer_in" THEN s.n ELSE 0
<1>1. L!Now(i) = todo[i][1] /\ 1 \in DOMAIN todo[i]
  BY NowFacts
<1>2. PICK s \in Steps(Tags \cup Events) :
        /\ s = todo[i][1] /\ s.who \in Participants /\ s.n \in Int
        /\ Within(s, busy[i]) /\ Fits(i, s)
  BY <1>1, DueStep
<1>3. Sound(s)
  BY <1>1, <1>2 DEF StepsSound
<1>. QED
  BY <1>1, <1>2, <1>3 DEF Lead

\* A quiet balance changes by what the step says, and is not overdrawn.
LEMMA WriteAdds ==
  ASSUME LedgerTyped, NEW i \in Invocations, NEW s, s = L!Now(i), s.who \in Participants,
         s.n \in Int, Sound(s), s.op \in CashOps, s.who \in quiet, L!Registered(s.who),
         Credits(s.who) >= 0, NEW m \in Int,
         \/ s.op = "set" /\ m = s.seen + s.n
         \/ s.op = "adjust" /\ m = row[s.who].credits + s.n
  PROVE  m = Credits(s.who) + s.n /\ m >= 0
<1>1. Credits(s.who) \in Int /\ Credits(s.who) = row[s.who].credits
  BY CreditsTyped DEF LedgerTyped
<1>2. m = Credits(s.who) + s.n
  BY <1>1 DEF Sound
<1>3. s.n < 0 => Credits(s.who) + s.n >= 0
  BY <1>1 DEF Sound
<1>. QED
  BY <1>1, <1>2, <1>3

LEMMA TagsApart ==
  /\ "transfer_in" \notin Issuing \cup Spending /\ "transfer_out" \notin Issuing \cup Spending
  /\ Issuing \cap Spending = {}
BY LedgerConstants DEF Issuing, Spending

\* One step of the ledger, by the invocation that makes it.
LEMMA CreditsMoved ==
  ASSUME LedgerTyped, LedgerTyped', QuietAlone, CreditsKept, NEW i \in Invocations,
         \/ Reads(i) \/ Writes(i) \/ Enters(i)
         \/ Opens(i) /\ UNCHANGED dropped
         \/ L!Fail(i) /\ Stays
  PROVE  CreditsKept'
<1>0. /\ issued \in Int /\ spent \in Int /\ made \in Int /\ Net \in Int
      /\ \A j \in Invocations : Budgeted(j)
      /\ StepsSound /\ \A p \in quiet \cap Participants : Credits(p) >= 0
      /\ L!Balances \in Int
  BY BalancesTyped DEF CreditsKept, LedgerTyped, Net
\* It is enough that the books balance, and what is quiet is not overdrawn.
<1>1. ASSUME issued' \in Int, spent' \in Int, made' \in Int, NEW lead, Flows(i, lead),
             \A p \in quiet \cap Participants : Credits(p)' >= 0,
             \A k \in DOMAIN todo'[i] : \E s : s = todo'[i][k] /\ Sound(s)',
             \/ Stays
             \/ /\ todo[i] # <<>> /\ L!Now(i).op \in CashOps \cup {"insert", "create"}
                /\ \E m : Becomes(L!Now(i).who, m),
             Books'
      PROVE  CreditsKept'
  <2>1. \A j \in Invocations : Budgeted(j)'
    <3>1. \A j \in Invocations \ {i} : todo'[j] = todo[j] /\ busy'[j] = busy[j]
      BY <1>1 DEF Flows
    <3>2. ASSUME NEW j \in Invocations \ {i} PROVE Budgeted(j)'
      BY <1>0, <3>1 DEF Budgeted, Taken, Within
    <3>3. Budgeted(i)'
      BY <1>1 DEF Flows
    <3>. QED
      BY <3>2, <3>3
  <2>2. StepsSound'
    <3>1. ASSUME NEW j \in Invocations, NEW k \in DOMAIN todo'[j]
          PROVE  \E s : s = todo'[j][k] /\ Sound(s)'
      <4>1. CASE j = i
        BY <1>1, <4>1
      <4>2. CASE j # i
        <5>1. todo'[j] = todo[j] /\ UNCHANGED quiet
          BY <1>1, <4>2 DEF Flows
        <5>2. k \in DOMAIN todo[j]
          BY <5>1
        <5>3. \E s : s = todo[j][k] /\ Sound(s)'
          BY <1>0, <1>1, <4>2, <5>1, <5>2, OldSound
        <5>. QED
          BY <5>1, <5>3
      <4>. QED
        BY <4>1, <4>2
    <3>2. ASSUME NEW j \in Invocations, NEW k \in DOMAIN todo'[j] PROVE Sound(todo[j][k])'
      <4>1. PICK s : s = todo'[j][k] /\ Sound(s)'
        BY <3>1
      <4>. QED
        BY <4>1 DEF Sound
    <3>. QED
      BY <3>2 DEF StepsSound
  <2>3. (\A p \in quiet \cap Participants : Credits(p) >= 0)'
    BY <1>1 DEF Flows
  <2>. QED
    BY <1>1, <2>1, <2>2, <2>3 DEF CreditsKept
<1>2. CASE Reads(i)
  <2>1. PICK new \in ASteps :
          /\ GoesOn(i, new) /\ Stays
          /\ new = <<>> => L!Now(i).op \notin CashOps
          /\ L!Now(i).op \in {"adjust", "post"} => UNCHANGED row
          /\ L!Now(i).op = "post" =>
               L!Registered(Poster) /\ row[Poster].credits >= L!PRACTICE_REWARD
    BY <1>2 DEF Reads
  <2>2. PICK s \in Steps(Tags \cup Events) :
          /\ s = L!Now(i) /\ Within(s, busy[i])
          /\ Lead(todo[i]) = IF s.tag = "transfer_in" THEN s.n ELSE 0
    <3>1. todo[i] # <<>>
      BY <2>1 DEF GoesOn
    <3>. QED
      BY <1>0, <3>1, NowWithin
  <2>3. /\ Flows(i, IF new # <<>> THEN Lead(todo[i])
                    ELSE IF L!Now(i).tag = "transfer_out" THEN -L!Now(i).n ELSE 0)
        /\ \A k \in DOMAIN todo'[i] :
             \/ k \in 1..Len(new) /\ todo'[i][k] = new[k]
             \/ \E l \in DOMAIN todo[i] : l > 1 /\ todo'[i][k] = todo[i][l]
    BY <1>0, <2>1, GoesOnFlows
  <2>4. Flows(i, Lead(todo[i]))
    <3>1. new = <<>> => s.tag # "transfer_out" /\ s.tag # "transfer_in"
      BY <2>1, <2>2 DEF Within, Transfers
    <3>2. new = <<>> => Lead(todo[i]) = 0
      BY <2>2, <3>1
    <3>. QED
      BY <2>2, <2>3, <3>1, <3>2
  <2>5. L!InFlight' = L!InFlight /\ L!Balances' = L!Balances
    <3>1. /\ L!InFlight \in Int /\ Lead(todo[i]) \in Int
          /\ L!InFlight' = L!InFlight + (Lead(todo[i]) - Lead(todo[i]))
      BY <2>4, InFlightMoves, LeadTyped DEF LedgerTyped, QueuesTyped
    <3>. QED
      BY <2>1, <3>1, BalancesStay
  <2>6. Books'
    BY <2>1, <2>4, <2>5 DEF Books, CreditsKept, Stays, GoesOn, Flows, Net
  <2>7. ASSUME NEW k \in DOMAIN todo'[i] PROVE \E t : t = todo'[i][k] /\ Sound(t)'
    <3>0. UNCHANGED quiet
      BY <2>4 DEF Flows
    <3>1. CASE k \in 1..Len(new) /\ todo'[i][k] = new[k]
      <4>1. \E t : t = new[k] /\ Sound(t)'
        BY <1>0, <2>1, <3>0, <3>1, NewSound
      <4>. QED
        BY <3>1, <4>1
    <3>2. ASSUME NEW l \in DOMAIN todo[i], l > 1, todo'[i][k] = todo[i][l]
          PROVE  \E t : t = todo'[i][k] /\ Sound(t)'
      <4>1. \E t : t = todo[i][l] /\ Sound(t)'
        BY <1>0, <2>1, <3>0, <3>2, OldSound
      <4>. QED
        BY <3>2, <4>1
    <3>. QED
      BY <2>3, <3>1, <3>2
  <2>8. \A p \in quiet \cap Participants : Credits(p)' >= 0
    BY <1>0, <2>1 DEF Stays
  <2>9. issued' \in Int /\ spent' \in Int /\ made' \in Int
    BY <1>0, <2>1 DEF Stays
  <2>. QED
    BY <1>1, <2>1, <2>4, <2>6, <2>7, <2>8, <2>9
<1>3. CASE Opens(i) /\ UNCHANGED dropped
  <2>1. /\ Flows(i, 0) /\ todo[i] = <<>> /\ Stays
        /\ \A k \in DOMAIN todo'[i] : \E s : s = todo'[i][k] /\ Sound(s)'
    BY <1>0, <1>3, OpenFlows
  <2>2. L!InFlight' = L!InFlight /\ L!Balances' = L!Balances
    <3>1. Lead(todo[i]) = 0
      BY <2>1 DEF Lead
    <3>2. L!InFlight \in Int /\ L!InFlight' = L!InFlight + (0 - Lead(todo[i]))
      BY <2>1, InFlightMoves DEF LedgerTyped
    <3>. QED
      BY <2>1, <3>1, <3>2, BalancesStay
  <2>3. Books'
    BY <1>3, <2>1, <2>2 DEF Books, CreditsKept, Stays, Flows, Net
  <2>4. \A p \in quiet \cap Participants : Credits(p)' >= 0
    BY <1>0, <2>1 DEF Stays
  <2>5. issued' \in Int /\ spent' \in Int /\ made' \in Int
    BY <1>0, <2>1 DEF Stays
  <2>. QED
    BY <1>1, <2>1, <2>3, <2>4, <2>5
<1>4. CASE L!Fail(i) /\ Stays
  <2>1. /\ Flows(i, 0) /\ dropped \subseteq dropped'
        /\ L!Now(i).tag = "transfer_in" => "transfer_in" \in dropped'
        /\ \A k \in DOMAIN todo'[i] : \E l \in DOMAIN todo[i] : l > 1 /\ todo'[i][k] = todo[i][l]
    BY <1>0, <1>4, FailFlows
  <2>2. PICK s \in Steps(Tags \cup Events) :
          /\ s = L!Now(i) /\ s.n \in Int /\ Within(s, busy[i])
          /\ Lead(todo[i]) = IF s.tag = "transfer_in" THEN s.n ELSE 0
    <3>1. todo[i] # <<>>
      BY <1>4 DEF L!Fail, L!Idle
    <3>. QED
      BY <1>0, <3>1, NowWithin
  <2>3. /\ L!InFlight \in Int /\ L!InFlight' = L!InFlight + (0 - Lead(todo[i]))
        /\ L!Balances' = L!Balances
    BY <1>4, <2>1, InFlightMoves, BalancesStay DEF LedgerTyped
  <2>4. /\ Lead(todo[i]) \in Int /\ Lead(todo[i]) >= 0
        /\ "transfer_in" \notin dropped' => Lead(todo[i]) = 0 /\ "transfer_in" \notin dropped
    BY <2>1, <2>2 DEF Within
  <2>5. Books'
    <3>1. UNCHANGED <<issued, spent, made, quiet>>
      BY <1>4, <2>1 DEF Stays, Flows
    <3>. QED
      BY <1>0, <2>3, <2>4, <3>1 DEF Books, CreditsKept, Net
  <2>6. ASSUME NEW k \in DOMAIN todo'[i] PROVE \E t : t = todo'[i][k] /\ Sound(t)'
    <3>1. PICK l \in DOMAIN todo[i] : l > 1 /\ todo'[i][k] = todo[i][l]
      BY <2>1
    <3>2. UNCHANGED quiet
      BY <2>1 DEF Flows
    <3>3. \E t : t = todo[i][l] /\ Sound(t)'
      BY <1>0, <1>4, <3>1, <3>2, OldSound
    <3>. QED
      BY <3>1, <3>3
  <2>7. \A p \in quiet \cap Participants : Credits(p)' >= 0
    BY <1>0, <1>4 DEF Stays
  <2>8. issued' \in Int /\ spent' \in Int /\ made' \in Int
    BY <1>0, <1>4 DEF Stays
  <2>. QED
    BY <1>1, <1>4, <2>1, <2>5, <2>6, <2>7, <2>8
<1>5. ASSUME NEW s, s = L!Now(i), s.op \in CashOps \cup {"insert", "create"}, GoesOn(i, <<>>),
             s.who \in Participants, s.n \in Int, Within(s, busy[i]),
             Lead(todo[i]) = IF s.tag = "transfer_in" THEN s.n ELSE 0,
             NEW m \in Int, Becomes(s.who, m), s.who \in quiet => m >= 0,
             issued' \in Int, spent' \in Int, made' \in Int,
             s.who \in quiet =>
               (issued' - Net') - (issued - Net) = (m - Credits(s.who))
                 + (IF s.tag = "transfer_out" THEN -s.n ELSE 0)
                 - (IF s.tag = "transfer_in" THEN s.n ELSE 0)
      PROVE  CreditsKept'
  <2>0. <<>> \in ASteps
    BY DEF ASteps
  <2>1. /\ Flows(i, IF s.tag = "transfer_out" THEN -s.n ELSE 0)
        /\ \A k \in DOMAIN todo'[i] :
             \E l \in DOMAIN todo[i] : l > 1 /\ todo'[i][k] = todo[i][l]
    BY <1>0, <1>5, <2>0, GoesOnFlows
  <2>2. UNCHANGED quiet /\ UNCHANGED dropped /\ todo[i] # <<>>
    BY <1>5, <2>1 DEF Flows, GoesOn
  <2>3. /\ L!InFlight \in Int
        /\ L!InFlight' = L!InFlight + ((IF s.tag = "transfer_out" THEN -s.n ELSE 0)
                                         - (IF s.tag = "transfer_in" THEN s.n ELSE 0))
        /\ L!Balances' = L!Balances + (m - Credits(s.who)) /\ Credits(s.who) \in Int
    BY <1>5, <2>1, InFlightMoves, BalancesMove, CreditsTyped DEF LedgerTyped
  <2>4. Books'
    <3>1. PICK out \in Int : out = IF s.tag = "transfer_out" THEN -s.n ELSE 0
      <4>1. (IF s.tag = "transfer_out" THEN -s.n ELSE 0) \in Int
        BY <1>5
      <4>. QED
        BY <4>1
    <3>2. PICK in \in Int : in = IF s.tag = "transfer_in" THEN s.n ELSE 0
      <4>1. (IF s.tag = "transfer_in" THEN s.n ELSE 0) \in Int
        BY <1>5
      <4>. QED
        BY <4>1
    <3>3. PICK c \in Int : c = Credits(s.who)
      BY <2>3
    <3>4. /\ L!InFlight' = L!InFlight + (out - in) /\ L!Balances' = L!Balances + (m - c)
          /\ s.who \in quiet => (issued' - Net') - (issued - Net) = (m - c) + out - in
      BY <1>5, <2>3, <3>1, <3>2, <3>3
    <3>5. PICK net \in Int, flow \in Int, due \in Int, then \in Int :
            /\ net = L!Balances /\ flow = L!InFlight
            /\ due = issued - Net /\ then = issued' - Net'
      <4>1. L!Balances \in Int /\ L!InFlight \in Int
        BY <1>0, <2>3
      <4>2. issued - Net \in Int /\ issued' - Net' \in Int
        BY <1>0, <1>5 DEF Net
      <4>. QED
        BY ONLY <4>1, <4>2
    <3>6. /\ L!InFlight' = flow + (out - in) /\ L!Balances' = net + (m - c)
          /\ s.who \in quiet => then - due = (m - c) + out - in
      BY <3>4, <3>5
    <3>7. L!Balances' + L!InFlight' = (net + flow) + ((m - c) + out - in)
      BY ONLY <3>6, m \in Int, c \in Int, out \in Int, in \in Int, net \in Int, flow \in Int
    <3>8. ASSUME Participants \subseteq quiet
          PROVE  /\ L!Balances' + L!InFlight' <= issued' - Net'
                 /\ "transfer_in" \notin dropped =>
                      L!Balances' + L!InFlight' = issued' - Net'
      <4>1. net + flow <= due /\ ("transfer_in" \notin dropped => net + flow = due)
        BY <3>5, <3>8 DEF Books, CreditsKept
      <4>2. then = due + ((m - c) + out - in)
        <5>1. then - due = (m - c) + out - in
          BY <1>5, <3>6, <3>8
        <5>. QED
          BY ONLY <5>1, m \in Int, c \in Int, out \in Int, in \in Int, due \in Int, then \in Int
      <4>3. PICK held \in Int, moved \in Int :
              held = net + flow /\ moved = (m - c) + out - in
        BY <3>5
      <4>4. /\ held <= due /\ ("transfer_in" \notin dropped => held = due)
            /\ L!Balances' + L!InFlight' = held + moved /\ issued' - Net' = due + moved
        BY <3>5, <3>7, <4>1, <4>2, <4>3
      <4>. QED
        BY ONLY <4>4, held \in Int, moved \in Int, due \in Int
    <3>. QED
      BY <2>2, <3>8 DEF Books
  <2>5. ASSUME NEW k \in DOMAIN todo'[i] PROVE \E t : t = todo'[i][k] /\ Sound(t)'
    <3>1. PICK l \in DOMAIN todo[i] : l > 1 /\ todo'[i][k] = todo[i][l]
      BY <2>1
    <3>3. \E t : t = todo[i][l] /\ Sound(t)'
      BY <1>0, <1>5, <2>2, <3>1, OldSound
    <3>. QED
      BY <3>1, <3>3
  <2>6. \A p \in quiet \cap Participants : Credits(p)' >= 0
    BY <1>0, <1>5 DEF Becomes
  <2>. QED
    BY <1>1, <1>5, <2>1, <2>2, <2>4, <2>5, <2>6
<1>6. CASE Writes(i)
  <2>1. PICK m \in Int :
          /\ GoesOn(i, <<>>) /\ L!Registered(L!Now(i).who) /\ Becomes(L!Now(i).who, m)
          /\ \/ L!Now(i).op = "set" /\ m = L!Now(i).seen + L!Now(i).n
             \/ L!Now(i).op = "adjust" /\ m = row[L!Now(i).who].credits + L!Now(i).n
          /\ Recorded(L!Now(i))
    BY <1>6 DEF Writes
  <2>2. PICK s \in Steps(Tags \cup Events) :
          /\ s = L!Now(i) /\ s.who \in Participants /\ s.n \in Int /\ Within(s, busy[i])
          /\ Sound(s) /\ Lead(todo[i]) = IF s.tag = "transfer_in" THEN s.n ELSE 0
    <3>1. todo[i] # <<>>
      BY <2>1 DEF GoesOn
    <3>. QED
      BY <1>0, <3>1, NowWithin
  <2>3. s.op \in CashOps /\ s.tag \in Issuing \cup Spending \cup Transfers
    BY <2>1, <2>2 DEF CashOps, Within
  <2>4. Credits(s.who) \in Int /\ issued' \in Int /\ spent' \in Int /\ made' \in Int
    BY <1>0, <2>1, <2>2, CreditsTyped DEF Recorded, LedgerTyped
  <2>5. s.who \in quiet => m = Credits(s.who) + s.n /\ m >= 0
    BY <1>0, <2>1, <2>2, <2>3, WriteAdds
  <2>6. (issued' - Net') - (issued - Net) = s.n
              + (IF s.tag = "transfer_out" THEN -s.n ELSE 0)
              - (IF s.tag = "transfer_in" THEN s.n ELSE 0)
    <3>1. /\ issued' = IF s.tag \in Issuing THEN issued + s.n ELSE issued
          /\ Net' = IF s.tag \in Spending THEN Net - s.n ELSE Net
      BY <1>0, <2>1, <2>2 DEF Recorded, Net
    <3>2. CASE s.tag \in Issuing
      BY <1>0, <2>2, <3>1, <3>2, TagsApart
    <3>3. CASE s.tag \in Spending
      BY <1>0, <2>2, <3>1, <3>3, TagsApart
    <3>4. CASE s.tag = "transfer_in"
      BY <1>0, <2>2, <3>1, <3>4, TagsApart
    <3>5. CASE s.tag = "transfer_out"
      BY <1>0, <2>2, <3>1, <3>5, TagsApart
    <3>. QED
      BY <2>3, <3>2, <3>3, <3>4, <3>5 DEF Transfers
  <2>7. s.who \in quiet =>
               (issued' - Net') - (issued - Net) = (m - Credits(s.who))
                 + (IF s.tag = "transfer_out" THEN -s.n ELSE 0)
                 - (IF s.tag = "transfer_in" THEN s.n ELSE 0)
    BY <2>2, <2>4, <2>5, <2>6
  <2>. QED
    BY <1>5, <2>1, <2>2, <2>3, <2>4, <2>5, <2>7
<1>7. CASE Enters(i)
  <2>1. PICK m \in Int :
          /\ GoesOn(i, <<>>) /\ ~L!Registered(L!Now(i).who) /\ Becomes(L!Now(i).who, m)
          /\ \/ L!Now(i).op = "insert" /\ m = L!Now(i).n
             \/ L!Now(i).op = "create" /\ m = L!PRACTICE_FLOOR
          /\ issued' = issued + m /\ UNCHANGED <<spent, made>>
    BY <1>7 DEF Enters
  <2>2. PICK s \in Steps(Tags \cup Events) :
          /\ s = L!Now(i) /\ s.who \in Participants /\ s.n \in Int /\ Within(s, busy[i])
          /\ Lead(todo[i]) = IF s.tag = "transfer_in" THEN s.n ELSE 0
    <3>1. todo[i] # <<>>
      BY <2>1 DEF GoesOn
    <3>. QED
      BY <1>0, <3>1, NowWithin
  <2>3. /\ s.op \in {"insert", "create"} /\ s.op \notin CashOps /\ Credits(s.who) = 0
        /\ m >= 0
    BY <2>1, <2>2, PartsAreNumbers, SMTT(30) DEF Credits, Within, CashOps
  <2>4. s.tag # "transfer_out" /\ s.tag # "transfer_in"
    BY <2>2, <2>3 DEF Within, Transfers
  <2>5. issued' \in Int /\ spent' \in Int /\ made' \in Int
    BY <1>0, <2>1
  <2>6. (issued' - Net') - (issued - Net) = (m - Credits(s.who))
                 + (IF s.tag = "transfer_out" THEN -s.n ELSE 0)
                 - (IF s.tag = "transfer_in" THEN s.n ELSE 0)
    BY <1>0, <2>1, <2>3, <2>4 DEF Net
  <2>. QED
    BY <1>5, <2>1, <2>2, <2>3, <2>5, <2>6
<1>. QED
  BY <1>2, <1>3, <1>4, <1>6, <1>7

\* No one has moved a credit yet.
LEMMA CreditsAtFirst == ASSUME L!Init, LedgerTyped PROVE CreditsKept
<1>1. PICK start \in Starts, early \in SUBSET Participants :
        /\ row = [p \in Participants |->
             IF start[p] = None THEN None
             ELSE [L!NewRow(start[p], "db", None) EXCEPT
                     !.comped = IF p \in early THEN "now" ELSE "never"]]
        /\ issued = L!SumFunction([p \in Participants |->
                      IF start[p] = None THEN 0 ELSE start[p]])
        /\ spent = 0 /\ made = 0
  BY DEF L!Init
<1>2. \A i \in Invocations : todo[i] = <<>>
  BY DEF L!Init
<1>3. ASSUME NEW p \in Participants
      PROVE  Credits(p) = (IF start[p] = None THEN 0 ELSE start[p]) /\ Credits(p) \in Nat
  <2>1. CASE start[p] = None
    BY <1>1, <2>1 DEF Credits, L!Registered
  <2>2. CASE start[p] # None
    <3>1. start[p] \in Nat
      BY <2>2, LedgerConstants
    <3>2. row[p] # None /\ row[p].credits = start[p]
      <4>1. row[p] = [L!NewRow(start[p], "db", None) EXCEPT
                        !.comped = IF p \in early THEN "now" ELSE "never"]
        BY <1>1, <2>2
      <4>2. row[p].credits = start[p]
        BY <4>1 DEF L!NewRow
      <4>3. PICK comped \in {"now", "never"} : comped = IF p \in early THEN "now" ELSE "never"
        OBVIOUS
      <4>4. row[p] \in ARow
        BY <3>1, <4>1, <4>3 DEF L!NewRow, ARow
      <4>. QED
        BY <4>2, <4>4, LedgerConstants DEF ARow
    <3>. QED
      BY <2>2, <3>1, <3>2 DEF Credits, L!Registered
  <2>. QED
    BY <2>1, <2>2
<1>4. issued = L!Balances
  <2>1. [p \in Participants |-> IF L!Registered(p) THEN row[p].credits ELSE 0]
          = [p \in Participants |-> IF start[p] = None THEN 0 ELSE start[p]]
    BY <1>3 DEF Credits
  <2>. QED
    BY <1>1, <2>1 DEF L!Balances
<1>5. L!InFlight = 0
  <2>. DEFINE f == [i \in Invocations |-> L!Owing(i)]
  <2>1. \A i \in Invocations : f[i] = 0
    BY <1>2 DEF L!Owing, L!Idle
  <2>2. L!InFlight = L!SumFunction(f) /\ DOMAIN f = Invocations
    BY DEF L!InFlight
  <2>3. IsFiniteSet(Invocations)
    BY LedgerConstants
  <2>. HIDE DEF f
  <2>. QED
    BY <2>1, <2>2, <2>3, SumZero
<1>6. L!Balances \in Int
  BY BalancesTyped DEF LedgerTyped
<1>7. \A i \in Invocations : Budgeted(i)
  BY <1>2 DEF Budgeted, Taken
<1>8. StepsSound
  BY <1>2 DEF StepsSound
<1>. QED
  BY <1>1, <1>3, <1>4, <1>5, <1>6, <1>7, <1>8 DEF CreditsKept, Books, Net

LEMMA CreditsKeptStep ==
  ASSUME LedgerTyped, LedgerTyped', QuietAlone, CreditsKept, L!Next
  PROVE  CreditsKept'
<1>0. \A i \in Invocations : Budgeted(i)
  BY DEF CreditsKept
<1>1. CASE Stays /\ UNCHANGED <<todo, busy, quiet, dropped>>
  <2>1. L!Balances' = L!Balances /\ L!InFlight' = L!InFlight
    BY <1>1, BalancesStay, InFlightStays
  <2>2. \A i \in Invocations : Budgeted(i)'
    BY <1>0, <1>1 DEF Budgeted, Taken, Within
  <2>3. StepsSound'
    <3>1. ASSUME NEW i \in Invocations, NEW k \in DOMAIN todo[i] PROVE Sound(todo[i][k])'
      <4>1. PICK s \in Steps(Tags \cup Events) :
              s = todo[i][k] /\ s.who \in Participants /\ Fits(i, s)
        BY <1>0, <3>1, DueStep
      <4>2. Sound(s)
        BY <3>1, <4>1 DEF CreditsKept, StepsSound
      <4>3. s.op = "set" => L!Registered(s.who)
        BY <4>1 DEF Fits
      <4>4. Sound(s)'
        BY <1>1, <4>1, <4>2, <4>3, SoundStays DEF Stays
      <4>. QED
        BY <1>1, <4>1, <4>4 DEF Sound
    <3>. QED
      BY <1>1, <3>1 DEF StepsSound
  <2>4. Books'
    BY <1>1, <2>1 DEF Books, CreditsKept, Stays, Net
  <2>. QED
    BY <1>1, <2>2, <2>3, <2>4 DEF CreditsKept, Stays
<1>2. ASSUME NEW i \in Invocations,
             \/ Reads(i) \/ Writes(i) \/ Enters(i)
             \/ Opens(i) /\ UNCHANGED dropped
             \/ L!Fail(i) /\ Stays
      PROVE  CreditsKept'
  BY <1>2, CreditsMoved
<1>. QED
  BY <1>0, <1>1, <1>2, CashStep

LEMMA CreditsKeptOn == ASSUME CreditsKept, UNCHANGED ledger PROVE CreditsKept'
<1>. USE DEF ledger
<1>1. (\A i \in Invocations : Budgeted(i))' /\ StepsSound'
  BY DEF CreditsKept, Budgeted, Taken, Within, StepsSound, Sound, L!Registered
<1>2. L!Balances' = L!Balances /\ L!InFlight' = L!InFlight
  BY DEF L!Balances, L!InFlight, L!Owing, L!Registered, L!Idle, L!Now
<1>3. Books'
  BY <1>2 DEF CreditsKept, Books, Net
<1>. QED
  BY <1>1, <1>3 DEF CreditsKept, Credits, L!Registered

\* Conserved: where every call about a participant waits for the one before it,
\* what the balances and the transfers under way hold together is what was
\* issued and what spends of a negative number of units gave, less what was
\* spent, less only the transfers a failure cut in two; and no balance that is
\* kept quiet is overdrawn (credits.ts transferCredits, spendCredits; agents.ts
\* adjustCredits, register).
THEOREM CreditsConserved == Spec => []Conserved
<1>. DEFINE Inv == LedgerHolds /\ CreditsKept
<1>1. Init => Inv
  BY PartsBegin, LedgerHoldsAtFirst, CreditsAtFirst DEF LedgerHolds
<1>2. Inv /\ [Next]_vars => Inv'
  <2>. SUFFICES ASSUME LedgerHolds, CreditsKept, [Next]_vars PROVE LedgerHolds' /\ CreditsKept'
    OBVIOUS
  <2>1. LedgerHolds'
    BY LedgerHoldsStep
  <2>2. CASE L!Next
    BY <2>1, <2>2, CreditsKeptStep DEF LedgerHolds
  <2>3. CASE UNCHANGED ledger
    BY <2>1, <2>3, CreditsKeptOn
  <2>. QED
    BY <2>1, <2>2, <2>3, PartsMove
<1>3. Inv => Conserved
  <2>. SUFFICES ASSUME LedgerHolds, CreditsKept PROVE Conserved
    OBVIOUS
  <2>. QED
    <3>1. issued - Net = (issued + made) - spent
      BY DEF CreditsKept, Net
    <3>2. \A p \in quiet \cap L!Rows : row[p].credits >= 0
      BY CreditsTyped DEF LedgerHolds, LedgerTyped, CreditsKept, L!Rows, Credits
    <3>. QED
      BY <3>1, <3>2 DEF CreditsKept, Books, Conserved, L!Conserved
<1>. HIDE DEF Inv
<1>. QED
  BY <1>1, <1>2, <1>3, PTL DEF Spec

-----------------------------------------------------------------------------
(* What a subscription buys *)

\* Where an invocation of a route or of the webhook stands.
AJob(at, sub, cap) == [at |-> at, sub |-> sub, cap |-> cap, seen |-> None]
Jobs ==
  {F!Rest}
    \cup {AJob("provision", s, None) : s \in Subscriptions}
    \cup {AJob(at, s, Promotes[s]) : at \in {"key", "begin", "end"}, s \in Subscriptions}
    \cup [at : {"place"}, sub : Subscriptions \cup {None}, cap : Capabilities, seen : BOOLEAN]

FulfilmentTyped ==
  /\ work \in [Workers -> Jobs]
  /\ key \in [Subscriptions -> Nat \cup {None}] /\ minted \in Nat
  /\ promoted \in [Capabilities -> BOOLEAN]

\* A call about an agent's or a customer's row that is kept apart is alone.
JobsApart ==
  \A v, w \in Workers : v # w => F!About(v) \cap F!About(w) \cap apart = {}

\* Every key so far is below the next, and one subscription's; the key handed
\* out last for a subscription kept apart is the one Stripe holds.
KeysStand ==
  /\ \A s \in Subscriptions : key[s] # None => key[s] < minted
  /\ \A h \in handed : h[1] \in Subscriptions /\ h[2] \in Nat /\ h[2] < minted
  /\ \A s, t \in Subscriptions : key[s] # None /\ key[s] = key[t] => s = t
  /\ \A w \in Workers : work[w].at \in {"provision", "key"} /\ work[w].sub \in apart =>
       key[work[w].sub] = None
  /\ F!KeyStands

\* The capability is paid for and the end of its subscription not claimed.
Paid(c) == \E s \in Subscriptions :
  Promotes[s] = c /\ F!Claimed("begin", s) /\ ~F!Claimed("end", s)

\* A write of the placement carries what the claims so far say.
PlacementsStand ==
  /\ \A c \in Capabilities : promoted[c] =>
       \E s \in Subscriptions : Promotes[s] = c /\ F!Claimed("begin", s)
  /\ \A w \in Workers : work[w].at = "place" /\ work[w].seen =>
       \E s \in Subscriptions : Promotes[s] = work[w].cap /\ F!Claimed("begin", s)
  /\ \A s \in Subscriptions : Promotes[s] \in apart /\ F!Claimed("end", s) =>
       F!Claimed("begin", s)
  /\ \A w \in Workers : work[w].at = "end" /\ work[w].cap \in apart =>
       F!Claimed("begin", work[w].sub)
  /\ \A c \in Capabilities \cap apart :
       (\A s, t \in Subscriptions : Promotes[s] = c /\ Promotes[t] = c => s = t) =>
         /\ \A w \in Workers : work[w].at = "place" /\ work[w].cap = c =>
              work[w].seen = Paid(c)
         /\ (\A w \in Workers : work[w].at = "place" => work[w].cap # c) =>
              promoted[c] = Paid(c)

LEMMA RestIsIdle == F!Rest = [at |-> "idle", sub |-> None, cap |-> None, seen |-> None]
BY DEF F!Rest, F!Job

\* The next-state relation of Fulfilment, one action per disjunct.
LEMMA FulfilmentSteps ==
  ASSUME F!Next
  PROVE  \/ \E w \in Workers, s \in Subscriptions :
              F!Provision(w, s) \/ F!Completed(w, s) \/ F!Deleted(w, s)
         \/ \E w \in Workers, c \in Capabilities : F!Upsert(w, c)
         \/ \E w \in Workers : \/ F!ProvisionWrite(w) \/ F!CompletedKey(w)
                               \/ F!Place(w) \/ F!Break(w)
         \/ \E w \in Workers, kind \in {"begin", "end"} : F!Claim(w, kind)
         \/ \E s \in Subscriptions : F!Checkout(s) \/ F!PromoteCheckout(s) \/ F!Cancel(s)
         \/ UNCHANGED fulfilment
BY DEF F!Next, F!Refused, F!vars, fulfilment

LEMMA FulfilmentTypedStep ==
  ASSUME FulfilmentTyped, F!Next \/ UNCHANGED fulfilment
  PROVE  FulfilmentTyped'
<1>. USE FulfilmentConstants DEF FulfilmentTyped
<1>0. CASE UNCHANGED fulfilment
  BY <1>0 DEF fulfilment
<1>1. ASSUME NEW w \in Workers, NEW s \in Subscriptions, F!Provision(w, s)
      PROVE  FulfilmentTyped'
  BY <1>1 DEF F!Provision, F!Start, F!Job, Jobs, AJob
<1>2. ASSUME NEW w \in Workers, NEW s \in Subscriptions, F!Completed(w, s)
      PROVE  FulfilmentTyped'
  BY <1>2 DEF F!Completed, F!Start, F!Job, Jobs, AJob
<1>3. ASSUME NEW w \in Workers, NEW s \in Subscriptions, F!Deleted(w, s)
      PROVE  FulfilmentTyped'
  BY <1>3 DEF F!Deleted, F!Start, F!Job, Jobs, AJob
<1>4. ASSUME NEW w \in Workers, NEW c \in Capabilities, F!Upsert(w, c)
      PROVE  FulfilmentTyped'
  <2>1. PICK read \in F!PlacementRead(c) : F!Start(w, F!Job("place", None, c, read))
    BY <1>4 DEF F!Upsert
  <2>2. read \in BOOLEAN
    BY <2>1 DEF F!PlacementRead
  <2>3. F!Job("place", None, c, read) \in Jobs
    BY <2>2 DEF F!Job, Jobs
  <2>. QED
    BY <1>4, <2>1, <2>3 DEF F!Upsert, F!Start
<1>5. ASSUME NEW w \in Workers, F!ProvisionWrite(w) PROVE FulfilmentTyped'
  BY <1>5, RestIsIdle DEF F!ProvisionWrite, F!WriteKey, F!Stop, F!Go, Jobs, AJob
<1>6. ASSUME NEW w \in Workers, F!CompletedKey(w) PROVE FulfilmentTyped'
  <2>1. PICK s \in Subscriptions : work[w] = AJob("key", s, Promotes[s])
    BY <1>6, RestIsIdle DEF F!CompletedKey, Jobs, AJob
  <2>2. [work[w] EXCEPT !.at = "begin"] = AJob("begin", s, Promotes[s])
    BY <2>1 DEF AJob
  <2>3. AJob("begin", s, Promotes[s]) \in Jobs
    BY DEF Jobs
  <2>. QED
    BY <1>6, <2>1, <2>2, <2>3 DEF F!CompletedKey, F!WriteKey, F!Go, AJob
<1>7. ASSUME NEW w \in Workers, F!Place(w) PROVE FulfilmentTyped'
  BY <1>7, RestIsIdle DEF F!Place, F!Stop, F!Go, Jobs, AJob
<1>8. ASSUME NEW w \in Workers, F!Break(w) PROVE FulfilmentTyped'
  BY <1>8 DEF F!Break, F!Stop, F!Go, Jobs
<1>9. ASSUME NEW w \in Workers, NEW kind \in {"begin", "end"}, F!Claim(w, kind)
      PROVE  FulfilmentTyped'
  <2>1. PICK s \in Subscriptions : work[w] = AJob(kind, s, Promotes[s])
    BY <1>9, RestIsIdle DEF F!Claim, Jobs, AJob
  <2>2. CASE F!Stop(w)
    BY <1>9, <2>2 DEF F!Claim, F!Stop, F!Go, Jobs
  <2>3. CASE ~F!Stop(w)
    <3>1. /\ work[w].cap # None
          /\ F!Go(w, F!Job("place", work[w].sub, work[w].cap, kind = "begin"))
      BY <1>9, <2>3 DEF F!Claim
    <3>2. DEFINE begins == kind = "begin"
    <3>3. begins \in BOOLEAN
      OBVIOUS
    <3>. HIDE DEF begins
    <3>. DEFINE placing == [at |-> "place", sub |-> s, cap |-> Promotes[s], seen |-> begins]
    <3>5. Promotes[s] \in Capabilities
      BY <2>1, <3>1 DEF AJob
    <3>6. placing \in Jobs
      <4>1. placing \in [at : {"place"}, sub : Subscriptions \cup {None},
                         cap : Capabilities, seen : BOOLEAN]
        BY <3>3, <3>5
      <4>. QED
        BY <4>1 DEF Jobs
    <3>. QED
      <4>2. work' = [work EXCEPT ![w] = placing]
        BY <2>1, <3>1 DEF F!Go, F!Job, AJob, begins
      <4>. QED
        BY <1>9, <3>6, <4>2 DEF F!Claim
  <2>. QED
    BY <2>2, <2>3
<1>10. ASSUME NEW s \in Subscriptions, F!Checkout(s) \/ F!PromoteCheckout(s) \/ F!Cancel(s)
       PROVE  FulfilmentTyped'
  BY <1>10 DEF F!Checkout, F!PromoteCheckout, F!Cancel
<1>. QED
  BY <1>0, <1>1, <1>2, <1>3, <1>4, <1>5, <1>6, <1>7, <1>8, <1>9, <1>10, FulfilmentSteps

LEMMA FulfilmentStarts == ASSUME F!Init PROVE FulfilmentTyped
BY DEF F!Init, FulfilmentTyped, Jobs

\* The jobs of a call: what they are about, by where they stand.
LEMMA JobFacts ==
  ASSUME FulfilmentTyped, NEW w \in Workers
  PROVE  /\ work[w] = F!Rest => F!About(w) = {} /\ work[w].at = "idle"
         /\ work[w].at \in {"provision", "key", "begin", "end"} =>
              work[w].sub \in Subscriptions /\ work[w].sub \in F!About(w)
         /\ work[w].at \in {"key", "begin", "end"} =>
              /\ work[w].cap = Promotes[work[w].sub]
              /\ work[w].cap # None => work[w].cap \in Capabilities /\ work[w].cap \in F!About(w)
         /\ work[w].at = "place" =>
              /\ work[w].cap \in Capabilities /\ work[w].cap \in F!About(w)
              /\ work[w].seen \in BOOLEAN
<1>. USE FulfilmentConstants, RestIsIdle DEF F!About, AJob
<1>1. work[w] \in Jobs
  BY DEF FulfilmentTyped
<1>2. CASE work[w] = F!Rest
  BY <1>2
<1>3. ASSUME NEW s \in Subscriptions, work[w] = AJob("provision", s, None)
      PROVE  /\ work[w].at = "provision" /\ work[w].sub = s /\ F!About(w) = {s}
  BY <1>3
<1>4. ASSUME NEW s \in Subscriptions, NEW at \in {"key", "begin", "end"},
             work[w] = AJob(at, s, Promotes[s])
      PROVE  /\ work[w].at = at /\ work[w].sub = s /\ work[w].cap = Promotes[s]
             /\ F!About(w) = {s, Promotes[s]} \ {None}
  BY <1>4
<1>5. ASSUME work[w] \in [at : {"place"}, sub : Subscriptions \cup {None},
                          cap : Capabilities, seen : BOOLEAN]
      PROVE  /\ work[w].at = "place" /\ work[w].cap \in Capabilities
             /\ work[w].cap \in F!About(w) /\ work[w].seen \in BOOLEAN
  BY <1>5
<1>6. work[w].at = "idle" \/ work[w] # F!Rest
  OBVIOUS
<1>. QED
  BY <1>1, <1>2, <1>3, <1>4, <1>5 DEF Jobs

\* A call goes on about what it was about, or starts about what no other is.
LEMMA JobsApartStep ==
  ASSUME FulfilmentTyped, FulfilmentTyped', JobsApart, F!Next \/ UNCHANGED fulfilment
  PROVE  JobsApart'
<1>. USE DEF JobsApart
<1>1. ASSUME UNCHANGED apart,
             NEW w \in Workers, \A v \in Workers \ {w} : work'[v] = work[v],
             F!About(w)' \subseteq F!About(w)
      PROVE  JobsApart'
  BY <1>1 DEF F!About
<1>2. ASSUME UNCHANGED apart,
             NEW w \in Workers, NEW next, F!Start(w, next)
      PROVE  JobsApart'
  <2>1. work' = [work EXCEPT ![w] = next] /\ work \in [Workers -> Jobs]
    BY <1>2 DEF F!Start, FulfilmentTyped
  <2>2. work'[w] = next /\ \A v \in Workers \ {w} : work'[v] = work[v]
    BY <2>1
  <2>3. F!About(w)' = {next.sub, next.cap} \ {None}
    BY <2>2 DEF F!About
  <2>4. \A v \in Workers : F!About(v) \cap F!About(w)' \cap apart = {}
    BY <1>2, <2>3 DEF F!Start
  <2>5. \A v \in Workers \ {w} : F!About(v)' = F!About(v)
    BY <2>2 DEF F!About
  <2>. QED
    BY <1>2, <2>4, <2>5
<1>3. CASE UNCHANGED fulfilment
  BY <1>3 DEF fulfilment, F!About
<1>4. ASSUME NEW w \in Workers, NEW s \in Subscriptions,
             F!Provision(w, s) \/ F!Completed(w, s) \/ F!Deleted(w, s)
      PROVE  JobsApart'
  BY <1>2, <1>4 DEF F!Provision, F!Completed, F!Deleted
<1>5. ASSUME NEW w \in Workers, NEW c \in Capabilities, F!Upsert(w, c) PROVE JobsApart'
  BY <1>2, <1>5 DEF F!Upsert
<1>6. ASSUME NEW w \in Workers, NEW kind \in {"begin", "end"},
             \/ F!ProvisionWrite(w) \/ F!CompletedKey(w) \/ F!Place(w) \/ F!Break(w)
             \/ F!Claim(w, kind)
      PROVE  JobsApart'
  <2>1. \/ F!Go(w, F!Rest) \/ F!Go(w, [work[w] EXCEPT !.at = "begin"])
        \/ F!Go(w, F!Job("place", work[w].sub, work[w].cap, kind = "begin"))
    BY <1>6 DEF F!ProvisionWrite, F!CompletedKey, F!Place, F!Break, F!Claim, F!Stop
  <2>2. work \in [Workers -> Jobs] /\ work[w] \in Jobs
    BY DEF FulfilmentTyped
  <2>3. work'[w].sub \in {None, work[w].sub} /\ work'[w].cap \in {None, work[w].cap}
    <3>1. \/ work'[w] = F!Rest
          \/ work'[w] = [work[w] EXCEPT !.at = "begin"]
          \/ work'[w] = F!Job("place", work[w].sub, work[w].cap, kind = "begin")
      BY <2>1, <2>2 DEF F!Go
    <3>2. CASE work'[w] = [work[w] EXCEPT !.at = "begin"]
      BY <2>2, <3>2, RestIsIdle DEF Jobs, AJob
    <3>. QED
      BY <3>1, <3>2, RestIsIdle DEF F!Job
  <2>. QED
    BY <1>1, <2>1, <2>2, <2>3 DEF F!Go, F!About
<1>7. ASSUME NEW s \in Subscriptions, F!Checkout(s) \/ F!PromoteCheckout(s) \/ F!Cancel(s)
      PROVE  JobsApart'
  BY <1>7 DEF F!Checkout, F!PromoteCheckout, F!Cancel, F!About
<1>. QED
  BY <1>3, <1>4, <1>5, <1>6, <1>7, FulfilmentSteps

\* A new key goes to a subscription that nobody else provisions.
LEMMA KeyWritten ==
  ASSUME FulfilmentTyped, JobsApart, KeysStand, NEW w \in Workers,
         work[w].at \in {"provision", "key"}, F!WriteKey(work[w].sub), UNCHANGED apart,
         \/ handed' = handed
         \/ handed' = handed \cup {<<work[w].sub, minted>>},
         \A v \in Workers \ {w} : work'[v] = work[v],
         work'[w].at \notin {"provision", "key"}
  PROVE  KeysStand'
<1>. DEFINE s == work[w].sub
<1>1. /\ s \in Subscriptions /\ key' = [key EXCEPT ![s] = minted] /\ minted' = minted + 1
      /\ minted \in Nat /\ minted # None
  BY JobFacts, FulfilmentConstants DEF F!WriteKey, FulfilmentTyped
<1>2. /\ key \in [Subscriptions -> Nat \cup {None}] /\ key'[s] = minted
      /\ \A t \in Subscriptions \ {s} : key'[t] = key[t]
  BY <1>1 DEF FulfilmentTyped
<1>3. s \in apart => key[s] = None
  BY DEF KeysStand
<1>4. \A h \in handed : h[1] # s \/ s \notin apart
  BY <1>3, FulfilmentConstants DEF KeysStand, F!KeyStands
<1>5. \A h \in handed' : h \in handed \/ (h[1] = s /\ h[2] = minted)
  OBVIOUS
<1>6. \A v \in Workers : work'[v].at \in {"provision", "key"} /\ work'[v].sub \in apart =>
        work[v] = work'[v] /\ work[v].sub # s /\ work[v].sub \in Subscriptions
  <2>1. TAKE v \in Workers
  <2>2. HAVE work'[v].at \in {"provision", "key"} /\ work'[v].sub \in apart
  <2>3. v # w /\ work[v] = work'[v]
    BY <2>2
  <2>4. s \in F!About(w) /\ work[v].sub \in F!About(v) /\ work[v].sub \in Subscriptions
    BY <2>2, <2>3, JobFacts
  <2>. QED
    BY <2>2, <2>3, <2>4 DEF JobsApart
<1>. HIDE DEF s
<1>7. \A t \in Subscriptions : key'[t] # None => key'[t] < minted'
  BY <1>1, <1>2 DEF KeysStand
<1>8. \A h \in handed' : h[1] \in Subscriptions /\ h[2] \in Nat /\ h[2] < minted'
  BY <1>1, <1>5 DEF KeysStand
<1>9. \A t, u \in Subscriptions : key'[t] # None /\ key'[t] = key'[u] => t = u
  BY <1>1, <1>2 DEF KeysStand
<1>10. \A v \in Workers : work'[v].at \in {"provision", "key"} /\ work'[v].sub \in apart' =>
         key'[work'[v].sub] = None
  BY <1>2, <1>6 DEF KeysStand
<1>11. F!KeyStands'
  <2>1. \A h \in handed' : h[1] \in apart' => key'[h[1]] = h[2]
    BY <1>2, <1>4, <1>5 DEF KeysStand, F!KeyStands
  <2>2. \A g, h \in handed' : g[2] = h[2] => g[1] = h[1]
    BY <1>1, <1>5 DEF KeysStand, F!KeyStands
  <2>3. \A h \in handed', t \in Subscriptions : key'[t] = h[2] => t = h[1]
    BY <1>1, <1>2, <1>5, FulfilmentConstants DEF KeysStand, F!KeyStands
  <2>. QED
    BY <2>1, <2>2, <2>3 DEF F!KeyStands
<1>. QED
  BY <1>7, <1>8, <1>9, <1>10, <1>11 DEF KeysStand

LEMMA KeysStandStep ==
  ASSUME FulfilmentTyped, FulfilmentTyped', JobsApart, KeysStand,
         F!Next \/ UNCHANGED fulfilment
  PROVE  KeysStand'
<1>1. ASSUME UNCHANGED <<apart, key, minted, handed>>, NEW w \in Workers,
             \A v \in Workers \ {w} : work'[v] = work[v],
             work'[w].at \in {"provision", "key"} /\ work'[w].sub \in apart =>
               key[work'[w].sub] = None
      PROVE  KeysStand'
  BY <1>1 DEF KeysStand, F!KeyStands
<1>2. work \in [Workers -> Jobs] /\ \A w \in Workers : work[w] \in Jobs
  BY DEF FulfilmentTyped
<1>3. CASE UNCHANGED fulfilment
  BY <1>3 DEF fulfilment, KeysStand, F!KeyStands
<1>4. ASSUME NEW w \in Workers, NEW s \in Subscriptions, F!Provision(w, s)
      PROVE  KeysStand'
  <2>1. CASE key[s] = None
    BY <1>1, <1>2, <1>4, <2>1 DEF F!Provision, F!Start, F!Job
  <2>2. CASE key[s] # None
    <3>1. /\ UNCHANGED <<apart, key, minted>> /\ handed' = handed \cup {<<s, key[s]>>}
          /\ \A v \in Workers \ {w} : work'[v] = work[v]
          /\ work'[w] = F!Rest /\ key[s] \in Nat
      BY <1>2, <1>4, <2>2 DEF F!Provision, F!Start, FulfilmentTyped
    <3>2. \A h \in handed' : h \in handed \/ (h[1] = s /\ h[2] = key[s])
      BY <3>1
    <3>3. \A v \in Workers : work'[v].at \in {"provision", "key"} => work'[v] = work[v]
      BY <3>1, RestIsIdle
    <3>4. F!KeyStands'
      <4>1. \A h \in handed' : h[1] \in apart' => key'[h[1]] = h[2]
        BY <3>1, <3>2 DEF KeysStand, F!KeyStands
      <4>2. \A g, h \in handed' : g[2] = h[2] => g[1] = h[1]
        BY <3>1, <3>2 DEF KeysStand, F!KeyStands
      <4>3. \A h \in handed', t \in Subscriptions : key'[t] = h[2] => t = h[1]
        BY <2>2, <3>1, <3>2 DEF KeysStand, F!KeyStands
      <4>. QED
        BY <4>1, <4>2, <4>3 DEF F!KeyStands
    <3>5. \A h \in handed' : h[1] \in Subscriptions /\ h[2] \in Nat /\ h[2] < minted'
      BY <2>2, <3>1, <3>2 DEF KeysStand
    <3>. QED
      BY <3>1, <3>3, <3>4, <3>5 DEF KeysStand
  <2>. QED
    BY <2>1, <2>2
<1>5. ASSUME NEW w \in Workers, NEW s \in Subscriptions, F!Completed(w, s) \/ F!Deleted(w, s)
      PROVE  KeysStand'
  <2>1. work'[w].at = "key" => key[s] = None
    BY <1>2, <1>5 DEF F!Completed, F!Deleted, F!Start, F!Job
  <2>2. work'[w].at # "provision" /\ work'[w].sub = s
    BY <1>2, <1>5 DEF F!Completed, F!Deleted, F!Start, F!Job
  <2>. QED
    BY <1>1, <1>2, <1>5, <2>1, <2>2 DEF F!Completed, F!Deleted, F!Start
<1>6. ASSUME NEW w \in Workers, NEW c \in Capabilities, F!Upsert(w, c) PROVE KeysStand'
  BY <1>1, <1>2, <1>6 DEF F!Upsert, F!Start, F!Job
<1>7. ASSUME NEW w \in Workers, F!ProvisionWrite(w) PROVE KeysStand'
  BY <1>2, <1>7, KeyWritten, RestIsIdle DEF F!ProvisionWrite, F!Stop, F!Go
<1>8. ASSUME NEW w \in Workers, F!CompletedKey(w) PROVE KeysStand'
  <2>1. work'[w] = [work[w] EXCEPT !.at = "begin"]
    BY <1>2, <1>8 DEF F!CompletedKey, F!Go
  <2>2. work'[w].at = "begin"
    BY <1>2, <2>1, RestIsIdle DEF Jobs, AJob
  <2>. QED
    BY <1>2, <1>8, <2>2, KeyWritten DEF F!CompletedKey, F!Go
<1>9. ASSUME NEW w \in Workers, NEW kind \in {"begin", "end"},
             F!Place(w) \/ F!Break(w) \/ F!Claim(w, kind)
      PROVE  KeysStand'
  <2>1. work'[w].at \notin {"provision", "key"}
    BY <1>2, <1>9, RestIsIdle DEF F!Place, F!Break, F!Claim, F!Stop, F!Go, F!Job
  <2>. QED
    BY <1>1, <1>2, <1>9, <2>1 DEF F!Place, F!Break, F!Claim, F!Stop, F!Go
<1>10. ASSUME NEW s \in Subscriptions, F!Checkout(s) \/ F!PromoteCheckout(s) \/ F!Cancel(s)
       PROVE  KeysStand'
  BY <1>10 DEF F!Checkout, F!PromoteCheckout, F!Cancel, KeysStand, F!KeyStands
<1>. QED
  BY <1>3, <1>4, <1>5, <1>6, <1>7, <1>8, <1>9, <1>10, FulfilmentSteps

\* Nothing of the placements changes but where one invocation stands.
LEMMA PlacementsStay ==
  ASSUME FulfilmentTyped, PlacementsStand, NEW w \in Workers,
         UNCHANGED <<apart, events, promoted>>,
         \A v \in Workers \ {w} : work'[v] = work[v],
         work'[w].at # "place",
         work[w].at = "place" => work[w].cap \notin apart,
         work'[w].at = "end" /\ work'[w].cap \in apart => F!Claimed("begin", work'[w].sub)
  PROVE  PlacementsStand'
<1>1. \A c : Paid(c)' = Paid(c)
  BY DEF Paid, F!Claimed, F!Event
<1>2. \A v \in Workers : work'[v].at = "place" => work'[v] = work[v]
  OBVIOUS
<1>3. \A c \in Capabilities \cap apart :
        (\A v \in Workers : work'[v].at = "place" => work'[v].cap # c) =>
          \A v \in Workers : work[v].at = "place" => work[v].cap # c
  OBVIOUS
<1>4. \A s : F!Claimed("begin", s)' = F!Claimed("begin", s)
        /\ F!Claimed("end", s)' = F!Claimed("end", s)
  BY DEF F!Claimed, F!Event
<1>5. \A v \in Workers : work'[v].at = "end" /\ work'[v].cap \in apart =>
        F!Claimed("begin", work'[v].sub)
  BY DEF PlacementsStand
<1>6. \A c \in Capabilities \cap apart' :
       (\A s, t \in Subscriptions : Promotes[s] = c /\ Promotes[t] = c => s = t) =>
         /\ \A v \in Workers : work'[v].at = "place" /\ work'[v].cap = c =>
              work'[v].seen = Paid(c)'
         /\ (\A v \in Workers : work'[v].at = "place" => work'[v].cap # c) =>
              promoted'[c] = Paid(c)'
  BY <1>1, <1>2, <1>3 DEF PlacementsStand
<1>7. \A c \in Capabilities : promoted'[c] =>
       \E s \in Subscriptions : Promotes[s] = c /\ F!Claimed("begin", s)'
  BY <1>4 DEF PlacementsStand
<1>8. \A v \in Workers : work'[v].at = "place" /\ work'[v].seen =>
       \E s \in Subscriptions : Promotes[s] = work'[v].cap /\ F!Claimed("begin", s)'
  BY <1>2, <1>4 DEF PlacementsStand
<1>9. \A s \in Subscriptions : Promotes[s] \in apart' /\ F!Claimed("end", s)' =>
       F!Claimed("begin", s)'
  BY <1>4 DEF PlacementsStand
<1>. QED
  BY <1>4, <1>5, <1>6, <1>7, <1>8, <1>9 DEF PlacementsStand

\* A call about a capability kept apart starts when nothing is written to it.
LEMMA PlacementAlone ==
  ASSUME FulfilmentTyped, NEW w \in Workers, NEW next, F!Start(w, next),
         next.cap \in Capabilities \cap apart
  PROVE  \A v \in Workers : work[v].at = "place" => work[v].cap # next.cap
<1>1. next.cap # None
  BY FulfilmentConstants
<1>. QED
  BY <1>1, JobFacts DEF F!Start

LEMMA UpsertPlaces ==
  ASSUME FulfilmentTyped, PlacementsStand, NEW w \in Workers, NEW c \in Capabilities,
         F!Upsert(w, c)
  PROVE  PlacementsStand'
<1>1. PICK read \in F!PlacementRead(c) : F!Start(w, F!Job("place", None, c, read))
  BY DEF F!Upsert
<1>2. /\ work'[w] = F!Job("place", None, c, read) /\ work[w] = F!Rest
      /\ \A v \in Workers \ {w} : work'[v] = work[v]
      /\ UNCHANGED <<apart, events, promoted>>
  BY <1>1 DEF F!Start, F!Upsert, FulfilmentTyped
<1>3. /\ work'[w].at = "place" /\ work'[w].cap = c /\ work'[w].seen = read
      /\ work[w].at = "idle"
  BY <1>2, RestIsIdle DEF F!Job
<1>4. \A k : Paid(k)' = Paid(k)
  BY <1>2 DEF Paid, F!Claimed, F!Event
<1>5. read = promoted[c] \/ (c \notin apart /\ read = FALSE)
  BY <1>1 DEF F!PlacementRead
<1>6. c \in apart => \A v \in Workers : work[v].at = "place" => work[v].cap # c
  BY <1>1, PlacementAlone DEF F!Job
<1>7. \A s : F!Claimed("begin", s)' = F!Claimed("begin", s)
        /\ F!Claimed("end", s)' = F!Claimed("end", s)
  BY <1>2 DEF F!Claimed, F!Event
<1>8. promoted[c] \in BOOLEAN
  BY DEF FulfilmentTyped
<1>9. \A v \in Workers : work'[v].at = "place" /\ work'[v].seen =>
       \E s \in Subscriptions : Promotes[s] = work'[v].cap /\ F!Claimed("begin", s)'
  <2>1. read => \E s \in Subscriptions : Promotes[s] = c /\ F!Claimed("begin", s)
    BY <1>5 DEF PlacementsStand
  <2>. QED
    BY <1>2, <1>3, <1>7, <2>1 DEF PlacementsStand
<1>10. \A v \in Workers : work'[v].at = "end" /\ work'[v].cap \in apart =>
        F!Claimed("begin", work'[v].sub)
  BY <1>2, <1>3 DEF PlacementsStand
<1>11. \A k \in Capabilities \cap apart' :
       (\A s, t \in Subscriptions : Promotes[s] = k /\ Promotes[t] = k => s = t) =>
         /\ \A v \in Workers : work'[v].at = "place" /\ work'[v].cap = k =>
              work'[v].seen = Paid(k)'
         /\ (\A v \in Workers : work'[v].at = "place" => work'[v].cap # k) =>
              promoted'[k] = Paid(k)'
  <2>1. TAKE k \in Capabilities \cap apart'
  <2>2. HAVE \A s, t \in Subscriptions : Promotes[s] = k /\ Promotes[t] = k => s = t
  <2>3. /\ \A v \in Workers : work[v].at = "place" /\ work[v].cap = k => work[v].seen = Paid(k)
        /\ (\A v \in Workers : work[v].at = "place" => work[v].cap # k) => promoted[k] = Paid(k)
    BY <1>2, <2>2 DEF PlacementsStand
  <2>4. CASE k = c
    BY <1>2, <1>3, <1>4, <1>5, <1>6, <2>3, <2>4
  <2>5. CASE k # c
    BY <1>2, <1>3, <1>4, <2>3, <2>5
  <2>. QED
    BY <2>4, <2>5
<1>. QED
  BY <1>2, <1>7, <1>9, <1>10, <1>11 DEF PlacementsStand

LEMMA PlaceWrites ==
  ASSUME FulfilmentTyped, JobsApart, PlacementsStand, NEW w \in Workers, F!Place(w)
  PROVE  PlacementsStand'
<1>. DEFINE c == work[w].cap
<1>1. /\ work[w].at = "place" /\ c \in Capabilities /\ work[w].seen \in BOOLEAN
      /\ c \in F!About(w)
  BY JobFacts DEF F!Place
<1>2. /\ promoted' = [promoted EXCEPT ![c] = work[w].seen]
      /\ work'[w] = F!Rest /\ \A v \in Workers \ {w} : work'[v] = work[v]
      /\ UNCHANGED <<apart, events>>
  BY DEF F!Place, F!Stop, F!Go, FulfilmentTyped
<1>3. /\ promoted'[c] = work[w].seen
      /\ \A k \in Capabilities \ {c} : promoted'[k] = promoted[k]
  BY <1>1, <1>2 DEF FulfilmentTyped
<1>4. c \in apart => \A v \in Workers \ {w} : work[v].at = "place" => work[v].cap # c
  BY <1>1, JobFacts DEF JobsApart
<1>5. work'[w].at = "idle"
  BY <1>2, RestIsIdle
<1>6. \A k : Paid(k)' = Paid(k)
  BY <1>2 DEF Paid, F!Claimed, F!Event
<1>7. \A s : F!Claimed("begin", s)' = F!Claimed("begin", s)
        /\ F!Claimed("end", s)' = F!Claimed("end", s)
  BY <1>2 DEF F!Claimed, F!Event
<1>8. \A k \in Capabilities : promoted'[k] =>
       \E s \in Subscriptions : Promotes[s] = k /\ F!Claimed("begin", s)'
  <2>1. TAKE k \in Capabilities
  <2>2. CASE k = c
    BY <1>1, <1>3, <1>7, <2>2 DEF PlacementsStand
  <2>3. CASE k # c
    BY <1>3, <1>7, <2>3 DEF PlacementsStand
  <2>. QED
    BY <2>2, <2>3
<1>9. \A k \in Capabilities \cap apart' :
       (\A s, t \in Subscriptions : Promotes[s] = k /\ Promotes[t] = k => s = t) =>
         /\ \A v \in Workers : work'[v].at = "place" /\ work'[v].cap = k =>
              work'[v].seen = Paid(k)'
         /\ (\A v \in Workers : work'[v].at = "place" => work'[v].cap # k) =>
              promoted'[k] = Paid(k)'
  <2>1. TAKE k \in Capabilities \cap apart'
  <2>2. HAVE \A s, t \in Subscriptions : Promotes[s] = k /\ Promotes[t] = k => s = t
  <2>3. /\ \A v \in Workers : work[v].at = "place" /\ work[v].cap = k => work[v].seen = Paid(k)
        /\ (\A v \in Workers : work[v].at = "place" => work[v].cap # k) => promoted[k] = Paid(k)
    BY <1>2, <2>2 DEF PlacementsStand
  <2>4. CASE k = c
    <3>1. promoted'[k] = Paid(k)
      BY <1>1, <1>3, <2>3, <2>4
    <3>2. \A v \in Workers : work'[v].at = "place" => work'[v].cap # k
      BY <1>2, <1>4, <1>5, <2>4
    <3>. QED
      BY <1>6, <3>1, <3>2
  <2>5. CASE k # c
    <3>1. promoted'[k] = promoted[k]
      BY <1>3, <2>5
    <3>2. (\A v \in Workers : work'[v].at = "place" => work'[v].cap # k) =>
            \A v \in Workers : work[v].at = "place" => work[v].cap # k
      BY <1>2, <2>5
    <3>3. \A v \in Workers : work'[v].at = "place" => work'[v] = work[v]
      BY <1>2, <1>5
    <3>. QED
      BY <1>6, <2>3, <3>1, <3>2, <3>3
  <2>. QED
    BY <2>4, <2>5
<1>10. \A v \in Workers : work'[v].at = "place" /\ work'[v].seen =>
       \E s \in Subscriptions : Promotes[s] = work'[v].cap /\ F!Claimed("begin", s)'
  BY <1>2, <1>5, <1>7 DEF PlacementsStand
<1>11. \A v \in Workers : work'[v].at = "end" /\ work'[v].cap \in apart =>
        F!Claimed("begin", work'[v].sub)
  BY <1>2, <1>5 DEF PlacementsStand
<1>. QED
  BY <1>2, <1>7, <1>8, <1>9, <1>10, <1>11 DEF PlacementsStand

\* The first claim of an event is followed by the write it stands for.
LEMMA ClaimPlaces ==
  ASSUME FulfilmentTyped, JobsApart, PlacementsStand, NEW w \in Workers,
         NEW kind \in {"begin", "end"}, F!Claim(w, kind)
  PROVE  PlacementsStand'
<1>. DEFINE begins == kind = "begin"
<1>0. PICK s \in Subscriptions, c \in Capabilities \cup {None} :
        s = work[w].sub /\ c = work[w].cap
  BY JobFacts DEF F!Claim
<1>1. /\ work[w].at = kind /\ s \in Subscriptions /\ c = Promotes[s]
      /\ c # None => c \in Capabilities /\ c \in F!About(w)
      /\ UNCHANGED <<apart, promoted>>
  BY <1>0, JobFacts DEF F!Claim, F!Go, F!Stop
<1>2. CASE F!Stop(w) /\ UNCHANGED events
  BY <1>1, <1>2, PlacementsStay, RestIsIdle DEF F!Stop, F!Go, FulfilmentTyped
<1>3. CASE ~(F!Stop(w) /\ UNCHANGED events)
  <2>1. /\ c # None /\ ~F!Claimed(kind, s) /\ events' = events \cup {F!Event(kind, s)}
        /\ F!Go(w, F!Job("place", s, c, begins))
    BY <1>0, <1>3 DEF F!Claim
  <2>2. /\ work'[w] = F!Job("place", s, c, begins)
        /\ \A v \in Workers \ {w} : work'[v] = work[v]
    BY <2>1 DEF F!Go, FulfilmentTyped
  <2>. HIDE DEF begins
  <2>3. /\ work'[w].at = "place" /\ work'[w].sub = s /\ work'[w].cap = c
        /\ work'[w].seen = begins
    BY <2>2 DEF F!Job
  <2>4. begins \in BOOLEAN /\ (begins <=> kind = "begin")
    BY DEF begins
  <2>5. \A k \in {"begin", "end"}, t \in Subscriptions :
          F!Claimed(k, t)' <=> F!Claimed(k, t) \/ (k = kind /\ t = s)
    BY <2>1 DEF F!Claimed, F!Event
  <2>6. \A t \in Subscriptions : F!Claimed("begin", t) => F!Claimed("begin", t)'
    BY <2>5
  <2>7. c \in apart => \A v \in Workers \ {w} : work[v].at = "place" => work[v].cap # c
    BY <1>0, <1>1, <2>1, JobFacts DEF JobsApart
  <2>8. kind = "end" /\ c \in apart => F!Claimed("begin", s)
    BY <1>0, <1>1 DEF PlacementsStand
  <2>9. c \in apart => ~F!Claimed("end", s)
    BY <1>1, <2>1 DEF PlacementsStand
  <2>10. \A k \in Capabilities : promoted'[k] =>
         \E t \in Subscriptions : Promotes[t] = k /\ F!Claimed("begin", t)'
    BY <1>1, <2>6 DEF PlacementsStand
  <2>11. \A v \in Workers : work'[v].at = "place" /\ work'[v].seen =>
         \E t \in Subscriptions : Promotes[t] = work'[v].cap /\ F!Claimed("begin", t)'
    <3>1. begins => F!Claimed("begin", s)'
      BY <1>1, <2>4, <2>5
    <3>. QED
      BY <1>1, <2>2, <2>3, <2>6, <3>1 DEF PlacementsStand
  <2>12. \A t \in Subscriptions : Promotes[t] \in apart /\ F!Claimed("end", t)' =>
         F!Claimed("begin", t)'
    BY <1>1, <2>5, <2>6, <2>8 DEF PlacementsStand
  <2>13. \A v \in Workers : work'[v].at = "end" /\ work'[v].cap \in apart =>
         F!Event("begin", work'[v].sub) \in events'
    <3>1. TAKE v \in Workers
    <3>2. HAVE work'[v].at = "end" /\ work'[v].cap \in apart
    <3>3. v # w /\ work'[v] = work[v]
      BY <2>2, <2>3, <3>2
    <3>4. work[v].sub \in Subscriptions
      BY <3>2, <3>3, JobFacts
    <3>. QED
      BY <1>1, <2>1, <3>2, <3>3, <3>4 DEF PlacementsStand, F!Claimed
  <2>14. \A k \in Capabilities \cap apart :
       (\A t, u \in Subscriptions : Promotes[t] = k /\ Promotes[u] = k => t = u) =>
         /\ \A v \in Workers : work'[v].at = "place" /\ work'[v].cap = k =>
              work'[v].seen = Paid(k)'
         /\ (\A v \in Workers : work'[v].at = "place" => work'[v].cap # k) =>
              promoted'[k] = Paid(k)'
    <3>1. TAKE k \in Capabilities \cap apart
    <3>2. HAVE \A t, u \in Subscriptions : Promotes[t] = k /\ Promotes[u] = k => t = u
    <3>3. /\ \A v \in Workers : work[v].at = "place" /\ work[v].cap = k =>
               work[v].seen = Paid(k)
          /\ (\A v \in Workers : work[v].at = "place" => work[v].cap # k) =>
               promoted[k] = Paid(k)
      BY <3>2 DEF PlacementsStand
    <3>4. CASE k = c
      <4>1. \A t \in Subscriptions : Promotes[t] = k => t = s
        BY <1>1, <3>2, <3>4
      <4>2. Paid(k)' = (F!Claimed("begin", s)' /\ ~F!Claimed("end", s)')
        BY <1>1, <3>4, <4>1 DEF Paid
      <4>3. Paid(k)' = begins
        BY <1>1, <2>4, <2>5, <2>8, <2>9, <3>4, <4>2
      <4>. QED
        BY <2>2, <2>3, <2>7, <3>4, <4>3
    <3>5. CASE k # c
      <4>1. Paid(k)' = Paid(k)
        BY <1>1, <2>5, <3>5 DEF Paid
      <4>. QED
        BY <1>1, <2>2, <2>3, <3>3, <3>5, <4>1
    <3>. QED
      BY <3>4, <3>5
  <2>. QED
    BY <1>1, <2>10, <2>11, <2>12, <2>13, <2>14 DEF PlacementsStand, F!Claimed
<1>. QED
  BY <1>2, <1>3

LEMMA PlacementsStandStep ==
  ASSUME FulfilmentTyped, FulfilmentTyped', JobsApart, PlacementsStand,
         F!Next \/ UNCHANGED fulfilment
  PROVE  PlacementsStand'
<1>1. ASSUME UNCHANGED <<apart, events, promoted, work>> PROVE PlacementsStand'
  <2>1. \A kind, s : F!Claimed(kind, s)' = F!Claimed(kind, s)
    BY <1>1 DEF F!Claimed, F!Event
  <2>2. \A c : Paid(c)' = Paid(c)
    BY <2>1 DEF Paid
  <2>. QED
    BY <1>1, <2>1, <2>2 DEF PlacementsStand
<1>2. work \in [Workers -> Jobs] /\ \A w \in Workers : work[w] \in Jobs
  BY DEF FulfilmentTyped
<1>3. CASE UNCHANGED fulfilment
  BY <1>1, <1>3 DEF fulfilment
<1>4. ASSUME NEW w \in Workers, NEW s \in Subscriptions,
             F!Provision(w, s) \/ F!Completed(w, s) \/ F!Deleted(w, s)
      PROVE  PlacementsStand'
  <2>1. PICK next : F!Start(w, next)
    BY <1>4 DEF F!Provision, F!Completed, F!Deleted
  <2>2. work[w].at = "idle" /\ \A v \in Workers \ {w} : work'[v] = work[v]
    BY <1>2, <2>1, RestIsIdle DEF F!Start
  <2>3. /\ work'[w].at # "place"
        /\ work'[w].at = "end" =>
             /\ work'[w].cap = Promotes[s] /\ work'[w].sub = s
             /\ Promotes[s] \in apart => F!Claimed("begin", s)
    BY <1>2, <1>4, RestIsIdle DEF F!Provision, F!Completed, F!Deleted, F!Start, F!Job
  <2>4. UNCHANGED <<apart, events, promoted>>
    BY <1>4 DEF F!Provision, F!Completed, F!Deleted
  <2>. QED
    BY <2>2, <2>3, <2>4, PlacementsStay
<1>5. ASSUME NEW w \in Workers, NEW c \in Capabilities, F!Upsert(w, c) PROVE PlacementsStand'
  BY <1>5, UpsertPlaces
<1>6. ASSUME NEW w \in Workers, F!ProvisionWrite(w) \/ F!Break(w) PROVE PlacementsStand'
  BY <1>2, <1>6, PlacementsStay, RestIsIdle DEF F!ProvisionWrite, F!Break, F!Stop, F!Go
<1>7. ASSUME NEW w \in Workers, F!CompletedKey(w) PROVE PlacementsStand'
  <2>1. work'[w] = [work[w] EXCEPT !.at = "begin"]
    BY <1>2, <1>7 DEF F!CompletedKey, F!Go
  <2>2. work'[w].at = "begin"
    BY <1>2, <2>1, RestIsIdle DEF Jobs, AJob
  <2>. QED
    BY <1>2, <1>7, <2>2, PlacementsStay DEF F!CompletedKey, F!Go
<1>8. ASSUME NEW w \in Workers, F!Place(w) PROVE PlacementsStand'
  BY <1>8, PlaceWrites
<1>9. ASSUME NEW w \in Workers, NEW kind \in {"begin", "end"}, F!Claim(w, kind)
      PROVE  PlacementsStand'
  BY <1>9, ClaimPlaces
<1>10. ASSUME NEW s \in Subscriptions, F!Checkout(s) \/ F!PromoteCheckout(s) \/ F!Cancel(s)
       PROVE  PlacementsStand'
  BY <1>1, <1>10 DEF F!Checkout, F!PromoteCheckout, F!Cancel
<1>. QED
  BY <1>3, <1>4, <1>5, <1>6, <1>7, <1>8, <1>9, <1>10, FulfilmentSteps

FulfilmentInv == FulfilmentTyped /\ JobsApart /\ KeysStand /\ PlacementsStand

LEMMA PlacementsAreWhatIsPaid ==
  ASSUME FulfilmentTyped, PlacementsStand
  PROVE  F!PlacementIsPaid
<1>1. ASSUME NEW c \in Capabilities
      PROVE  Paid(c) = \E s \in {s \in Subscriptions : Promotes[s] = c} :
                         F!Claimed("begin", s) /\ ~F!Claimed("end", s)
  BY DEF Paid
<1>2. ASSUME NEW c \in Capabilities
      PROVE  promoted[c] =>
               \E s \in {s \in Subscriptions : Promotes[s] = c} : F!Claimed("begin", s)
  BY DEF PlacementsStand
<1>3. ASSUME NEW c \in Capabilities, c \in apart,
             \A s, t \in {s \in Subscriptions : Promotes[s] = c} : s = t,
             \A w \in Workers : work[w].at = "place" => work[w].cap # c
      PROVE  promoted[c] = Paid(c)
  BY <1>3 DEF PlacementsStand
<1>. QED
  BY <1>1, <1>2, <1>3 DEF F!PlacementIsPaid

LEMMA FulfilmentBegins == ASSUME Init PROVE FulfilmentInv
<1>1. F!Init
  BY PartsBegin
<1>2. FulfilmentTyped
  BY <1>1, FulfilmentStarts
<1>3. \A w \in Workers : work[w] = F!Rest
  BY <1>1 DEF F!Init
<1>4. JobsApart
  BY <1>2, <1>3, JobFacts DEF JobsApart
<1>5. KeysStand
  BY <1>1, <1>3, RestIsIdle, FulfilmentConstants DEF F!Init, KeysStand, F!KeyStands
<1>6. PlacementsStand
  BY <1>1, <1>3, RestIsIdle DEF F!Init, PlacementsStand, Paid, F!Claimed
<1>. QED
  BY <1>2, <1>4, <1>5, <1>6 DEF FulfilmentInv

LEMMA FulfilmentMoves == ASSUME FulfilmentInv, [Next]_vars PROVE FulfilmentInv'
BY PartsMove, FulfilmentTypedStep, JobsApartStep, KeysStandStep, PlacementsStandStep
DEF FulfilmentInv

\* A merchant key handed out is the one Stripe holds, however the success page
\* and the webhook race, unless two calls provision one subscription at once
\* (provision/route.ts, webhook/stripe/route.ts); a capability is promoted only
\* once a checkout for it was claimed, and one nothing interferes with while it
\* is paid for (capabilities.ts setCapabilityPromotion).
THEOREM SubscriptionsStand == Spec => []SubscriptionsHold
<1>1. Init => FulfilmentInv
  BY FulfilmentBegins
<1>2. FulfilmentInv /\ [Next]_vars => FulfilmentInv'
  BY FulfilmentMoves
<1>3. FulfilmentInv => SubscriptionsHold
  BY PlacementsAreWhatIsPaid DEF FulfilmentInv, KeysStand, SubscriptionsHold
<1>. QED
  BY <1>1, <1>2, <1>3, PTL DEF Spec
=============================================================================
