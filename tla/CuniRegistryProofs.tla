------------------------- MODULE CuniRegistryProofs -------------------------
(***************************************************************************)
(* Proofs about CuniRegistry for every number of processes, workers and    *)
(* calls.  Argument: a contract's row never changes once it is there, and  *)
(* everybody is told what it says (ToldTheRow).  In one process that never *)
(* restarts a receipt reaches the database after memory, so nothing is     *)
(* ever read back over what memory has merged (MemoryFirst); where calls   *)
(* do not overlap, memory and database differ by the write under way.      *)
(***************************************************************************)
EXTENDS CuniRegistry, FiniteSetTheorems, TLAPS

Records == [id : Ids, bind : SUBSET Keys]

\* What an invocation holds up to the binding of a receipt, and after it.
Fresh == [at : {"lookup", "insert", "raced", "bind"}, process : Processes, hash : Hashes,
          receipt : Hashes \cup {None}, id : Ids, bind : SUBSET Keys]
Writing == [at : {"upsert", "keep"}, process : Processes, hash : Hashes, record : Records]

\* What the constants stand for: None is no value, and "contract_id" is a key.
Constants ==
  /\ MaxMinted \in Nat /\ First \in Processes /\ "contract_id" \in Keys
  /\ None \notin Ids \cup Records \cup Fresh \cup Writing

Shapes ==
  /\ minted \in Ids
  /\ contracts \in [Hashes -> Ids \cup {None}]
  /\ memory \in [Processes -> [Hashes -> Records \cup {None}]]
  /\ receipts \in [Hashes -> Records \cup {None}]
  /\ request \in [Workers -> Fresh \cup Writing \cup {None}]
  /\ registered \subseteq [hash : Hashes, id : Ids, idempotent : BOOLEAN]
  /\ bound \subseteq [hash : Hashes, id : Ids, bind : SUBSET Keys]

ToldTheRow ==
  /\ \A x \in registered : contracts[x.hash] = x.id
  /\ \A w \in Workers : At(w, "raced") => contracts[request[w].hash] # None

MemoryFirst ==
  alone =>
    /\ \A w \in Workers : request[w] # None => request[w].process = First /\ ~At(w, "keep")
    /\ \A w \in Workers : At(w, "upsert") => memory[First][request[w].hash] # None
    /\ \A h \in Hashes : receipts[h] # None => memory[First][h] # None
    /\ \A x \in bound : /\ memory[First][x.hash] # None
                        /\ memory[First][x.hash].id = x.id
                        /\ x.bind \subseteq memory[First][x.hash].bind

\* At most one call is under way, and it writes what the database lacks.
OneWrite ==
  apart =>
    /\ alone
    /\ \A v, w \in Workers : request[v] # None /\ request[w] # None => v = w
    /\ \A w \in Workers : At(w, "upsert") => request[w].record = memory[First][request[w].hash]
    /\ outage # "cuni_citizen_receipts" =>
         \A h \in Hashes : \/ receipts[h] = memory[First][h]
                           \/ \E w \in Workers : At(w, "upsert") /\ request[w].hash = h

IInv == Shapes /\ ToldTheRow /\ MemoryFirst /\ OneWrite

-----------------------------------------------------------------------------
(* What the invariant says *)

LEMMA ShapesAreTypes == ASSUME Constants, IInv PROVE TypeOK
<1>1. \A w \in Workers : request[w] # None => request[w].process \in Processes
  BY DEF IInv, Shapes, Fresh, Writing
<1>. QED
  BY <1>1 DEF IInv, Shapes, Records, TypeOK

LEMMA InvAgrees == ASSUME Constants, IInv PROVE RegistryAgrees
<1>1. OneContract
  <2>1. \A x, y \in registered : x.hash = y.hash => x.id = y.id
    BY DEF IInv, ToldTheRow
  <2>2. ASSUME NEW h \in Hashes
        PROVE  Cardinality({x \in registered : x.hash = h /\ ~x.idempotent}) <= 1
    <3>. DEFINE S == {x \in registered : x.hash = h /\ ~x.idempotent}
                only == [hash |-> h, id |-> contracts[h], idempotent |-> FALSE]
    <3>1. ASSUME NEW x \in S PROVE x = only
      <4>1. x \in [hash : Hashes, id : Ids, idempotent : BOOLEAN] /\ x.hash = h
            /\ x.idempotent = FALSE /\ x.id = contracts[h]
        BY <3>1 DEF IInv, Shapes, ToldTheRow
      <4>. QED
        BY <4>1
    <3>2. S \in SUBSET {only}
      BY <3>1
    <3>3. IsFiniteSet({only}) /\ Cardinality({only}) = 1
      BY FS_Singleton
    <3>. QED
      BY <3>2, <3>3, FS_Subset
  <2>. QED
    BY <2>1, <2>2 DEF OneContract, IInv, ToldTheRow
<1>2. BindsMerge
  <2>1. ASSUME alone, apart, Idle, outage # "cuni_citizen_receipts"
        PROVE  receipts = memory[First]
    <3>1. \A h \in Hashes : receipts[h] = memory[First][h]
      BY <2>1 DEF IInv, OneWrite, Idle, At
    <3>2. DOMAIN receipts = Hashes /\ DOMAIN memory[First] = Hashes
          /\ receipts = [h \in Hashes |-> receipts[h]]
          /\ memory[First] = [h \in Hashes |-> memory[First][h]]
      BY DEF IInv, Shapes, Constants
    <3>. QED
      BY <3>1, <3>2
  <2>. QED
    BY <2>1 DEF IInv, MemoryFirst, BindsMerge
<1>. QED
  BY <1>1, <1>2 DEF RegistryAgrees

LEMMA InitInv == ASSUME Constants, Init PROVE IInv
BY DEF Constants, Init, IInv, Shapes, ToldTheRow, MemoryFirst, OneWrite, At, Ids

-----------------------------------------------------------------------------
(* A call begins *)

LEMMA BeginInv ==
  ASSUME Constants, IInv, NEW w \in Workers, NEW r \in Fresh \cup Writing,
         r.at \in {"lookup", "bind", "keep"}, r.at = "keep" => ~alone, Start(w, r),
         UNCHANGED <<chosen, contracts, memory, receipts, registered, bound>>
  PROVE  IInv'
<1>1. /\ r # None /\ request[w] = None /\ (apart => Idle) /\ (alone => r.process = First)
      /\ request' = [request EXCEPT ![w] = r] /\ minted' = minted + 1 /\ minted < MaxMinted
  BY DEF Start, Constants
<1>2. request'[w] = r /\ \A v \in Workers \ {w} : request'[v] = request[v]
  BY <1>1 DEF IInv, Shapes
<1>3. Shapes'
  BY <1>1 DEF Constants, IInv, Shapes, Ids
<1>4. \A v \in Workers : /\ At(v, "raced")' => At(v, "raced") /\ request'[v] = request[v]
                         /\ At(v, "upsert")' => At(v, "upsert") /\ request'[v] = request[v]
                         /\ At(v, "upsert") => At(v, "upsert")' /\ request'[v] = request[v]
  BY <1>1, <1>2 DEF At
<1>5. ToldTheRow'
  BY <1>4 DEF IInv, ToldTheRow
<1>6. MemoryFirst'
  <2>1. ASSUME alone, NEW v \in Workers, request'[v] # None
        PROVE  request'[v].process = First /\ ~At(v, "keep")'
    BY <1>1, <1>2, <2>1 DEF IInv, MemoryFirst, At
  <2>. QED
    BY <1>4, <2>1 DEF IInv, MemoryFirst, chosen
<1>7. OneWrite'
  <2>1. apart => \A v \in Workers \ {w} : request'[v] = None
    BY <1>1, <1>2 DEF Idle
  <2>. QED
    BY <1>4, <2>1 DEF IInv, OneWrite, chosen
<1>. QED
  BY <1>3, <1>5, <1>6, <1>7 DEF IInv

LEMMA BeginSteps ==
  ASSUME Constants, IInv, NEW w \in Workers,
         RegisterCuniContract(w) \/ IngestReceipt(w) \/ GetCitizenReceiptByHash(w)
  PROVE  IInv'
<1>1. ASSUME NEW r, Start(w, r) PROVE minted \in Ids
  BY DEF IInv, Shapes
<1>2. ASSUME RegisterCuniContract(w) PROVE IInv'
  <2>1. PICK h \in Hashes, p \in Processes, receipt \in Hashes \cup {None} :
          /\ Start(w, [at |-> "lookup", process |-> p, hash |-> h, receipt |-> receipt,
                       id |-> minted, bind |-> {}])
          /\ UNCHANGED <<chosen, contracts, memory, receipts, registered, bound>>
    BY <1>2 DEF RegisterCuniContract
  <2>2. PICK r : r = [at |-> "lookup", process |-> p, hash |-> h, receipt |-> receipt,
                      id |-> minted, bind |-> {}]
    OBVIOUS
  <2>3. r \in Fresh /\ r.at = "lookup"
    BY <2>2 DEF Fresh, IInv, Shapes
  <2>. QED
    BY <2>1, <2>2, <2>3, BeginInv
<1>3. ASSUME IngestReceipt(w) PROVE IInv'
  <2>1. PICK h \in Hashes, p \in Processes, keys \in SUBSET Keys :
          /\ Start(w, [at |-> "bind", process |-> p, hash |-> h, receipt |-> h, id |-> minted,
                       bind |-> keys])
          /\ UNCHANGED <<chosen, contracts, memory, receipts, registered, bound>>
    BY <1>3 DEF IngestReceipt
  <2>2. PICK r : r = [at |-> "bind", process |-> p, hash |-> h, receipt |-> h, id |-> minted,
                      bind |-> keys]
    OBVIOUS
  <2>3. r \in Fresh /\ r.at = "bind"
    BY <2>2 DEF Fresh, IInv, Shapes
  <2>. QED
    BY <2>1, <2>2, <2>3, BeginInv
<1>4. ASSUME GetCitizenReceiptByHash(w) PROVE IInv'
  <2>1. PICK h \in Hashes, p \in Processes :
          /\ memory[p][h] = None /\ receipts[h] # None
          /\ Start(w, [at |-> "keep", process |-> p, hash |-> h, record |-> receipts[h]])
          /\ UNCHANGED <<chosen, contracts, memory, receipts, registered, bound>>
    BY <1>4 DEF GetCitizenReceiptByHash
  <2>2. PICK r : r = [at |-> "keep", process |-> p, hash |-> h, record |-> receipts[h]]
    OBVIOUS
  <2>3. r \in Writing /\ r.at = "keep" /\ r.process = p
    BY <2>1, <2>2 DEF Writing, IInv, Shapes
  <2>4. alone => p = First
    BY <2>1, <2>2, <2>3 DEF Start
  <2>5. ~alone
    BY <2>1, <2>4 DEF IInv, MemoryFirst
  <2>. QED
    BY <2>1, <2>2, <2>3, <2>5, BeginInv
<1>. QED
  BY <1>2, <1>3, <1>4

-----------------------------------------------------------------------------
(* Contracts *)

\* Where an invocation on the contract's side goes next.
Passing(w) ==
  /\ \A v \in Workers \ {w} : request'[v] = request[v]
  /\ \/ request'[w] = None
     \/ /\ request'[w] \in Fresh /\ request'[w].process = request[w].process
        /\ request'[w].at = "raced" => contracts'[request'[w].hash] # None

LEMMA PassingInv ==
  ASSUME Constants, IInv, NEW w \in Workers, request[w] \in Fresh, Passing(w),
         DOMAIN request' = Workers, request' = [v \in Workers |-> request'[v]],
         contracts' \in [Hashes -> Ids \cup {None}],
         \A h \in Hashes : contracts[h] # None => contracts'[h] = contracts[h],
         registered' \subseteq [hash : Hashes, id : Ids, idempotent : BOOLEAN],
         \A x \in registered' : x \in registered \/ contracts'[x.hash] = x.id,
         UNCHANGED <<chosen, minted, memory, receipts, bound>>
  PROVE  IInv'
<1>1. Shapes'
  BY DEF IInv, Shapes, Passing
<1>2. request[w] # None /\ None \notin Fresh /\ None \notin Ids
  BY DEF Constants
<1>3. \A v \in Workers : v # w => (At(v, "raced")' <=> At(v, "raced"))
  BY DEF Passing, At
<1>4. ASSUME NEW v \in Workers, At(v, "raced")'
      PROVE  contracts'[request'[v].hash] # None
  <2>1. CASE v = w
    BY <1>4, <2>1 DEF Passing, At
  <2>2. CASE v # w
    <3>1. /\ request'[v] = request[v] /\ At(v, "raced")
          /\ contracts[request[v].hash] # None
      BY <1>3, <1>4, <2>2 DEF Passing, IInv, ToldTheRow
    <3>2. request[v] \in Fresh
      BY <3>1 DEF IInv, Shapes, At, Writing
    <3>3. request[v].hash \in Hashes
      BY <3>2 DEF Fresh
    <3>. QED
      BY <3>1, <3>3
  <2>. QED
    BY <2>1, <2>2
<1>5. ASSUME NEW x \in registered' PROVE contracts'[x.hash] = x.id
  <2>1. CASE x \in registered
    <3>1. x.hash \in Hashes /\ contracts[x.hash] = x.id /\ x.id \in Ids
      BY <2>1 DEF IInv, Shapes, ToldTheRow
    <3>. QED
      BY <1>2, <3>1
  <2>. QED
    BY <1>5, <2>1
<1>6. ToldTheRow'
  BY <1>4, <1>5 DEF ToldTheRow
<1>7. \A v \in Workers : /\ At(v, "upsert")' <=> At(v, "upsert")
                         /\ At(v, "upsert") => request'[v] = request[v]
                         /\ At(v, "keep")' => At(v, "keep")
                         /\ request'[v] # None => /\ request[v] # None
                                                  /\ request'[v].process = request[v].process
  BY <1>2 DEF Passing, At, Fresh
<1>8. MemoryFirst'
  BY <1>7 DEF IInv, MemoryFirst, chosen
<1>9. OneWrite'
  BY <1>7 DEF IInv, OneWrite, chosen
<1>. QED
  BY <1>1, <1>6, <1>8, <1>9 DEF IInv

\* An answer that says what the row says, and the binding that may follow it.
LEMMA RegisteredFacts ==
  ASSUME Constants, IInv, NEW w \in Workers, request[w] \in Fresh, NEW id \in Ids,
         NEW idempotent \in BOOLEAN, Registered(w, id, idempotent)
  PROVE  /\ DOMAIN request' = Workers /\ request' = [v \in Workers |-> request'[v]]
         /\ \A v \in Workers \ {w} : request'[v] = request[v]
         /\ \/ request'[w] = None
            \/ /\ request'[w] \in Fresh /\ request'[w].process = request[w].process
               /\ request'[w].at = "bind"
         /\ registered' \subseteq [hash : Hashes, id : Ids, idempotent : BOOLEAN]
         /\ \A x \in registered' : x \in registered \/ (x.hash = request[w].hash /\ x.id = id)
<1>1. /\ registered' = registered \cup
             {[hash |-> request[w].hash, id |-> id, idempotent |-> idempotent]}
      /\ request[w].hash \in Hashes
  BY DEF Registered, Fresh
<1>2. /\ registered' \subseteq [hash : Hashes, id : Ids, idempotent : BOOLEAN]
      /\ \A x \in registered' : x \in registered \/ (x.hash = request[w].hash /\ x.id = id)
  BY <1>1 DEF IInv, Shapes
<1>3. request \in [Workers -> Fresh \cup Writing \cup {None}]
  BY DEF IInv, Shapes
<1>4. CASE request[w].receipt = None
  BY <1>1, <1>2, <1>3, <1>4 DEF Registered, End
<1>5. CASE request[w].receipt # None
  <2>1. PICK r : r = [request[w] EXCEPT !.at = "bind", !.hash = request[w].receipt,
                                        !.bind = {"contract_id"}]
    OBVIOUS
  <2>2. r \in Fresh /\ r.process = request[w].process /\ r.at = "bind"
    BY <1>5, <2>1 DEF Fresh, Constants
  <2>3. request' = [request EXCEPT ![w] = r]
    BY <1>5, <2>1 DEF Registered
  <2>4. /\ DOMAIN request' = Workers /\ request' = [v \in Workers |-> request'[v]]
        /\ request'[w] = r /\ \A v \in Workers \ {w} : request'[v] = request[v]
    BY <1>3, <2>3
  <2>. QED
    BY <1>2, <2>2, <2>4
<1>. QED
  BY <1>4, <1>5

LEMMA StepFacts ==
  ASSUME IInv, NEW w \in Workers, request[w] \in Fresh,
         NEW at \in {"insert", "raced"}, Step(w, at)
  PROVE  /\ DOMAIN request' = Workers /\ request' = [v \in Workers |-> request'[v]]
         /\ \A v \in Workers \ {w} : request'[v] = request[v]
         /\ request'[w] \in Fresh /\ request'[w].process = request[w].process
         /\ request'[w].at = at /\ request'[w].hash = request[w].hash
<1>1. PICK r : r = [request[w] EXCEPT !.at = at]
  OBVIOUS
<1>2. r \in Fresh /\ r.process = request[w].process /\ r.at = at /\ r.hash = request[w].hash
  BY <1>1 DEF Fresh
<1>3. /\ request' = [request EXCEPT ![w] = r]
      /\ request \in [Workers -> Fresh \cup Writing \cup {None}]
  BY <1>1 DEF Step, IInv, Shapes
<1>. QED
  BY <1>2, <1>3

LEMMA ContractSteps ==
  ASSUME Constants, IInv, NEW w \in Workers, Lookup(w) \/ Insert(w) \/ Raced(w)
  PROVE  IInv'
<1>1. /\ request[w] \in Fresh /\ request[w].hash \in Hashes /\ request[w].id \in Ids
      /\ contracts \in [Hashes -> Ids \cup {None}]
      /\ registered \subseteq [hash : Hashes, id : Ids, idempotent : BOOLEAN]
      /\ request \in [Workers -> Fresh \cup Writing \cup {None}]
  <2>1. request[w] \in Fresh
    BY DEF Lookup, Insert, Raced, At, IInv, Shapes, Writing
  <2>. QED
    BY <2>1 DEF IInv, Shapes, Fresh
<1>2. UNCHANGED <<chosen, minted, memory, receipts, bound>>
  BY DEF Lookup, Insert, Raced
<1>3. CASE UNCHANGED contracts /\ Step(w, "insert") /\ UNCHANGED registered
  <2>1. Passing(w)
    BY <1>1, <1>3, StepFacts DEF Passing
  <2>. QED
    BY <1>1, <1>2, <1>3, <2>1, StepFacts, PassingInv
<1>4. CASE /\ UNCHANGED contracts /\ Step(w, "raced") /\ UNCHANGED registered
           /\ contracts[request[w].hash] # None
  <2>1. Passing(w)
    BY <1>1, <1>4, StepFacts DEF Passing
  <2>. QED
    BY <1>1, <1>2, <1>4, <2>1, StepFacts, PassingInv
<1>5. CASE UNCHANGED contracts /\ End(w) /\ UNCHANGED registered
  <2>1. request' = [request EXCEPT ![w] = None]
    BY <1>5 DEF End
  <2>2. Passing(w)
    BY <1>1, <2>1 DEF Passing
  <2>. QED
    BY <1>1, <1>2, <1>5, <2>1, <2>2, PassingInv
<1>6. CASE /\ UNCHANGED contracts /\ contracts[request[w].hash] # None
           /\ Registered(w, contracts[request[w].hash], TRUE)
  <2>1. contracts[request[w].hash] \in Ids
    BY <1>1, <1>6
  <2>2. Passing(w)
    BY <1>1, <1>6, <2>1, RegisteredFacts DEF Passing
  <2>. QED
    BY <1>1, <1>2, <1>6, <2>1, <2>2, RegisteredFacts, PassingInv
<1>7. CASE /\ contracts' = [contracts EXCEPT ![request[w].hash] = request[w].id]
           /\ contracts[request[w].hash] = None
           /\ Registered(w, request[w].id, FALSE)
  <2>1. Passing(w)
    BY <1>1, <1>7, RegisteredFacts DEF Passing
  <2>2. /\ contracts' \in [Hashes -> Ids \cup {None}]
        /\ \A h \in Hashes : contracts[h] # None => contracts'[h] = contracts[h]
        /\ contracts'[request[w].hash] = request[w].id
    BY <1>1, <1>7
  <2>3. /\ DOMAIN request' = Workers /\ request' = [v \in Workers |-> request'[v]]
        /\ registered' \subseteq [hash : Hashes, id : Ids, idempotent : BOOLEAN]
        /\ \A x \in registered' :
             x \in registered \/ (x.hash = request[w].hash /\ x.id = request[w].id)
    BY <1>1, <1>7, RegisteredFacts
  <2>4. \A x \in registered' : x \in registered \/ contracts'[x.hash] = x.id
    BY <2>2, <2>3
  <2>. QED
    BY <1>1, <1>2, <2>1, <2>2, <2>3, <2>4, PassingInv
<1>8. CASE Lookup(w)
  BY <1>3, <1>6, <1>8 DEF Lookup
<1>9. CASE Insert(w)
  BY <1>4, <1>5, <1>7, <1>9 DEF Insert
<1>10. CASE Raced(w)
  BY <1>6, <1>10 DEF Raced, IInv, ToldTheRow
<1>. QED
  BY <1>8, <1>9, <1>10

-----------------------------------------------------------------------------
(* Receipts *)

\* What a process remembers of one hash.
LEMMA MemoryFacts ==
  ASSUME Constants, IInv, NEW p \in Processes, NEW h \in Hashes, NEW r \in Records,
         memory' = [memory EXCEPT ![p][h] = r]
  PROVE  /\ memory' \in [Processes -> [Hashes -> Records \cup {None}]]
         /\ memory'[p][h] = r /\ r # None
         /\ \A q \in Processes, g \in Hashes : q # p \/ g # h => memory'[q][g] = memory[q][g]
<1>1. memory \in [Processes -> [Hashes -> Records \cup {None}]]
  BY DEF IInv, Shapes
<1>2. r # None
  BY DEF Constants
<1>3. memory' = [memory EXCEPT ![p] = [memory[p] EXCEPT ![h] = r]]
  BY <1>1
<1>4. [memory[p] EXCEPT ![h] = r] \in [Hashes -> Records \cup {None}]
  BY <1>1
<1>. QED
  BY <1>1, <1>2, <1>3, <1>4

LEMMA BindInv ==
  ASSUME Constants, IInv, NEW w \in Workers, BindCitizenReceipt(w)
  PROVE  IInv'
<1>1. PICK r \in Fresh : r = request[w] /\ r.at = "bind"
  BY DEF BindCitizenReceipt, At, IInv, Shapes, Writing
<1>. PICK p \in Processes, h \in Hashes : p = r.process /\ h = r.hash
  BY DEF Fresh
<1>. PICK had \in Records \cup {None} : had = memory[p][h]
  BY DEF IInv, Shapes
<1>2. PICK record : record = IF had = None THEN [id |-> r.id, bind |-> r.bind]
                             ELSE [id |-> had.id, bind |-> had.bind \cup r.bind]
  OBVIOUS
<1>3. /\ record \in Records /\ r.bind \subseteq record.bind /\ r.bind \in SUBSET Keys
      /\ had # None => record.id = had.id /\ had.bind \subseteq record.bind
  BY <1>2 DEF Records, Fresh
<1>. PICK next : next = [at |-> "upsert", process |-> p, hash |-> h, record |-> record]
  OBVIOUS
<1>4. /\ next \in Writing /\ next # None /\ next.at = "upsert" /\ next.process = p
      /\ next.hash = h /\ next.record = record
  <2>1. next \in Writing
    BY <1>3 DEF Writing
  <2>. QED
    BY <2>1 DEF Constants
<1>5. /\ memory' = [memory EXCEPT ![p][h] = record]
      /\ bound' = bound \cup {[hash |-> h, id |-> record.id, bind |-> r.bind]}
      /\ request' = [request EXCEPT ![w] = next]
      /\ UNCHANGED <<chosen, minted, contracts, receipts, registered>>
  BY <1>1, <1>2 DEF BindCitizenReceipt
<1>6. /\ memory' \in [Processes -> [Hashes -> Records \cup {None}]]
      /\ memory'[p][h] = record /\ record # None
      /\ \A q \in Processes, g \in Hashes : q # p \/ g # h => memory'[q][g] = memory[q][g]
  <2>1. record \in Records /\ memory' = [memory EXCEPT ![p][h] = record]
    BY <1>3, <1>5
  <2>2. memory' \in [Processes -> [Hashes -> Records \cup {None}]]
    BY <2>1, MemoryFacts
  <2>3. memory'[p][h] = record /\ record # None
    <3>1. record # None
      BY <2>1 DEF Constants
    <3>2. memory'[p][h] = record
      BY <2>1 DEF IInv, Shapes
    <3>. QED
      BY <3>1, <3>2
  <2>4. ASSUME NEW q \in Processes, NEW g \in Hashes, q # p \/ g # h
        PROVE  memory'[q][g] = memory[q][g]
    BY <2>1, <2>4, MemoryFacts
  <2>. QED
    BY <2>2, <2>3, <2>4
<1>7. /\ request' \in [Workers -> Fresh \cup Writing \cup {None}]
      /\ request'[w] = next /\ \A v \in Workers \ {w} : request'[v] = request[v]
  BY <1>4, <1>5 DEF IInv, Shapes
<1>8. /\ bound' \subseteq [hash : Hashes, id : Ids, bind : SUBSET Keys]
      /\ \A x \in bound' : x \in bound \/ (x.hash = h /\ x.id = record.id /\ x.bind = r.bind)
  BY <1>3, <1>5 DEF IInv, Shapes, Records
<1>9. Shapes'
  BY <1>5, <1>6, <1>7, <1>8 DEF IInv, Shapes
<1>10. ToldTheRow'
  BY <1>4, <1>5, <1>7 DEF IInv, ToldTheRow, At
<1>11. ASSUME alone PROVE p = First
  BY <1>1, <1>11 DEF IInv, MemoryFirst, Constants
<1>12. MemoryFirst'
  <2>. SUFFICES ASSUME alone PROVE MemoryFirst'
    BY <1>5 DEF MemoryFirst, chosen
  <2>1. \A v \in Workers : request'[v] # None => request'[v].process = First /\ ~At(v, "keep")'
    BY <1>4, <1>7, <1>11 DEF IInv, MemoryFirst, At
  <2>2. \A g \in Hashes : memory[First][g] # None => memory'[First][g] # None
    BY <1>6 DEF Constants
  <2>3. ASSUME NEW v \in Workers, At(v, "upsert")'
        PROVE  memory'[First][request'[v].hash] # None
    <3>1. CASE v = w
      BY <1>4, <1>6, <1>7, <1>11, <3>1
    <3>2. CASE v # w
      <4>1. request'[v] = request[v] /\ request[v] \in Writing /\ At(v, "upsert")
        BY <1>7, <2>3, <3>2 DEF IInv, Shapes, At, Fresh
      <4>2. request[v].hash \in Hashes
        BY <4>1 DEF Writing
      <4>. QED
        BY <2>2, <4>1, <4>2 DEF IInv, MemoryFirst
    <3>. QED
      BY <3>1, <3>2
  <2>4. \A g \in Hashes : receipts'[g] # None => memory'[First][g] # None
    BY <1>5, <2>2 DEF IInv, MemoryFirst
  <2>5. ASSUME NEW x \in bound'
        PROVE  /\ memory'[First][x.hash] # None /\ memory'[First][x.hash].id = x.id
               /\ x.bind \subseteq memory'[First][x.hash].bind
    <3>1. CASE x \in bound
      <4>1. /\ x.hash \in Hashes /\ memory[First][x.hash] # None
            /\ memory[First][x.hash].id = x.id
            /\ x.bind \subseteq memory[First][x.hash].bind
        BY <3>1 DEF IInv, Shapes, MemoryFirst
      <4>2. CASE x.hash = h
        BY <1>3, <1>6, <1>11, <4>1, <4>2
      <4>3. CASE x.hash # h
        BY <1>6, <4>1, <4>3 DEF Constants
      <4>. QED
        BY <4>2, <4>3
    <3>2. CASE x.hash = h /\ x.id = record.id /\ x.bind = r.bind
      BY <1>3, <1>6, <1>11, <3>2
    <3>. QED
      BY <1>8, <2>5, <3>1, <3>2
  <2>. QED
    BY <2>1, <2>3, <2>4, <2>5 DEF MemoryFirst
<1>13. OneWrite'
  <2>. SUFFICES ASSUME apart PROVE OneWrite'
    BY <1>5 DEF OneWrite, chosen
  <2>1. alone /\ p = First /\ \A v \in Workers \ {w} : request[v] = None
    BY <1>1, <1>11 DEF IInv, OneWrite, Constants
  <2>2. \A v \in Workers : request'[v] # None => v = w
    BY <1>7, <2>1
  <2>3. \A v \in Workers : At(v, "upsert")' => request'[v].record = memory'[First][request'[v].hash]
    BY <1>4, <1>6, <1>7, <2>1, <2>2 DEF At
  <2>4. ASSUME outage # "cuni_citizen_receipts", NEW g \in Hashes
        PROVE  receipts'[g] = memory'[First][g] \/ (At(w, "upsert")' /\ request'[w].hash = g)
    <3>1. CASE g = h
      BY <1>4, <1>7, <3>1 DEF At
    <3>2. CASE g # h
      <4>1. ~At(w, "upsert") /\ \A v \in Workers : ~At(v, "upsert")
        BY <1>1, <2>1 DEF At
      <4>2. receipts[g] = memory[First][g]
        BY <2>4, <4>1 DEF IInv, OneWrite
      <4>. QED
        BY <1>5, <1>6, <3>2, <4>2 DEF Constants
    <3>. QED
      BY <3>1, <3>2
  <2>. QED
    BY <1>5, <2>1, <2>2, <2>3, <2>4 DEF OneWrite, chosen
<1>. QED
  BY <1>9, <1>10, <1>12, <1>13 DEF IInv

LEMMA UpsertInv ==
  ASSUME Constants, IInv, NEW w \in Workers, UpsertSupabase(w)
  PROVE  IInv'
<1>1. PICK r \in Writing : r = request[w] /\ At(w, "upsert")
  BY DEF UpsertSupabase, At, IInv, Shapes, Fresh
<1>2. /\ request' = [request EXCEPT ![w] = None]
      /\ receipts' = IF outage = "cuni_citizen_receipts" THEN receipts
                     ELSE [receipts EXCEPT ![r.hash] = r.record]
      /\ UNCHANGED <<chosen, minted, contracts, memory, registered, bound>>
  BY <1>1 DEF UpsertSupabase, End
<1>3. r.hash \in Hashes /\ r.record \in Records /\ r.record # None
  BY DEF Writing, Constants
<1>4. /\ request'[w] = None /\ \A v \in Workers \ {w} : request'[v] = request[v]
      /\ request' \in [Workers -> Fresh \cup Writing \cup {None}]
  BY <1>2 DEF IInv, Shapes
<1>5. /\ receipts' \in [Hashes -> Records \cup {None}]
      /\ \A g \in Hashes \ {r.hash} : receipts'[g] = receipts[g]
      /\ outage # "cuni_citizen_receipts" => receipts'[r.hash] = r.record
  BY <1>2, <1>3 DEF IInv, Shapes
<1>6. Shapes'
  BY <1>2, <1>4, <1>5 DEF IInv, Shapes
<1>7. ToldTheRow'
  BY <1>2, <1>4 DEF IInv, ToldTheRow, At
<1>8. MemoryFirst'
  BY <1>1, <1>2, <1>4, <1>5 DEF IInv, MemoryFirst, At, chosen
<1>9. OneWrite'
  <2>. SUFFICES ASSUME apart PROVE OneWrite'
    BY <1>2 DEF OneWrite, chosen
  <2>1. /\ alone /\ \A v \in Workers \ {w} : request[v] = None
        /\ r.record = memory[First][r.hash]
    BY <1>1 DEF IInv, OneWrite, At
  <2>2. \A v \in Workers : request'[v] = None
    BY <1>4, <2>1
  <2>3. ASSUME outage # "cuni_citizen_receipts", NEW g \in Hashes
        PROVE  receipts'[g] = memory[First][g]
    <3>1. CASE g = r.hash
      BY <1>5, <2>1, <2>3, <3>1
    <3>2. CASE g # r.hash
      <4>1. receipts[g] = memory[First][g]
        BY <1>1, <2>1, <2>3, <3>2 DEF IInv, OneWrite, At
      <4>. QED
        BY <1>5, <3>2, <4>1
    <3>. QED
      BY <3>1, <3>2
  <2>. QED
    BY <1>2, <2>1, <2>2, <2>3 DEF OneWrite, At, chosen
<1>. QED
  BY <1>6, <1>7, <1>8, <1>9 DEF IInv

LEMMA KeepInv ==
  ASSUME Constants, IInv, NEW w \in Workers, KeepReceipt(w)
  PROVE  IInv'
<1>1. PICK r \in Writing : r = request[w] /\ At(w, "keep") /\ request[w] # None
  BY DEF KeepReceipt, At, IInv, Shapes, Fresh
<1>2. ~alone /\ ~apart
  BY <1>1 DEF IInv, MemoryFirst, OneWrite
<1>3. /\ memory' = [memory EXCEPT ![r.process][r.hash] = r.record]
      /\ request' = [request EXCEPT ![w] = None]
      /\ UNCHANGED <<chosen, minted, contracts, receipts, registered, bound>>
  BY <1>1 DEF KeepReceipt, End
<1>4. r.process \in Processes /\ r.hash \in Hashes /\ r.record \in Records
  BY DEF Writing
<1>5. memory' \in [Processes -> [Hashes -> Records \cup {None}]]
  BY <1>3, <1>4, MemoryFacts
<1>6. /\ request' \in [Workers -> Fresh \cup Writing \cup {None}]
      /\ request'[w] = None /\ \A v \in Workers \ {w} : request'[v] = request[v]
  BY <1>3 DEF IInv, Shapes
<1>7. Shapes'
  BY <1>3, <1>5, <1>6 DEF IInv, Shapes
<1>8. ToldTheRow'
  BY <1>3, <1>6 DEF IInv, ToldTheRow, At
<1>. QED
  BY <1>2, <1>3, <1>7, <1>8 DEF IInv, MemoryFirst, OneWrite, chosen

LEMMA RestartInv ==
  ASSUME Constants, IInv, NEW p \in Processes, RestartProcess(p)
  PROVE  IInv'
<1>1. ~alone /\ ~apart
  BY DEF RestartProcess, IInv, OneWrite
<1>2. /\ memory' = [memory EXCEPT ![p] = [h \in Hashes |-> None]]
      /\ UNCHANGED <<chosen, minted, contracts, receipts, registered, bound>>
  BY DEF RestartProcess
<1>3. /\ request' \in [Workers -> Fresh \cup Writing \cup {None}]
      /\ \A v \in Workers : request'[v] \in {None, request[v]}
  BY DEF RestartProcess, IInv, Shapes
<1>4. Shapes'
  BY <1>2, <1>3 DEF IInv, Shapes
<1>5. ToldTheRow'
  BY <1>2, <1>3 DEF IInv, ToldTheRow, At
<1>. QED
  BY <1>1, <1>2, <1>4, <1>5 DEF IInv, MemoryFirst, OneWrite, chosen

-----------------------------------------------------------------------------
(* Theorems *)

LEMMA StepInv == ASSUME Constants, IInv, [Next]_registry PROVE IInv'
<1>1. ASSUME UNCHANGED registry PROVE IInv'
  <2>. USE <1>1 DEF registry, chosen
  <2>1. Shapes' /\ ToldTheRow'
    BY DEF IInv, Shapes, ToldTheRow, At
  <2>2. MemoryFirst' /\ OneWrite'
    BY DEF IInv, MemoryFirst, OneWrite, At
  <2>. QED
    BY <2>1, <2>2 DEF IInv
<1>2. CASE \E w \in Workers :
             RegisterCuniContract(w) \/ IngestReceipt(w) \/ GetCitizenReceiptByHash(w)
  BY <1>2, BeginSteps
<1>3. CASE \E w \in Workers : Lookup(w) \/ Insert(w) \/ Raced(w)
  BY <1>3, ContractSteps
<1>4. CASE \E w \in Workers : BindCitizenReceipt(w) \/ UpsertSupabase(w) \/ KeepReceipt(w)
  BY <1>4, BindInv, UpsertInv, KeepInv
<1>5. CASE \E p \in Processes : RestartProcess(p)
  BY <1>5, RestartInv
<1>. QED
  BY <1>1, <1>2, <1>3, <1>4, <1>5 DEF Next, Browse

LEMMA SpecInv == ASSUME Constants PROVE Spec => []IInv
<1>1. Init => IInv
  BY InitInv
<1>2. IInv /\ [Next]_registry => IInv'
  BY StepInv
<1>. QED
  BY <1>1, <1>2, PTL DEF Spec

\* Contracts, receipts and calls have the shapes their handlers write, on any
\* number of processes that restart at any time.
THEOREM RegistryTypes == ASSUME Constants PROVE Spec => []TypeOK
<1>1. IInv => TypeOK
  BY ShapesAreTypes
<1>. QED
  BY SpecInv, <1>1, PTL

\* registerCuniContract registers a source once and tells all the same id,
\* whatever races; in one process that never restarts bindCitizenReceipt keeps
\* a receipt's id and everything it was bound to, and its row follows.
THEOREM RegistryIsIdempotent == ASSUME Constants PROVE Spec => []RegistryAgrees
<1>1. IInv => RegistryAgrees
  BY InvAgrees
<1>. QED
  BY SpecInv, <1>1, PTL
=============================================================================
