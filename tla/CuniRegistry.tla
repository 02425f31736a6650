---------------------------- MODULE CuniRegistry ----------------------------
(***************************************************************************)
(* The registry of CuNi contracts and the receipts of their exactness      *)
(* checks.  A contract is known by the hash of its source and registered   *)
(* once; a receipt is bound to an agent, a job, a task or a contract, kept *)
(* in the memory of the process that takes it and copied to the database.  *)
(*                                                                         *)
(* Bodies and keys that are refused before anything is stored are left     *)
(* out.  Chosen at the start: alone, one process that never restarts; then *)
(* apart, its calls do not overlap; and outage, the table that cannot be   *)
(* reached, if any.                                                        *)
(***************************************************************************)
EXTENDS Integers, FiniteSets

CONSTANTS
  Hashes,     \* of sources
  Processes, First,
  Workers,    \* concurrent invocations
  Keys,       \* what a receipt is bound on; "contract_id" among them
  MaxMinted,  \* bound: calls
  None

VARIABLES
  alone, apart, outage,
  request,    \* what each invocation does
  minted,     \* ids given out, and calls made
  contracts,  \* cuni_contracts: the id by source_hash, UNIQUE
  memory,     \* receipts in each process by hash: [id, bind], the keys it is bound on
  receipts,   \* cuni_citizen_receipts: likewise, UNIQUE source_hash
  registered, \* answers of POST /api/v0/contracts: [hash, id, idempotent]
  bound       \* answers that a receipt is bound: [hash, id, bind]

chosen == <<alone, apart, outage>>
registry == <<chosen, request, minted, contracts, memory, receipts, registered, bound>>

Idle == \A w \in Workers : request[w] = None

-----------------------------------------------------------------------------
(* Contracts *)

\* The first await of a call; a call gets the id it may need when it begins.
Start(w, record) ==
  /\ request[w] = None /\ minted < MaxMinted
  /\ alone => record.process = First
  /\ apart => Idle
  /\ minted' = minted + 1
  /\ request' = [request EXCEPT ![w] = record]

Step(w, at) == request' = [request EXCEPT ![w].at = at]
End(w) == request' = [request EXCEPT ![w] = None]
At(w, at) == request[w] # None /\ request[w].at = at

\* The body says that its source was found exact.  A receipt may come with
\* it, of this hash or, as nothing compares them, of another.
RegisterCuniContract(w) ==
  \E h \in Hashes, p \in Processes, receipt \in Hashes \cup {None} :
    /\ Start(w, [at |-> "lookup", process |-> p, hash |-> h, receipt |-> receipt,
                 id |-> minted, bind |-> {}])
    /\ UNCHANGED <<chosen, contracts, memory, receipts, registered, bound>>

\* The contract is answered, then its receipt bound to it, if there is one.
\* Both answers are one; nothing in the second part refuses the first.
Registered(w, id, idempotent) ==
  /\ registered' = registered \cup
       {[hash |-> request[w].hash, id |-> id, idempotent |-> idempotent]}
  /\ IF request[w].receipt = None THEN End(w)
     ELSE request' = [request EXCEPT ![w].at = "bind", ![w].hash = request[w].receipt,
                        ![w].bind = {"contract_id"}]

\* A lookup that fails finds nothing.
Lookup(w) ==
  /\ At(w, "lookup")
  /\ LET id == contracts[request[w].hash]
     IN IF id # None /\ outage # "cuni_contracts" THEN Registered(w, id, TRUE)
        ELSE Step(w, "insert") /\ UNCHANGED registered
  /\ UNCHANGED <<chosen, minted, contracts, memory, receipts, bound>>

\* Mutant: an insert replaces the row of another.
InsertOver(w) ==
  /\ At(w, "insert")
  /\ IF outage = "cuni_contracts" THEN End(w) /\ UNCHANGED <<contracts, registered>>
     ELSE /\ contracts' = [contracts EXCEPT ![request[w].hash] = request[w].id]
          /\ Registered(w, request[w].id, FALSE)
  /\ UNCHANGED <<chosen, minted, memory, receipts, bound>>

\* The constraint refuses a second row: then the first is read.
Insert(w) ==
  /\ At(w, "insert")
  /\ IF outage = "cuni_contracts" THEN End(w) /\ UNCHANGED <<contracts, registered>>
     ELSE IF contracts[request[w].hash] # None THEN
       Step(w, "raced") /\ UNCHANGED <<contracts, registered>>
     ELSE
       /\ contracts' = [contracts EXCEPT ![request[w].hash] = request[w].id]
       /\ Registered(w, request[w].id, FALSE)
  /\ UNCHANGED <<chosen, minted, memory, receipts, bound>>

Raced(w) ==
  /\ At(w, "raced")
  /\ Registered(w, contracts[request[w].hash], TRUE)
  /\ UNCHANGED <<chosen, minted, contracts, memory, receipts, bound>>

-----------------------------------------------------------------------------
(* Receipts *)

\* POST /api/v0/citizen-receipts: bound to what the body names, and to the
\* agent whose key it comes with.
IngestReceipt(w) ==
  \E h \in Hashes, p \in Processes, keys \in SUBSET Keys :
    /\ Start(w, [at |-> "bind", process |-> p, hash |-> h, receipt |-> h, id |-> minted,
                 bind |-> keys])
    /\ UNCHANGED <<chosen, contracts, memory, receipts, registered, bound>>

\* In the memory of this process at once: with what it has, or anew.
BindCitizenReceipt(w) ==
  LET r == request[w]  had == memory[r.process][r.hash]
      record == IF had = None THEN [id |-> r.id, bind |-> r.bind]
                ELSE [id |-> had.id, bind |-> had.bind \cup r.bind]
  IN /\ At(w, "bind")
     /\ memory' = [memory EXCEPT ![r.process][r.hash] = record]
     /\ bound' = bound \cup {[hash |-> r.hash, id |-> record.id, bind |-> r.bind]}
     /\ request' = [request EXCEPT ![w] = [at |-> "upsert", process |-> r.process,
                      hash |-> r.hash, record |-> record]]
     /\ UNCHANGED <<chosen, minted, contracts, receipts, registered>>

\* The row is replaced as a whole; its failure is logged and dropped.
UpsertSupabase(w) ==
  /\ At(w, "upsert")
  /\ receipts' = IF outage = "cuni_citizen_receipts" THEN receipts
                 ELSE [receipts EXCEPT ![request[w].hash] = request[w].record]
  /\ End(w)
  /\ UNCHANGED <<chosen, minted, contracts, memory, registered, bound>>

\* What memory does not have is read from the database, and kept.
GetCitizenReceiptByHash(w) ==
  \E h \in Hashes, p \in Processes :
    /\ memory[p][h] = None /\ outage # "cuni_citizen_receipts"
    /\ receipts[h] # None
    /\ Start(w, [at |-> "keep", process |-> p, hash |-> h, record |-> receipts[h]])
    /\ UNCHANGED <<chosen, contracts, memory, receipts, registered, bound>>

KeepReceipt(w) ==
  /\ At(w, "keep")
  /\ memory' = [memory EXCEPT ![request[w].process][request[w].hash] = request[w].record]
  /\ End(w)
  /\ UNCHANGED <<chosen, minted, contracts, receipts, registered, bound>>

\* A process restarts: its memory and its calls are gone.
RestartProcess(p) ==
  /\ ~alone
  /\ memory' = [memory EXCEPT ![p] = [h \in Hashes |-> None]]
  /\ request' = [w \in Workers |->
       IF request[w] = None THEN None
       ELSE IF request[w].process = p THEN None ELSE request[w]]
  /\ UNCHANGED <<chosen, minted, contracts, receipts, registered, bound>>

\* Lists and single contracts by id or hash, and receipts in memory.
Browse == UNCHANGED registry

-----------------------------------------------------------------------------

Init ==
  /\ alone \in BOOLEAN /\ apart \in BOOLEAN /\ (apart => alone)
  /\ outage \in {None, "cuni_contracts", "cuni_citizen_receipts"}
  /\ request = [w \in Workers |-> None]
  /\ minted = 0
  /\ contracts = [h \in Hashes |-> None]
  /\ memory = [p \in Processes |-> [h \in Hashes |-> None]]
  /\ receipts = [h \in Hashes |-> None]
  /\ registered = {}
  /\ bound = {}

Next ==
  \/ \E w \in Workers :
       \/ RegisterCuniContract(w) \/ Lookup(w) \/ Insert(w) \/ Raced(w)
       \/ IngestReceipt(w) \/ BindCitizenReceipt(w) \/ UpsertSupabase(w)
       \/ GetCitizenReceiptByHash(w) \/ KeepReceipt(w)
  \/ \E p \in Processes : RestartProcess(p)
  \/ Browse

Spec == Init /\ [][Next]_registry

-----------------------------------------------------------------------------

Ids == 0..MaxMinted

TypeOK ==
  /\ minted \in Ids
  /\ \A h \in Hashes :
       /\ contracts[h] \in Ids \cup {None}
       /\ receipts[h] # None => receipts[h].id \in Ids /\ receipts[h].bind \subseteq Keys
       /\ \A p \in Processes : memory[p][h] # None => memory[p][h].id \in Ids
  /\ \A w \in Workers : request[w] # None => request[w].process \in Processes

\* A source is registered once, by whatever process and race: all who
\* register it are told the same id, one of them that it is new.
OneContract ==
  /\ \A x, y \in registered : x.hash = y.hash => x.id = y.id
  /\ \A h \in Hashes : Cardinality({x \in registered : x.hash = h /\ ~x.idempotent}) <= 1
  /\ \A x \in registered : contracts[x.hash] = x.id

\* In one process that never restarts a receipt keeps its id, and everything
\* it was ever bound to; its row says the same, where calls do not overlap
\* and the table can be reached.
BindsMerge ==
  alone =>
    /\ \A x \in bound :
         /\ memory[First][x.hash] # None
         /\ memory[First][x.hash].id = x.id
         /\ x.bind \subseteq memory[First][x.hash].bind
    /\ (apart /\ Idle /\ outage # "cuni_citizen_receipts") => receipts = memory[First]

\* The registry of contracts is idempotent by source hash everywhere, the
\* store of receipts within one process (cuni-contracts.ts
\* registerCuniContract, cuni-citizen-receipt-store.ts bindCitizenReceipt).
RegistryAgrees == OneContract /\ BindsMerge
=============================================================================
