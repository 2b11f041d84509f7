---------------------------- MODULE ListPagesProofs ----------------------------
(***************************************************************************)
(* Proofs about RowWrites and, with its writers, ListPages: for any        *)
(* requests, connections, bulk sizes, filters and numbers, and whatever    *)
(* statements of other requests come in between, the answer of a write     *)
(* tells what it has done to the table, and page, has_more and total of a  *)
(* list are those of rows that there were.                                 *)
(***************************************************************************)
EXTENDS ListPages, FunctionTheorems, FiniteSetTheorems, TLAPS

\* Types of a handler whose bulk loop, if it has one, is within its bounds:
\* what keeps the counters of a bulk request in their type.
Counted(job) ==
    job.op = "bulk" =>
        /\ job.pc \in {"exec", "lastid", "reread"} => job.left >= 1
        /\ job.pc = "ok" => job.left = 0
        /\ job.errors + job.left <= job.size

\* A handler of an engine with RETURNING, with the rows eff it has changed.
Returning(job, eff) ==
    /\ job.pc \notin {"lastid", "reread"}
    /\ job.op # "bulk" =>
           /\ job.pc = "exec" => eff = {}
           /\ job.pc \in {"ok", "notfound"} => job.shown = eff
    /\ job.op = "bulk" =>
           /\ job.shown \subseteq eff
           /\ Cardinality(eff \ job.shown) <= job.errors
           /\ Cardinality(job.shown) + job.errors + job.left = job.size

\* A PUT on any engine, with the rows eff it has changed and the rows rs of
\* the table.
Updating(job, eff, rs) ==
    job.op = "update" =>
        /\ job.pc # "lastid"
        /\ job.pc = "exec" => eff = {}
        /\ job.pc = "reread" => eff = {job.id}
        /\ job.pc = "ok" => job.shown = eff
        /\ job.pc = "notfound" => eff \cap rs = {}

\* A handler that has started.
Started(r) == request[r] # Idle

\* The inductive invariant.  Ids are given in order, so that a row that is
\* gone does not come back.
RowInv ==
    /\ TypeOK
    /\ rows \subseteq 1..nextId - 1
    /\ \A r \in Requests : effect[r] \subseteq 1..nextId - 1
    /\ \A r \in Requests : ~Started(r) => effect[r] = {}
    /\ \A r \in Requests : Started(r) =>
           /\ Counted(request[r])
           /\ engine = "returning" => Returning(request[r], effect[r])
           /\ Updating(request[r], effect[r], rows)

-----------------------------------------------------------------------------
(* Lemmas about one handler *)

BusyPc == {"exec", "lastid", "reread"}

\* Sets of ids are finite.
LEMMA IdSets ==
    ASSUME NEW S \in SUBSET Ids
    PROVE  IsFiniteSet(S) /\ Cardinality(S) \in Nat
<1>1. IsFiniteSet(Ids)
    <2>1. 1 \in Int /\ MaxId \in Int
        BY RowsAssumption
    <2> QED BY <2>1, FS_Interval DEF Ids
<1> QED BY <1>1, FS_Subset, FS_CardinalityType

\* What Threw (a statement has thrown) makes of a busy handler is again a handler.
LEMMA ThrewTyped ==
    ASSUME NEW job \in Job, job.pc \in BusyPc, Counted(job)
    PROVE  Threw(job) \in Job /\ Counted(Threw(job)) /\ Threw(job).op = job.op
<1>1. CASE job.op = "bulk"
    <2> DEFINE next == [job EXCEPT !.errors = @ + 1, !.left = @ - 1,
                                   !.pc = IF job.left > 1 THEN "exec" ELSE "ok"]
    <2>1. Threw(job) = next
        BY <1>1 DEF Threw, NextItem, Job
    <2>2. job.left \in 1..BulkSize /\ job.errors + 1 \in 0..BulkSize
        BY <1>1, RowsAssumption DEF Counted, Job, BusyPc
    <2>3. next \in Job /\ next.op = job.op
        <3>1. job.left - 1 \in 0..BulkSize
            BY <2>2, RowsAssumption
        <3>2. (IF job.left > 1 THEN "exec" ELSE "ok")
                  \in {"exec", "lastid", "reread", "ok", "notfound", "error"}
            OBVIOUS
        <3> QED BY <2>2, <3>1, <3>2 DEF Job
    <2>4. Counted(next)
        BY <1>1, <2>2, RowsAssumption DEF Counted, Job
    <2> QED BY <2>1, <2>3, <2>4
<1>2. CASE job.op # "bulk"
    BY <1>2 DEF Threw, Job, Counted
<1> QED BY <1>1, <1>2

\* The same for Returned (the statements have returned the rows in found).
LEMMA ReturnedTyped ==
    ASSUME NEW job \in Job, job.pc \in BusyPc, Counted(job), NEW found \in SUBSET Ids
    PROVE  /\ Returned(job, found) \in Job
           /\ Counted(Returned(job, found))
           /\ Returned(job, found).op = job.op
<1>1. CASE job.op = "bulk"
    <2> DEFINE next == [job EXCEPT !.shown = @ \cup found, !.left = @ - 1,
                                   !.pc = IF job.left > 1 THEN "exec" ELSE "ok"]
    <2>1. Returned(job, found) = next
        BY <1>1 DEF Returned, NextItem, Job
    <2>2. job.left \in 1..BulkSize
        BY <1>1, RowsAssumption DEF Counted, Job, BusyPc
    <2>3. next \in Job /\ next.op = job.op
        <3>1. job.left - 1 \in 0..BulkSize
            BY <2>2, RowsAssumption
        <3>2. (IF job.left > 1 THEN "exec" ELSE "ok")
                  \in {"exec", "lastid", "reread", "ok", "notfound", "error"}
            OBVIOUS
        <3> QED BY <2>2, <3>1, <3>2 DEF Job
    <2>4. Counted(next)
        BY <1>1, <2>2, RowsAssumption DEF Counted, Job
    <2> QED BY <2>1, <2>3, <2>4
<1>2. CASE job.op # "bulk"
    BY <1>2 DEF Returned, Job, Counted
<1> QED BY <1>1, <1>2

\* With RETURNING, a statement that throws adds at most one row to what the
\* request has changed, and an error to a bulk request.
LEMMA ThrewReturning ==
    ASSUME NEW job \in Job, job.pc \in BusyPc, Counted(job),
           NEW eff \in SUBSET Ids, NEW new \in SUBSET Ids,
           Returning(job, eff),
           job.op = "bulk" => new = eff \/ \E i \in Ids : new = eff \cup {i}
    PROVE  Returning(Threw(job), new)
<1>1. CASE job.op = "bulk"
    <2> DEFINE next == [job EXCEPT !.errors = @ + 1, !.left = @ - 1,
                                   !.pc = IF job.left > 1 THEN "exec" ELSE "ok"]
    <2>1. Threw(job) = next
        BY <1>1 DEF Threw, NextItem, Job
    <2>2. /\ next.pc \notin {"lastid", "reread"} /\ next.op = "bulk"
          /\ next.shown = job.shown /\ next.errors = job.errors + 1
          /\ next.left = job.left - 1 /\ next.size = job.size
        BY <1>1 DEF Job
    <2>3. /\ job.shown \subseteq eff
          /\ Cardinality(eff \ job.shown) <= job.errors
          /\ Cardinality(job.shown) + job.errors + job.left = job.size
        BY <1>1 DEF Returning
    <2>4. Cardinality(new \ job.shown) <= job.errors + 1
        <3>0. job.errors \in Nat /\ Cardinality(eff \ job.shown) \in Nat
            BY RowsAssumption, IdSets DEF Job
        <3>1. CASE new = eff
            BY <2>3, <3>0, <3>1, IdSets
        <3>2. CASE \E i \in Ids : new = eff \cup {i}
            <4>1. PICK i \in Ids : new = eff \cup {i}
                BY <3>2
            <4>2. CASE i \in job.shown \/ i \in eff
                <5>1. new \ job.shown = eff \ job.shown
                    BY <2>3, <4>1, <4>2
                <5> QED BY <2>3, <3>0, <5>1, IdSets
            <4>3. CASE i \notin job.shown /\ i \notin eff
                <5>1. new \ job.shown = (eff \ job.shown) \cup {i}
                    BY <4>1, <4>3
                <5>2. Cardinality(new \ job.shown) = Cardinality(eff \ job.shown) + 1
                    BY <4>3, <5>1, IdSets, FS_AddElement
                <5> QED BY <2>3, <3>0, <5>2, IdSets
            <4> QED BY <4>2, <4>3
        <3> QED BY <1>1, <3>1, <3>2
    <2>5. job.shown \subseteq new
        BY <1>1, <2>3
    <2>6. Cardinality(job.shown) + (job.errors + 1) + (job.left - 1) = job.size
        <3>1. job.shown \in SUBSET Ids /\ job.errors \in Int /\ job.left \in Int
            BY RowsAssumption DEF Job
        <3> QED BY <2>3, <3>1, IdSets
    <2> QED BY <2>1, <2>2, <2>4, <2>5, <2>6 DEF Returning
<1>2. CASE job.op # "bulk"
    BY <1>2 DEF Threw, Job, Returning
<1> QED BY <1>1, <1>2

\* With RETURNING, a statement that returns its row shows the row.
LEMMA ReturnedReturning ==
    ASSUME NEW job \in Job, job.pc = "exec", Counted(job),
           NEW eff \in SUBSET Ids, NEW found \in SUBSET Ids,
           Returning(job, eff),
           job.op = "bulk" => \E i \in Ids : i \notin eff /\ found = {i}
    PROVE  Returning(Returned(job, found), eff \cup found)
<1>1. CASE job.op = "bulk"
    <2> DEFINE next == [job EXCEPT !.shown = @ \cup found, !.left = @ - 1,
                                   !.pc = IF job.left > 1 THEN "exec" ELSE "ok"]
    <2>1. Returned(job, found) = next
        BY <1>1 DEF Returned, NextItem, Job
    <2>2. /\ next.pc \notin {"lastid", "reread"} /\ next.op = "bulk"
          /\ next.shown = job.shown \cup found /\ next.errors = job.errors
          /\ next.left = job.left - 1 /\ next.size = job.size
        BY <1>1 DEF Job
    <2>3. /\ job.shown \subseteq eff
          /\ Cardinality(eff \ job.shown) <= job.errors
          /\ Cardinality(job.shown) + job.errors + job.left = job.size
        BY <1>1 DEF Returning
    <2>4. PICK i \in Ids : i \notin eff /\ found = {i}
        BY <1>1
    <2>5. (eff \cup found) \ (job.shown \cup found) = eff \ job.shown
        BY <2>3, <2>4
    <2>6. job.shown \in SUBSET Ids /\ job.errors \in Int /\ job.left \in Int
        BY RowsAssumption DEF Job
    <2>7. Cardinality(job.shown \cup found) = Cardinality(job.shown) + 1
        BY <2>3, <2>4, <2>6, IdSets, FS_AddElement
    <2>8. Cardinality(job.shown \cup found) + job.errors + (job.left - 1) = job.size
        BY <2>3, <2>6, <2>7, IdSets
    <2>9. job.shown \cup found \subseteq eff \cup found
        BY <2>3
    <2> QED BY <2>1, <2>2, <2>3, <2>5, <2>8, <2>9 DEF Returning
<1>2. CASE job.op # "bulk"
    BY <1>2 DEF Returned, Job, Returning
<1> QED BY <1>1, <1>2

-----------------------------------------------------------------------------
(* The invariant *)

\* A step of handler p that keeps the order of ids, and leaves p with a row
\* set and an answer that belong together, disturbs no other handler.
LEMMA StepKeepsRowInv ==
    ASSUME RowInv, NEW p \in Requests,
           engine' = engine,
           lastId' \in [Connections -> Ids \cup {NoId}],
           nextId' \in 1..MaxId + 1, nextId' >= nextId,
           rows' \in SUBSET Ids,
           rows' \subseteq rows \cup {nextId},
           rows' \subseteq 1..nextId' - 1,
           request' = [request EXCEPT ![p] = request'[p]],
           request'[p] \in Job,
           effect' = [effect EXCEPT ![p] = effect'[p]],
           effect'[p] \in SUBSET Ids,
           effect'[p] \subseteq 1..nextId' - 1,
           Counted(request'[p]),
           engine = "returning" => Returning(request'[p], effect'[p]),
           Updating(request'[p], effect'[p], rows')
    PROVE  RowInv'
<1>1. TypeOK'
    BY DEF RowInv, TypeOK
<1>2. ASSUME NEW r \in Requests, r # p
      PROVE  request'[r] = request[r] /\ effect'[r] = effect[r]
    BY <1>2 DEF RowInv, TypeOK
<1>3. \A r \in Requests : effect'[r] \subseteq 1..nextId' - 1
    <2> SUFFICES ASSUME NEW r \in Requests, r # p
                 PROVE  effect'[r] \subseteq 1..nextId' - 1
        OBVIOUS
    <2>1. effect[r] \subseteq 1..nextId - 1
        BY DEF RowInv
    <2> QED BY <1>2, <2>1, RowsAssumption DEF RowInv, TypeOK
<1>4. \A r \in Requests : request'[r] = Idle => effect'[r] = {}
    <2>1. request'[p] # Idle
        BY DEF Job, Idle
    <2> QED BY <1>2, <2>1 DEF RowInv, Started
<1>5. ASSUME NEW r \in Requests, request'[r] # Idle
      PROVE  /\ Counted(request'[r])
             /\ engine' = "returning" => Returning(request'[r], effect'[r])
             /\ Updating(request'[r], effect'[r], rows')
    <2>1. CASE r = p
        BY <2>1
    <2>2. CASE r # p
        <3>1. request'[r] = request[r] /\ effect'[r] = effect[r]
            BY <1>2, <2>2
        <3>2. /\ Counted(request[r])
              /\ engine = "returning" => Returning(request[r], effect[r])
              /\ Updating(request[r], effect[r], rows)
            BY <1>5, <3>1 DEF RowInv, Started
        <3>3. effect[r] \cap rows = {} => effect[r] \cap rows' = {}
            <4>1. effect[r] \subseteq 1..nextId - 1 /\ nextId \in Int
                BY RowsAssumption DEF RowInv, TypeOK
            <4>2. nextId \notin effect[r]
                BY <4>1
            <4> QED BY <4>2
        <3>4. Updating(request[r], effect[r], rows')
            BY <3>2, <3>3 DEF Updating
        <3> QED BY <3>1, <3>2, <3>4
    <2> QED BY <2>1, <2>2
<1> QED BY <1>1, <1>3, <1>4, <1>5 DEF RowInv, Started

\* What the invariant says of a busy handler, and of the ids it deals with.
LEMMA BusyHandler ==
    ASSUME RowInv, NEW p \in Requests, request[p].pc \in BusyPc
    PROVE  /\ request[p] \in Job /\ Counted(request[p])
           /\ engine = "returning" => Returning(request[p], effect[p])
           /\ Updating(request[p], effect[p], rows)
           /\ effect[p] \in SUBSET Ids /\ effect[p] \subseteq 1..nextId - 1
           /\ Found(p) \in SUBSET Ids /\ Found(p) \subseteq 1..nextId - 1
           /\ nextId \in Int /\ nextId \notin effect[p]
<1>1. request[p] \in Job /\ Started(p)
    BY DEF RowInv, TypeOK, Idle, Started, BusyPc
<1>2. nextId \in Int
    BY RowsAssumption DEF RowInv, TypeOK
<1>3. effect[p] \in SUBSET Ids /\ effect[p] \subseteq 1..nextId - 1
    BY DEF RowInv, TypeOK
<1>4. Found(p) \in SUBSET Ids /\ Found(p) \subseteq 1..nextId - 1
    BY DEF RowInv, TypeOK, Found
<1>5. nextId \notin effect[p]
    BY <1>2, <1>3
<1> QED BY <1>1, <1>2, <1>3, <1>4, <1>5 DEF RowInv

\* What a step leaves alone when only the handler p, and perhaps the rows it
\* has changed, are written.
LEMMA QuietStep ==
    ASSUME RowInv, NEW p \in Requests, UNCHANGED <<engine, nextId, lastId>>,
           rows' \subseteq rows,
           request' = [request EXCEPT ![p] = request'[p]],
           request'[p] \in Job,
           effect' = [effect EXCEPT ![p] = effect'[p]],
           effect'[p] \in SUBSET Ids,
           effect'[p] \subseteq 1..nextId - 1,
           Counted(request'[p]),
           engine = "returning" => Returning(request'[p], effect'[p]),
           Updating(request'[p], effect'[p], rows')
    PROVE  RowInv'
<1>1. lastId' \in [Connections -> Ids \cup {NoId}]
    BY DEF RowInv, TypeOK
<1>2. nextId' \in 1..MaxId + 1 /\ nextId' >= nextId
    BY RowsAssumption DEF RowInv, TypeOK
<1>3. rows' \in SUBSET Ids /\ rows' \subseteq 1..nextId' - 1
    BY DEF RowInv, TypeOK
<1>4. rows' \subseteq rows \cup {nextId} /\ effect'[p] \subseteq 1..nextId' - 1
    OBVIOUS
<1> QED BY <1>1, <1>2, <1>3, <1>4, StepKeepsRowInv

\* A started request has changed nothing.
LEMMA StartKeepsRowInv ==
    ASSUME RowInv, NEW p \in Requests,
           NEW op \in {"create", "bulk", "update", "delete"},
           NEW id \in Ids \cup {NoId}, NEW n \in 1..BulkSize, Start(p, op, id, n)
    PROVE  RowInv'
<1> DEFINE job == [pc |-> "exec", op |-> op, id |-> id, left |-> n, size |-> n,
                   shown |-> {}, errors |-> 0]
<1>1. request' = [request EXCEPT ![p] = job] /\ request'[p] = job /\ effect[p] = {}
    BY DEF Start, RowInv, TypeOK, Started
<1>2. job \in Job
    BY RowsAssumption DEF Job
<1>3. Counted(job)
    BY RowsAssumption DEF Counted
<1>4. Updating(job, {}, rows)
    BY DEF Updating
<1>5. Cardinality({}) = 0
    BY FS_EmptySet
<1>6. Returning(job, {})
    <2>1. n \in Int
        OBVIOUS
    <2>2. Cardinality({} \ {}) = 0 /\ Cardinality({}) + 0 + n = n
        BY <1>5, <2>1
    <2> QED BY <2>2 DEF Returning
<1>7. effect' = [effect EXCEPT ![p] = effect'[p]] /\ effect'[p] = {}
    BY <1>1 DEF Start, RowInv, TypeOK
<1>8. UNCHANGED <<engine, nextId, lastId, rows>>
    BY DEF Start
<1> HIDE DEF job
<1> QED BY <1>1, <1>2, <1>3, <1>4, <1>6, <1>7, <1>8, QuietStep

\* A statement that throws without having changed a row.
LEMMA ThrewKeepsRowInv ==
    ASSUME RowInv, NEW p \in Requests, request[p].pc \in BusyPc,
           request' = [request EXCEPT ![p] = Threw(@)],
           UNCHANGED <<engine, rows, nextId, lastId, effect>>
    PROVE  RowInv'
<1>1. request'[p] = Threw(request[p]) /\ request' = [request EXCEPT ![p] = request'[p]]
    BY DEF RowInv, TypeOK
<1>2. /\ Threw(request[p]) \in Job /\ Counted(Threw(request[p]))
      /\ Threw(request[p]).op = request[p].op
    BY BusyHandler, ThrewTyped
<1>3. engine = "returning" => Returning(Threw(request[p]), effect[p])
    BY BusyHandler, ThrewReturning
<1>4. Updating(Threw(request[p]), effect[p], rows)
    BY <1>2, BusyHandler DEF Updating, Threw, Job
<1>5. effect' = [effect EXCEPT ![p] = effect'[p]] /\ effect'[p] = effect[p]
    BY DEF RowInv, TypeOK
<1> QED BY <1>1, <1>2, <1>3, <1>4, <1>5, BusyHandler, QuietStep

\* An INSERT, whether its reply arrives or not.
LEMMA InsertKeepsRowInv ==
    ASSUME RowInv, NEW p \in Requests, NEW c \in Connections, InsertRow(p, c),
           UNCHANGED engine,
           request' = [request EXCEPT ![p] = request'[p]],
           \/ request'[p] = Threw(request[p])
           \/ engine # "mysql" /\ request'[p] = Returned(request[p], {nextId})
           \/ engine = "mysql" /\ request'[p] = [request[p] EXCEPT !.pc = "lastid"]
    PROVE  RowInv'
<1>1. request[p].pc = "exec" /\ request[p].op \in {"create", "bulk"} /\ nextId \in Ids
    BY DEF InsertRow
<1>2. /\ request[p] \in Job /\ Counted(request[p])
      /\ engine = "returning" => Returning(request[p], effect[p])
      /\ effect[p] \in SUBSET Ids /\ effect[p] \subseteq 1..nextId - 1
      /\ nextId \in Int /\ nextId \notin effect[p]
    BY <1>1, BusyHandler DEF BusyPc
<1>3. /\ nextId' = nextId + 1 /\ nextId' \in 1..MaxId + 1
      /\ lastId' \in [Connections -> Ids \cup {NoId}]
    BY <1>1, RowsAssumption DEF InsertRow, RowInv, TypeOK, Ids
<1>4. /\ rows' = rows \cup {nextId} /\ rows' \in SUBSET Ids
      /\ rows' \subseteq 1..nextId' - 1
    <2>1. rows \subseteq 1..nextId - 1 /\ rows \in SUBSET Ids
        BY DEF RowInv, TypeOK
    <2> QED BY <1>1, <1>3, <2>1, RowsAssumption DEF InsertRow, Ids
<1>5. /\ effect' = [effect EXCEPT ![p] = effect'[p]]
      /\ effect'[p] = effect[p] \cup {nextId}
    BY DEF InsertRow, RowInv, TypeOK
<1>6. effect'[p] \in SUBSET Ids /\ effect'[p] \subseteq 1..nextId' - 1
    BY <1>1, <1>2, <1>3, <1>5, RowsAssumption DEF Ids
<1>7. /\ request'[p] \in Job /\ Counted(request'[p])
      /\ request'[p].op = request[p].op
    <2>1. Threw(request[p]) \in Job /\ Counted(Threw(request[p]))
          /\ Threw(request[p]).op = request[p].op
        BY <1>1, <1>2, ThrewTyped DEF BusyPc
    <2>2. /\ Returned(request[p], {nextId}) \in Job
          /\ Counted(Returned(request[p], {nextId}))
          /\ Returned(request[p], {nextId}).op = request[p].op
        BY <1>1, <1>2, ReturnedTyped DEF BusyPc
    <2>3. /\ [request[p] EXCEPT !.pc = "lastid"] \in Job
          /\ Counted([request[p] EXCEPT !.pc = "lastid"])
          /\ [request[p] EXCEPT !.pc = "lastid"].op = request[p].op
        BY <1>1, <1>2 DEF Job, Counted
    <2>4. CASE request'[p] = Threw(request[p])
        BY <2>1, <2>4
    <2>5. CASE request'[p] = Returned(request[p], {nextId})
        BY <2>2, <2>5
    <2>6. CASE request'[p] = [request[p] EXCEPT !.pc = "lastid"]
        BY <2>3, <2>6
    <2> QED BY <2>4, <2>5, <2>6
<1>8. engine = "returning" => Returning(request'[p], effect'[p])
    <2> SUFFICES ASSUME engine = "returning"
                 PROVE  Returning(request'[p], effect[p] \cup {nextId})
        BY <1>5
    <2>1. Returning(request[p], effect[p])
        BY <1>2
    <2>2. effect[p] \cup {nextId} \in SUBSET Ids
        BY <1>1, <1>2
    <2>3. Returning(Threw(request[p]), effect[p] \cup {nextId})
        BY <1>1, <1>2, <2>1, <2>2, ThrewReturning DEF BusyPc
    <2>4. Returning(Returned(request[p], {nextId}), effect[p] \cup {nextId})
        BY <1>1, <1>2, <2>1, ReturnedReturning
    <2> QED BY <2>3, <2>4
<1>9. Updating(request'[p], effect'[p], rows')
    BY <1>1, <1>7 DEF Updating
<1>10. nextId' >= nextId /\ rows' \subseteq rows \cup {nextId}
    BY <1>2, <1>3, <1>4
<1> QED BY <1>3, <1>4, <1>5, <1>6, <1>7, <1>8, <1>9, <1>10, StepKeepsRowInv

\* LAST_INSERT_ID(), whatever it is, is only asked for by an INSERT on MySQL.
LEMMA LastIdKeepsRowInv ==
    ASSUME RowInv, NEW p \in Requests, NEW c \in Connections, LastId(p, c)
    PROVE  RowInv'
<1> DEFINE job == [request[p] EXCEPT !.pc = "reread", !.id = lastId[c]]
<1>1. request[p].pc = "lastid" /\ request[p] \in Job /\ Counted(request[p])
    BY BusyHandler DEF LastId, BusyPc
<1>2. request' = [request EXCEPT ![p] = job] /\ request'[p] = job
    BY <1>1 DEF LastId, RowInv, TypeOK
<1>3. lastId[c] \in Ids \cup {NoId}
    BY DEF RowInv, TypeOK
<1>4. job \in Job /\ job.op = request[p].op
    BY <1>1, <1>3 DEF Job
<1>5. Counted(job)
    BY <1>1 DEF Counted, Job
<1>6. engine # "returning" /\ request[p].op # "update"
    BY <1>1, BusyHandler DEF Returning, Updating, BusyPc
<1>7. Updating(job, effect[p], rows)
    BY <1>4, <1>6 DEF Updating
<1>8. /\ effect' = [effect EXCEPT ![p] = effect'[p]] /\ effect'[p] = effect[p]
      /\ UNCHANGED <<engine, rows, nextId, lastId>>
    BY DEF LastId, RowInv, TypeOK
<1>9. effect[p] \in SUBSET Ids /\ effect[p] \subseteq 1..nextId - 1
    BY <1>1, BusyHandler DEF BusyPc
<1> HIDE DEF job
<1> QED BY <1>2, <1>4, <1>5, <1>6, <1>7, <1>8, <1>9, QuietStep

\* The re-read shows the row of an UPDATE, or finds it deleted.
LEMMA RereadKeepsRowInv ==
    ASSUME RowInv, NEW p \in Requests, Reread(p)
    PROVE  RowInv'
<1> DEFINE found == Found(p)
<1>1. /\ request[p].pc = "reread" /\ request[p] \in Job /\ Counted(request[p])
      /\ found \in SUBSET Ids /\ Updating(request[p], effect[p], rows)
    BY BusyHandler DEF Reread, BusyPc
<1>2. /\ request' = [request EXCEPT ![p] = request'[p]]
      /\ request'[p] = Returned(request[p], found)
    BY <1>1 DEF Reread, RowInv, TypeOK, Found
<1>3. /\ Returned(request[p], found) \in Job /\ Counted(Returned(request[p], found))
      /\ Returned(request[p], found).op = request[p].op
    BY <1>1, ReturnedTyped DEF BusyPc
<1>4. engine # "returning"
    BY <1>1, BusyHandler DEF Returning, BusyPc
<1>5. Updating(Returned(request[p], found), effect[p], rows)
    <2> SUFFICES ASSUME request[p].op = "update"
                 PROVE  Updating(Returned(request[p], found), effect[p], rows)
        BY <1>3 DEF Updating
    <2>1. effect[p] = {request[p].id} /\ found = rows \cap effect[p]
        BY <1>1 DEF Updating, Found
    <2>2. CASE found = {}
        BY <1>1, <2>1, <2>2 DEF Returned, Updating, Job
    <2>3. CASE found # {}
        <3>1. found = effect[p]
            BY <2>1, <2>3
        <3> QED BY <1>1, <2>3, <3>1 DEF Returned, Updating, Job
    <2> QED BY <2>2, <2>3
<1>6. /\ effect' = [effect EXCEPT ![p] = effect'[p]] /\ effect'[p] = effect[p]
      /\ UNCHANGED <<engine, rows, nextId, lastId>>
    BY DEF Reread, RowInv, TypeOK
<1>7. effect[p] \in SUBSET Ids /\ effect[p] \subseteq 1..nextId - 1
    BY <1>1, BusyHandler DEF BusyPc
<1> HIDE DEF found
<1> QED BY <1>2, <1>3, <1>4, <1>5, <1>6, <1>7, QuietStep

\* A statement of a PUT or a DELETE finds its row or does not, and its handler
\* shows what it found, goes on to read it back, or gets no reply.
LEMMA ChangeKeepsRowInv ==
    ASSUME RowInv, NEW p \in Requests,
           request[p].pc = "exec", request[p].op \in {"update", "delete"},
           UNCHANGED <<engine, nextId, lastId>>,
           effect' = [effect EXCEPT ![p] = Found(p)],
           request[p].op = "delete" => rows' = rows \ Found(p),
           request[p].op = "update" => rows' = rows,
           request' = [request EXCEPT ![p] = request'[p]],
           \/ request'[p] = Threw(request[p])
           \/ request'[p] = Returned(request[p], Found(p))
           \/ /\ engine = "mysql" /\ request[p].op = "delete"
              /\ request'[p] = Returned(request[p], {})
           \/ /\ engine = "mysql" /\ request[p].op = "update" /\ Found(p) # {}
              /\ request'[p] = [request[p] EXCEPT !.pc = "reread"]
    PROVE  RowInv'
<1>1. /\ request[p] \in Job /\ Counted(request[p])
      /\ engine = "returning" => Returning(request[p], effect[p])
      /\ Found(p) \in SUBSET Ids /\ Found(p) \subseteq 1..nextId - 1
      /\ effect[p] \in SUBSET Ids
    BY BusyHandler DEF BusyPc
<1>2. effect' = [effect EXCEPT ![p] = effect'[p]] /\ effect'[p] = Found(p)
    BY DEF RowInv, TypeOK
<1> DEFINE lost == Threw(request[p])
           shown == Returned(request[p], Found(p))
           silent == Returned(request[p], {})
           reads == [request[p] EXCEPT !.pc = "reread"]
<1>3. /\ lost \in Job /\ Counted(lost) /\ lost.op = request[p].op
      /\ Updating(lost, Found(p), rows')
      /\ engine = "returning" => Returning(lost, Found(p))
    <2>1. lost = [request[p] EXCEPT !.pc = "error"]
        BY DEF Threw
    <2> HIDE DEF lost
    <2> QED BY <1>1, <2>1 DEF Job, Counted, Updating, Returning
<1>4. /\ shown \in Job /\ Counted(shown) /\ shown.op = request[p].op
      /\ Updating(shown, Found(p), rows')
      /\ engine = "returning" => Returning(shown, Found(p))
    <2>1. shown = [request[p] EXCEPT !.shown = Found(p),
                                     !.pc = IF Found(p) = {} THEN "notfound" ELSE "ok"]
        BY DEF Returned
    <2> HIDE DEF shown
    <2> QED BY <1>1, <2>1 DEF Job, Counted, Updating, Returning
<1>5. /\ silent \in Job /\ Counted(silent)
      /\ request[p].op = "delete" => Updating(silent, Found(p), rows')
    <2>1. silent = [request[p] EXCEPT !.shown = {}, !.pc = "notfound"]
        BY DEF Returned
    <2> HIDE DEF silent
    <2> QED BY <1>1, <2>1 DEF Job, Counted, Updating
<1>6. /\ reads \in Job /\ Counted(reads)
      /\ Found(p) # {} => Updating(reads, Found(p), rows')
    <2>1. Found(p) # {} => Found(p) = {request[p].id}
        BY DEF Found
    <2> QED BY <1>1, <2>1 DEF Job, Counted, Updating
<1>7. rows' \subseteq rows
    OBVIOUS
<1>8. "returning" # "mysql"
    OBVIOUS
<1> HIDE DEF lost, shown, silent, reads
<1>9. \/ request'[p] = lost
      \/ request'[p] = shown
      \/ engine = "mysql" /\ request[p].op = "delete" /\ request'[p] = silent
      \/ engine = "mysql" /\ Found(p) # {} /\ request'[p] = reads
    BY DEF lost, shown, silent, reads
<1>10. /\ request'[p] \in Job /\ Counted(request'[p])
       /\ engine = "returning" => Returning(request'[p], Found(p))
       /\ Updating(request'[p], Found(p), rows')
    BY <1>3, <1>4, <1>5, <1>6, <1>8, <1>9
<1> QED BY <1>1, <1>2, <1>7, <1>10, QuietStep

\* Every step keeps the invariant.
LEMMA NextKeepsRowInv ==
    ASSUME RowInv, [Next]_vars
    PROVE  RowInv'
<1>1. ASSUME NEW p \in Requests, NEW op \in {"create", "bulk", "update", "delete"},
             NEW id \in Ids \cup {NoId}, NEW n \in 1..BulkSize, Start(p, op, id, n)
      PROVE  RowInv'
    BY <1>1, StartKeepsRowInv
<1>2. ASSUME NEW p \in Requests, NEW c \in Connections, Insert(p, c)
      PROVE  RowInv'
    <2>1. request' = [request EXCEPT ![p] = request'[p]]
        BY <1>2 DEF Insert, RowInv, TypeOK
    <2>2. \/ engine # "mysql" /\ request'[p] = Returned(request[p], {nextId})
          \/ engine = "mysql" /\ request'[p] = [request[p] EXCEPT !.pc = "lastid"]
        BY <1>2 DEF Insert, RowInv, TypeOK
    <2>3. InsertRow(p, c) /\ UNCHANGED engine
        BY <1>2 DEF Insert
    <2> QED BY <2>1, <2>2, <2>3, InsertKeepsRowInv
<1>3. ASSUME NEW p \in Requests, NEW c \in Connections, InsertReplyLost(p, c)
      PROVE  RowInv'
    <2>1. /\ request' = [request EXCEPT ![p] = request'[p]]
          /\ request'[p] = Threw(request[p])
        BY <1>3 DEF InsertReplyLost, RowInv, TypeOK
    <2>2. InsertRow(p, c) /\ UNCHANGED engine
        BY <1>3 DEF InsertReplyLost
    <2> QED BY <2>1, <2>2, InsertKeepsRowInv
<1>4. ASSUME NEW p \in Requests, NEW c \in Connections, LastId(p, c)
      PROVE  RowInv'
    BY <1>4, LastIdKeepsRowInv
<1>5. ASSUME NEW p \in Requests, Refused(p) \/ RereadFails(p)
      PROVE  RowInv'
    BY <1>5, ThrewKeepsRowInv DEF Refused, RereadFails, BusyPc
<1>6. ASSUME NEW p \in Requests, Reread(p)
      PROVE  RowInv'
    BY <1>6, RereadKeepsRowInv
<1>7. ASSUME NEW p \in Requests, Update(p)
      PROVE  RowInv'
    <2>1. request' = [request EXCEPT ![p] = request'[p]]
        BY <1>7 DEF Update, RowInv, TypeOK
    <2>2. \/ request'[p] = Returned(request[p], Found(p))
          \/ /\ engine = "mysql" /\ Found(p) # {}
             /\ request'[p] = [request[p] EXCEPT !.pc = "reread"]
        BY <1>7 DEF Update, RowInv, TypeOK
    <2> QED BY <1>7, <2>1, <2>2, ChangeKeepsRowInv DEF Update
<1>8. ASSUME NEW p \in Requests, Delete(p)
      PROVE  RowInv'
    <2>1. request' = [request EXCEPT ![p] = request'[p]]
        BY <1>8 DEF Delete, RowInv, TypeOK
    <2>2. \/ request'[p] = Returned(request[p], Found(p))
          \/ engine = "mysql" /\ request'[p] = Returned(request[p], {})
        BY <1>8 DEF Delete, RowInv, TypeOK
    <2> QED BY <1>8, <2>1, <2>2, ChangeKeepsRowInv DEF Delete
<1>9. ASSUME NEW p \in Requests, ChangeReplyLost(p)
      PROVE  RowInv'
    <2>1. /\ request' = [request EXCEPT ![p] = request'[p]]
          /\ request'[p] = Threw(request[p])
        BY <1>9 DEF ChangeReplyLost, RowInv, TypeOK
    <2> QED BY <1>9, <2>1, ChangeKeepsRowInv DEF ChangeReplyLost
<1>10. ASSUME UNCHANGED vars
       PROVE  RowInv'
    BY <1>10 DEF vars, RowInv, TypeOK, Started
<1> QED BY <1>1, <1>2, <1>3, <1>4, <1>5, <1>6, <1>7, <1>8, <1>9, <1>10 DEF Next

\* The initial state satisfies the invariant.
LEMMA InitRowInv ==
    ASSUME Init PROVE RowInv
BY RowsAssumption DEF Init, RowInv, TypeOK, Started, Ids

\* The invariant holds throughout.
LEMMA RowInvariant == Spec => []RowInv
BY InitRowInv, NextKeepsRowInv, PTL DEF Spec

-----------------------------------------------------------------------------
(* What it gives *)

\* The variables keep their types: the counters of a bulk request, for one,
\* stay within its size whatever fails.
THEOREM TypeCorrect == Spec => []TypeOK
<1>1. RowInv => TypeOK
    BY DEF RowInv
<1> QED BY <1>1, RowInvariant, PTL

\* With RETURNING an answer shows the rows its request has changed; on any
\* engine a PUT shows the row it has updated, or lost it to a DELETE
\* (executeInsert, executeUpdate and executeDelete, with their handlers).
THEOREM AnswersTellEffects == Spec => []AnswerTellsEffect
<1>1. ASSUME RowInv, NEW r \in Requests, request[r].pc \in {"ok", "notfound"}
      PROVE  /\ Started(r)
             /\ engine = "returning" => Returning(request[r], effect[r])
             /\ Updating(request[r], effect[r], rows)
    BY <1>1 DEF RowInv, Started, Idle
<1>2. RowInv => ShownIsEffect
    BY <1>1 DEF ShownIsEffect, Answered, Returning
<1>3. RowInv => UpdateIsTold
    BY <1>1 DEF UpdateIsTold, Answered, Updating
<1> QED BY <1>2, <1>3, RowInvariant, PTL DEF AnswerTellsEffect

\* With RETURNING every item of an answered bulk request is a row or an error
\* of the answer (handleBulkCreate).
THEOREM BulkIsAccountedFor == Spec => []BulkAccountsForAll
<1>1. ASSUME RowInv, NEW r \in Requests, engine = "returning", Answered(r, "bulk", "ok")
      PROVE  Cardinality(request[r].shown) + request[r].errors = request[r].size
    <2>1. Started(r) /\ request[r] \in Job
        BY <1>1 DEF RowInv, TypeOK, Started, Idle, Answered
    <2>2. Counted(request[r]) /\ Returning(request[r], effect[r])
        BY <1>1, <2>1 DEF RowInv
    <2>3. request[r].left = 0
        BY <1>1, <2>2 DEF Answered, Counted
    <2>4. Cardinality(request[r].shown) \in Nat /\ request[r].errors \in Nat
        <3>1. request[r].shown \in SUBSET Ids
            BY <2>1 DEF Job
        <3> QED BY <2>1, <3>1, IdSets, RowsAssumption DEF Job
    <2> QED BY <1>1, <2>2, <2>3, <2>4 DEF Answered, Returning
<1>2. RowInv => BulkAccountsForAll
    BY <1>1 DEF BulkAccountsForAll
<1> QED BY <1>2, RowInvariant, PTL

-----------------------------------------------------------------------------
(* Lists: what is proved of them *)

\* A list request of which the parameters are parsed.
ListJob ==
    [pc : {"select", "count", "ok"}, limit : 1..MaxLimit, offset : 0..(Word - 1),
     sorted : BOOLEAN, match : Filters, wantCount : BOOLEAN,
     page : SUBSET Ids, hasMore : BOOLEAN, total : Nat \cup {Unknown}]

ListTyped ==
    /\ list \in [Lists -> ListJob \cup {Idle, [pc |-> "error"]}]
    /\ seen \in [Lists -> SUBSET SUBSET Ids]

\* The page of job, and what it says of the others, is that of the rows in S.
PageOf(job, S) ==
    /\ job.page \subseteq S
    /\ job.hasMore <=> Cardinality(S) > job.offset + job.limit
    /\ job.hasMore => Cardinality(job.page) = job.limit
    /\ ~job.hasMore => Cardinality(job.page) =
           IF Cardinality(S) > job.offset THEN Cardinality(S) - job.offset ELSE 0
    /\ job.sorted => job.page = {x \in S : Rank(S, x)
                                    \in job.offset..(job.offset + job.limit - 1)}
    /\ ~job.wantCount => job.total = IF job.hasMore THEN Unknown
                                     ELSE job.offset + Cardinality(job.page)

\* The rows rs that a list is about to read are among the sets of rows seen,
\* and so are those it has read, by the SELECT and by the COUNT.
ListSound(job, sets, rs) ==
    /\ job.pc \in {"select", "count"} => rs \cap job.match \in sets
    /\ job.pc \in {"count", "ok"} => \E S \in sets : PageOf(job, S)
    /\ job.pc = "ok" /\ job.wantCount => \E S \in sets : job.total = Cardinality(S)
    /\ job.pc \in {"select", "count", "ok"} /\ ~job.wantCount =>
           job.offset = 0 /\ job.pc # "count"

\* The inductive invariant.
ListInv ==
    /\ RowInv
    /\ ListTyped
    /\ \A l \in Lists : ListSound(list[l], seen[l], rows)

-----------------------------------------------------------------------------
(* Lemmas about ranks, sizes and pages *)

\* The parameters of the module give what a page may be.
LEMMA Bounds ==
    /\ Word \in Nat /\ Word > 0
    /\ MaxLimit \in Nat \ {0} /\ DefaultLimit \in 1..MaxLimit
    /\ Unknown \in Int /\ Unknown < 0
<1>1. DefaultLimit \in 1..MaxLimit /\ MaxLimit \in 1..(Word - 2) /\ Word \in Nat
    BY ListAssumption
<1>2. DefaultLimit \in Int /\ MaxLimit \in Int /\ 1 <= DefaultLimit /\ DefaultLimit <= MaxLimit
    BY <1>1
<1> QED BY <1>1, <1>2 DEF Unknown

\* A rank counts the rows before one: it is less than that of any later row,
\* and than their number.
LEMMA RankType ==
    ASSUME NEW S \in SUBSET Ids, NEW x
    PROVE  Rank(S, x) \in Nat
<1>1. {y \in S : y < x} \in SUBSET Ids
    OBVIOUS
<1> QED BY <1>1, IdSets DEF Rank

LEMMA RankGrows ==
    ASSUME NEW S \in SUBSET Ids, NEW x \in S, NEW y \in Nat, x < y
    PROVE  Rank(S, x) < Rank(S, y)
<1> DEFINE A == {z \in S : z < x}
           B == {z \in S : z < y}
<1>1. S \subseteq Nat
    BY RowsAssumption DEF Ids
<1>2. A \in SUBSET B
    <2> SUFFICES ASSUME NEW z \in S, z < x PROVE z < y
        OBVIOUS
    <2>1. z \in Nat /\ x \in Nat
        BY <1>1
    <2> QED BY <2>1
<1>3. x \in B /\ x \notin A
    BY <1>1
<1>4. A # B
    BY <1>3
<1>5. IsFiniteSet(B) /\ Cardinality(A) \in Nat /\ Cardinality(B) \in Nat
    <2>1. A \in SUBSET Ids /\ B \in SUBSET Ids
        OBVIOUS
    <2> QED BY <2>1, IdSets
<1>6. Cardinality(A) <= Cardinality(B) /\ (Cardinality(B) = Cardinality(A) => B = A)
    BY <1>2, <1>5, FS_Subset
<1>7. Cardinality(A) < Cardinality(B)
    <2> HIDE DEF A, B
    <2> QED BY <1>4, <1>5, <1>6
<1> QED BY <1>7 DEF Rank

LEMMA RankBelow ==
    ASSUME NEW S \in SUBSET Ids, NEW x \in S
    PROVE  Rank(S, x) < Cardinality(S)
<1> DEFINE A == {z \in S : z < x}
<1>1. S \subseteq Nat
    BY RowsAssumption DEF Ids
<1>2. A \in SUBSET S /\ x \notin A
    BY <1>1
<1>3. IsFiniteSet(S) /\ Cardinality(S) \in Nat /\ A \in SUBSET Ids
    BY IdSets
<1>4. Cardinality(A) \in Nat
    BY <1>3, IdSets
<1>5. Cardinality(A) <= Cardinality(S) /\ (Cardinality(S) = Cardinality(A) => S = A)
    BY <1>2, <1>3, FS_Subset
<1>6. Cardinality(A) < Cardinality(S)
    <2> HIDE DEF A
    <2> QED BY <1>2, <1>3, <1>4, <1>5
<1> QED BY <1>6 DEF Rank

\* No two rows have the same rank, so that no more rows than ranks are in an
\* interval.
LEMMA RanksApart ==
    ASSUME NEW S \in SUBSET Ids, NEW T \in SUBSET S, NEW a \in Int, NEW b \in Int,
           \A x \in T : Rank(S, x) \in a..b
    PROVE  Cardinality(T) <= IF a > b THEN 0 ELSE b - a + 1
<1> DEFINE f == [x \in T |-> Rank(S, x)]
<1>1. f \in [T -> a..b]
    OBVIOUS
<1>2. \A x, y \in T : f[x] = f[y] => x = y
    <2> SUFFICES ASSUME NEW x \in T, NEW y \in T, x # y
                 PROVE  Rank(S, x) # Rank(S, y)
        OBVIOUS
    <2>1. x \in S /\ y \in S /\ x \in Nat /\ y \in Nat
        BY RowsAssumption DEF Ids
    <2>2. Rank(S, x) \in Nat /\ Rank(S, y) \in Nat
        BY RankType
    <2>3. CASE x < y
        BY <2>1, <2>2, <2>3, RankGrows
    <2>4. CASE y < x
        BY <2>1, <2>2, <2>4, RankGrows
    <2> QED BY <2>1, <2>3, <2>4
<1>3. f \in Injection(T, a..b)
    <2> HIDE DEF f
    <2> QED BY <1>1, <1>2, Fun_IsInj
<1>4. IsFiniteSet(a..b) /\ Cardinality(a..b) = IF a > b THEN 0 ELSE b - a + 1
    BY FS_Interval
<1>5. Cardinality(T) <= Cardinality(a..b)
    BY <1>3, <1>4, FS_Injection
<1> QED BY <1>4, <1>5

\* Max and Min of two numbers.
LEMMA MaxOfTwo ==
    ASSUME NEW a \in Int, NEW b \in Int
    PROVE  Max({a, b}) = IF a >= b THEN a ELSE b
<1> DEFINE m == IF a >= b THEN a ELSE b
<1>1. m \in {a, b} /\ \A y \in {a, b} : m >= y
    OBVIOUS
<1>2. Max({a, b}) \in {a, b} /\ \A y \in {a, b} : Max({a, b}) >= y
    BY <1>1 DEF Max
<1> QED BY <1>2

LEMMA MinOfTwo ==
    ASSUME NEW a \in Int, NEW b \in Int
    PROVE  Min({a, b}) = IF a <= b THEN a ELSE b
<1> DEFINE m == IF a <= b THEN a ELSE b
<1>1. m \in {a, b} /\ \A y \in {a, b} : m =< y
    OBVIOUS
<1>2. Min({a, b}) \in {a, b} /\ \A y \in {a, b} : Min({a, b}) =< y
    BY <1>1 DEF Min
<1> QED BY <1>2

\* How many rows a SELECT returns.
LEMMA SizeOfResult ==
    ASSUME NEW S \in SUBSET Ids, NEW job, job.limit \in Nat, job.offset \in Nat
    PROVE  /\ ResultSize(job, S) \in 0..job.limit + 1
           /\ Cardinality(S) <= job.offset => ResultSize(job, S) = 0
           /\ Cardinality(S) > job.offset + job.limit <=> ResultSize(job, S) > job.limit
           /\ Cardinality(S) > job.offset /\ Cardinality(S) <= job.offset + job.limit
                 => ResultSize(job, S) = Cardinality(S) - job.offset
<1>1. Cardinality(S) \in Nat
    BY IdSets
<1> DEFINE left == Cardinality(S) - job.offset
           most == IF job.limit + 1 <= left THEN job.limit + 1 ELSE left
<1>2. left \in Int /\ job.limit + 1 \in Int
    BY <1>1
<1>3. Min({job.limit + 1, left}) = most
    BY <1>2, MinOfTwo
<1>4. most \in Int
    BY <1>2
<1>5. Max({0, most}) = IF 0 >= most THEN 0 ELSE most
    BY <1>4, MaxOfTwo
<1>6. ResultSize(job, S) = IF 0 >= most THEN 0 ELSE most
    BY <1>3, <1>5 DEF ResultSize
<1> QED BY <1>1, <1>6

\* A page has at most limit rows, and as many if the SELECT returned more; what
\* it lacks of the result is one row then, and nothing otherwise.
LEMMA SizeOfPage ==
    ASSUME NEW S \in SUBSET Ids, NEW job, job.limit \in Nat \ {0}, job.offset \in Nat,
           NEW R \in Results(job, S), NEW P \in Shown(job, R)
    PROVE  /\ P \in SUBSET R /\ R \in SUBSET S
           /\ IsFiniteSet(R) /\ Cardinality(R) \in Nat
           /\ IsFiniteSet(P) /\ Cardinality(P) \in Nat
           /\ Cardinality(R) = ResultSize(job, S)
           /\ Cardinality(P) = IF Cardinality(R) > job.limit THEN job.limit ELSE Cardinality(R)
           /\ Cardinality(R) <= job.limit => P = R
<1>1. R \in SUBSET S /\ Cardinality(R) = ResultSize(job, S)
    BY DEF Results
<1>2. P \in SUBSET R /\ Cardinality(P) = Min({job.limit, Cardinality(R)})
    BY DEF Shown
<1>3. R \in SUBSET Ids /\ P \in SUBSET Ids
    BY <1>1, <1>2
<1>4. /\ IsFiniteSet(R) /\ Cardinality(R) \in Nat
      /\ IsFiniteSet(P) /\ Cardinality(P) \in Nat
    BY <1>3, IdSets
<1>5. Cardinality(P) = IF job.limit <= Cardinality(R) THEN job.limit ELSE Cardinality(R)
    BY <1>2, <1>4, MinOfTwo
<1>6. Cardinality(P) = IF Cardinality(R) > job.limit THEN job.limit ELSE Cardinality(R)
    BY <1>4, <1>5
<1>7. ASSUME Cardinality(R) <= job.limit PROVE P = R
    <2>1. Cardinality(R) = Cardinality(P)
        BY <1>4, <1>6, <1>7
    <2> QED BY <2>1, <1>2, <1>4, FS_Subset
<1> QED BY <1>1, <1>2, <1>4, <1>6, <1>7

\* The rows of a sorted result are all those at the places asked for.
LEMMA SortedResult ==
    ASSUME NEW S \in SUBSET Ids, NEW job, job.limit \in Nat \ {0}, job.offset \in Nat,
           job.sorted, NEW R \in Results(job, S)
    PROVE  R = {x \in S : Rank(S, x) \in job.offset..(job.offset + ResultSize(job, S) - 1)}
<1> DEFINE size == ResultSize(job, S)
           T == {x \in S : Rank(S, x) \in job.offset..(job.offset + size - 1)}
<1>1. R \in SUBSET S /\ Cardinality(R) = size
    BY DEF Results
<1>2. R \in SUBSET T
    BY <1>1 DEF Results
<1>3. size \in Nat
    BY SizeOfResult
<1>4. Cardinality(T) <= size
    <2> DEFINE last == job.offset + size - 1
    <2>1. T \in SUBSET S
        OBVIOUS
    <2>2. \A x \in T : Rank(S, x) \in job.offset..last
        OBVIOUS
    <2>3. job.offset \in Int /\ last \in Int
        BY <1>3
    <2>4. last - job.offset + 1 = size /\ (job.offset > last <=> size = 0)
        BY <1>3
    <2> HIDE DEF T, last
    <2>5. Cardinality(T) <= IF job.offset > last THEN 0 ELSE last - job.offset + 1
        BY <2>1, <2>2, <2>3, RanksApart
    <2> QED BY <2>4, <2>5
<1>5. IsFiniteSet(T) /\ Cardinality(T) \in Nat
    <2>1. T \in SUBSET Ids
        OBVIOUS
    <2> QED BY <2>1, IdSets
<1>6. Cardinality(R) <= Cardinality(T) /\ (Cardinality(T) = Cardinality(R) => T = R)
    BY <1>2, <1>5, FS_Subset
<1>7. Cardinality(T) = Cardinality(R)
    <2> HIDE DEF T, size
    <2> QED BY <1>1, <1>3, <1>4, <1>5, <1>6
<1> QED BY <1>6, <1>7

\* Of a sorted list, the page has the rows ranked from offset up.
LEMMA SortedPage ==
    ASSUME NEW S \in SUBSET Ids, NEW job, job.limit \in Nat \ {0}, job.offset \in Nat,
           job.sorted, NEW R \in Results(job, S), NEW P \in Shown(job, R)
    PROVE  P = {x \in S : Rank(S, x) \in job.offset..(job.offset + job.limit - 1)}
<1> DEFINE size == ResultSize(job, S)
<1>1. /\ P \in SUBSET R /\ R \in SUBSET S
      /\ IsFiniteSet(R) /\ Cardinality(R) = size
      /\ Cardinality(P) \in Nat
      /\ Cardinality(P) = IF size > job.limit THEN job.limit ELSE size
      /\ size <= job.limit => P = R
    BY SizeOfPage
<1>2. R = {x \in S : Rank(S, x) \in job.offset..(job.offset + size - 1)}
    BY SortedResult
<1>3. \A x \in P, y \in R \ P : x < y
    BY DEF Shown
<1>4. /\ size \in 0..job.limit + 1
      /\ Cardinality(S) <= job.offset => size = 0
      /\ Cardinality(S) > job.offset + job.limit <=> size > job.limit
      /\ Cardinality(S) > job.offset /\ Cardinality(S) <= job.offset + job.limit
            => size = Cardinality(S) - job.offset
    BY SizeOfResult
<1>5. Cardinality(S) \in Nat /\ S \subseteq Nat
    BY IdSets, RowsAssumption DEF Ids
<1> HIDE DEF size
<1>6. ASSUME NEW x \in P
      PROVE  x \in S /\ Rank(S, x) \in job.offset..(job.offset + job.limit - 1)
    <2>1. x \in S /\ Rank(S, x) \in job.offset..(job.offset + size - 1)
        BY <1>1, <1>2
    <2>2. CASE size <= job.limit
        BY <2>1, <2>2, <1>4, RankType
    <2>3. CASE size > job.limit
        <3>1. R # P
            BY <1>1, <1>4, <2>3
        <3>2. PICK y \in R \ P : TRUE
            BY <3>1, <1>1
        <3>3. y \in S /\ y \in Nat /\ x < y
            BY <3>2, <1>1, <1>3, <1>5
        <3>4. Rank(S, x) < Rank(S, y)
            BY <3>3, <2>1, RankGrows
        <3>5. Rank(S, y) \in job.offset..(job.offset + size - 1)
            BY <3>2, <1>2
        <3>6. Rank(S, x) \in Nat /\ Rank(S, y) \in Nat
            BY RankType
        <3> QED BY <2>1, <2>3, <3>4, <3>5, <3>6, <1>4
    <2> QED BY <2>2, <2>3, <1>4
<1>7. ASSUME NEW x \in S, Rank(S, x) \in job.offset..(job.offset + job.limit - 1)
      PROVE  x \in P
    <2>1. Rank(S, x) \in Nat /\ Rank(S, x) < Cardinality(S)
        BY RankType, RankBelow
    <2>2. Rank(S, x) \in job.offset..(job.offset + size - 1)
        <3>1. CASE Cardinality(S) > job.offset + job.limit
            BY <3>1, <1>4, <1>5, <1>7, <2>1
        <3>2. CASE Cardinality(S) <= job.offset + job.limit
            BY <3>2, <1>4, <1>5, <1>7, <2>1
        <3> QED BY <3>1, <3>2, <1>5
    <2>3. x \in R
        BY <2>2, <1>2
    <2>4. SUFFICES ASSUME x \notin P PROVE FALSE
        OBVIOUS
    <2>5. size > job.limit
        BY <2>3, <2>4, <1>1, <1>4
    <2>6. Cardinality(P) = job.limit
        BY <2>5, <1>1
    <2>7. \A p \in P : Rank(S, p) \in job.offset..(Rank(S, x) - 1)
        <3> SUFFICES ASSUME NEW p \in P PROVE Rank(S, p) \in job.offset..(Rank(S, x) - 1)
            OBVIOUS
        <3>1. p < x /\ p \in S /\ x \in Nat
            BY <2>3, <2>4, <1>1, <1>3, <1>5
        <3>2. Rank(S, p) < Rank(S, x)
            BY <3>1, RankGrows
        <3>3. Rank(S, p) \in job.offset..(job.offset + size - 1) /\ Rank(S, p) \in Nat
            BY <1>1, <1>2, RankType
        <3> QED BY <3>2, <3>3, <2>1
    <2> DEFINE last == Rank(S, x) - 1
    <2>8. /\ P \in SUBSET S /\ job.offset \in Int /\ last \in Int
          /\ last - job.offset + 1 < job.limit
        BY <1>1, <2>1, <1>7
    <2> HIDE DEF last
    <2>9. Cardinality(P) <= IF job.offset > last THEN 0 ELSE last - job.offset + 1
        BY <2>7, <2>8, RanksApart DEF last
    <2> QED BY <2>6, <2>8, <2>9
<1> QED BY <1>6, <1>7

\* What a SELECT makes of the rows in S is a page of them.
LEMMA SelectGivesPage ==
    ASSUME NEW S \in SUBSET Ids, NEW job \in ListJob,
           NEW R \in Results(job, S), NEW P \in Shown(job, R),
           NEW next \in ListJob,
           next.limit = job.limit, next.offset = job.offset, next.sorted = job.sorted,
           next.wantCount = job.wantCount, next.page = P,
           next.hasMore <=> Cardinality(R) > job.limit,
           ~job.wantCount => next.total = Total(job, R)
    PROVE  PageOf(next, S)
<1>1. job.limit \in Nat \ {0} /\ job.offset \in Nat /\ Word \in Nat
    <2>1. job.limit \in 1..MaxLimit /\ job.offset \in 0..(Word - 1)
        BY DEF ListJob
    <2> QED BY <2>1, Bounds
<1>2. /\ P \in SUBSET R /\ R \in SUBSET S
      /\ Cardinality(R) \in Nat /\ Cardinality(P) \in Nat
      /\ Cardinality(R) = ResultSize(job, S)
      /\ Cardinality(P) = IF Cardinality(R) > job.limit THEN job.limit ELSE Cardinality(R)
    BY <1>1, SizeOfPage
<1>3. /\ Cardinality(S) <= job.offset => ResultSize(job, S) = 0
      /\ Cardinality(S) > job.offset + job.limit <=> ResultSize(job, S) > job.limit
      /\ Cardinality(S) > job.offset /\ Cardinality(S) <= job.offset + job.limit
            => ResultSize(job, S) = Cardinality(S) - job.offset
    BY <1>1, SizeOfResult
<1>4. Cardinality(S) \in Nat
    BY IdSets
<1>5. next.page \subseteq S
    BY <1>2
<1>6. next.hasMore <=> Cardinality(S) > next.offset + next.limit
    BY <1>2, <1>3
<1>7. next.hasMore => Cardinality(next.page) = next.limit
    BY <1>2
<1>8. ~next.hasMore => Cardinality(next.page) =
           IF Cardinality(S) > next.offset THEN Cardinality(S) - next.offset ELSE 0
    BY <1>1, <1>2, <1>3, <1>4
<1>9. next.sorted => next.page = {x \in S : Rank(S, x)
                                    \in next.offset..(next.offset + next.limit - 1)}
    BY <1>1, SortedPage
<1>10. ~next.wantCount => next.total = IF next.hasMore THEN Unknown
                                      ELSE next.offset + Cardinality(next.page)
    BY <1>1, <1>2 DEF Total
<1> QED BY <1>5, <1>6, <1>7, <1>8, <1>9, <1>10 DEF PageOf

-----------------------------------------------------------------------------
(* Every step keeps the invariant *)

ListFailed == [pc |-> "error"]

\* A step of list request p alone.
LEMMA StepKeepsListInv ==
    ASSUME ListInv, NEW p \in Lists, NEW job \in ListJob \cup {Idle, ListFailed},
           NEW sets \in SUBSET SUBSET Ids,
           UNCHANGED vars,
           list' = [list EXCEPT ![p] = job],
           seen' = [seen EXCEPT ![p] = sets],
           ListSound(job, sets, rows)
    PROVE  ListInv'
<1>1. RowInv'
    <2>1. [Next]_vars
        OBVIOUS
    <2> QED BY <2>1, NextKeepsRowInv DEF ListInv
<1>2. list \in [Lists -> ListJob \cup {Idle, ListFailed}] /\ seen \in [Lists -> SUBSET SUBSET Ids]
    BY DEF ListInv, ListTyped, ListFailed
<1>3. ListTyped'
    BY <1>2 DEF ListTyped, ListFailed
<1>4. ASSUME NEW l \in Lists PROVE ListSound(list'[l], seen'[l], rows')
    <2>1. rows' = rows
        BY DEF vars
    <2>2. CASE l = p
        BY <1>2, <2>1, <2>2
    <2>3. CASE l # p
        <3>1. list'[l] = list[l] /\ seen'[l] = seen[l]
            BY <1>2, <2>3
        <3> QED BY <2>1, <3>1 DEF ListInv
    <2> QED BY <2>2, <2>3
<1>5. (\A l \in Lists : ListSound(list[l], seen[l], rows))'
    BY <1>4
<1> QED BY <1>1, <1>3, <1>5 DEF ListInv

\* What is known of a list that waits for a statement.
LEMMA WaitingList ==
    ASSUME ListInv, NEW l \in Lists, list[l].pc \in {"select", "count"}
    PROVE  /\ list[l] \in ListJob /\ seen[l] \in SUBSET SUBSET Ids
           /\ Matching(l) \in seen[l] /\ Matching(l) \in SUBSET Ids
           /\ ListSound(list[l], seen[l], rows)
<1>1. list[l] \in ListJob \cup {Idle, ListFailed} /\ seen[l] \in SUBSET SUBSET Ids
    BY DEF ListInv, ListTyped, ListFailed
<1>2. list[l] \in ListJob
    BY <1>1 DEF Idle, ListFailed
<1>3. ListSound(list[l], seen[l], rows)
    BY DEF ListInv
<1>4. Matching(l) \in seen[l]
    BY <1>3 DEF ListSound, Matching
<1> QED BY <1>1, <1>2, <1>3, <1>4

\* Whatever number is given, the limit is in its range and the offset a size_t.
LEMMA ParametersInRange ==
    ASSUME NEW param \in Params
    PROVE  Limit(param) \in 1..MaxLimit /\ Offset(param) \in 0..(Word - 1)
<1>1. ASSUME NEW default \in Nat
      PROVE  stoul(param, default) \in Nat
             /\ (param # <<>> => stoul(param, default) < Word)
    <2>1. CASE param = <<>>
        BY <2>1, <1>1 DEF stoul
    <2>2. CASE param # <<>>
        <3>1. PICK n \in Numbers : param = <<n>>
            BY <2>2 DEF Params
        <3>2. n \in Int /\ param[1] = n
            BY <3>1, ListAssumption
        <3>3. n % Word \in 0..(Word - 1)
            BY <3>2, Bounds
        <3> QED BY <2>2, <3>2, <3>3, Bounds DEF stoul
    <2> QED BY <2>1, <2>2
<1>2. DefaultLimit \in Nat /\ DefaultLimit >= 1 /\ DefaultLimit <= MaxLimit
    BY Bounds
<1>3. Limit(param) \in 1..MaxLimit
    <2>1. stoul(param, DefaultLimit) \in Nat
        BY <1>1, <1>2
    <2> QED BY <2>1, <1>2, Bounds DEF Limit
<1>4. Offset(param) \in 0..(Word - 1)
    <2>1. CASE param = <<>>
        BY <2>1, Bounds DEF Offset, stoul
    <2>2. CASE param # <<>>
        BY <2>2, <1>1, Bounds DEF Offset
    <2> QED BY <2>1, <2>2
<1> QED BY <1>3, <1>4

LEMMA StartListKeepsListInv ==
    ASSUME ListInv, NEW l \in Lists, NEW limit \in Params, NEW offset \in Params,
           NEW sorted \in BOOLEAN, NEW count \in BOOLEAN, NEW match \in Filters,
           StartList(l, limit, offset, sorted, match, count)
    PROVE  ListInv'
<1> DEFINE wantCount == Offset(offset) > 0 \/ count
           job == [pc |-> "select", limit |-> Limit(limit), offset |-> Offset(offset),
                   sorted |-> sorted, match |-> match, wantCount |-> wantCount,
                   page |-> {}, hasMore |-> FALSE, total |-> Unknown]
<1>1. Limit(limit) \in 1..MaxLimit /\ Offset(offset) \in 0..(Word - 1)
    BY ParametersInRange
<1>2. wantCount \in BOOLEAN /\ (~wantCount => Offset(offset) = 0)
    BY <1>1, Bounds
<1>3. UNCHANGED vars /\ list' = [list EXCEPT ![l] = job]
      /\ seen' = [seen EXCEPT ![l] = {rows \cap match}]
    BY DEF StartList
<1> HIDE DEF wantCount
<1>4. job \in ListJob
    BY <1>1, <1>2 DEF ListJob
<1>5. {rows \cap match} \in SUBSET SUBSET Ids
    BY DEF ListInv, RowInv, TypeOK
<1>6. ~job.wantCount => job.offset = 0
    BY <1>2
<1>7. ListSound(job, {rows \cap match}, rows)
    BY <1>6 DEF ListSound
<1> QED BY <1>3, <1>4, <1>5, <1>7, StepKeepsListInv

LEMMA SelectPageKeepsListInv ==
    ASSUME ListInv, NEW l \in Lists, SelectPage(l)
    PROVE  ListInv'
<1> DEFINE job == list[l]
           S == Matching(l)
<1>1. list[l].pc = "select"
    BY DEF SelectPage
<1>2. /\ job \in ListJob /\ seen[l] \in SUBSET SUBSET Ids
      /\ S \in seen[l] /\ S \in SUBSET Ids
      /\ ListSound(job, seen[l], rows)
    BY <1>1, WaitingList
<1>3. PICK R \in Results(job, S) : \E P \in Shown(job, R) :
         list' = [list EXCEPT ![l] =
                 [job EXCEPT !.page = P, !.hasMore = Cardinality(R) > job.limit,
                             !.pc = IF job.wantCount THEN "count" ELSE "ok",
                             !.total = IF job.wantCount THEN Unknown ELSE Total(job, R)]]
    BY DEF SelectPage
<1>4. PICK P \in Shown(job, R) :
         list' = [list EXCEPT ![l] =
                 [job EXCEPT !.page = P, !.hasMore = Cardinality(R) > job.limit,
                             !.pc = IF job.wantCount THEN "count" ELSE "ok",
                             !.total = IF job.wantCount THEN Unknown ELSE Total(job, R)]]
    BY <1>3
<1> DEFINE total == IF job.wantCount THEN Unknown ELSE Total(job, R)
           next == [job EXCEPT !.page = P, !.hasMore = Cardinality(R) > job.limit,
                               !.pc = IF job.wantCount THEN "count" ELSE "ok",
                               !.total = total]
<1>5. job.limit \in Nat \ {0} /\ job.offset \in Nat /\ job.wantCount \in BOOLEAN
    <2>1. /\ job.limit \in 1..MaxLimit /\ job.offset \in 0..(Word - 1)
          /\ job.wantCount \in BOOLEAN
        BY <1>2 DEF ListJob
    <2> QED BY <2>1, Bounds
<1>6. P \in SUBSET Ids /\ Cardinality(R) \in Nat
    <2>1. P \in SUBSET R /\ R \in SUBSET S /\ Cardinality(R) \in Nat
        BY <1>2, <1>5, SizeOfPage
    <2> QED BY <2>1, <1>2
<1>7. total \in Nat \cup {Unknown}
    BY <1>5, <1>6 DEF Total
<1>8. (Cardinality(R) > job.limit) \in BOOLEAN
    OBVIOUS
<1> HIDE DEF total
<1>9. next \in ListJob
    BY <1>2, <1>5, <1>6, <1>7, <1>8 DEF ListJob
<1>10. /\ next.limit = job.limit /\ next.offset = job.offset /\ next.sorted = job.sorted
       /\ next.wantCount = job.wantCount /\ next.page = P /\ next.match = job.match
       /\ next.hasMore <=> Cardinality(R) > job.limit
       /\ next.total = total
       /\ next.pc = IF job.wantCount THEN "count" ELSE "ok"
    BY <1>2 DEF ListJob
<1>11. ~job.wantCount => next.total = Total(job, R)
    BY <1>10 DEF total
<1>12. list' = [list EXCEPT ![l] = next]
    BY <1>4 DEF total
<1> HIDE DEF next
<1>13. PageOf(next, S)
    BY <1>2, <1>9, <1>10, <1>11, SelectGivesPage
<1>14. ListSound(next, seen[l], rows)
    <2>1. rows \cap next.match \in seen[l]
        BY <1>2, <1>10 DEF Matching
    <2>2. \E T \in seen[l] : PageOf(next, T)
        BY <1>2, <1>13
    <2>3. next.pc # "select" /\ (next.pc = "ok" => ~next.wantCount)
        BY <1>10, <1>5
    <2>4. ~next.wantCount => next.offset = 0 /\ next.pc # "count"
        BY <1>1, <1>2, <1>10 DEF ListSound
    <2> QED BY <2>1, <2>2, <2>3, <2>4 DEF ListSound
<1>15. UNCHANGED vars /\ seen' = [seen EXCEPT ![l] = seen[l]]
    <2>1. UNCHANGED <<vars, seen>>
        BY DEF SelectPage
    <2> QED BY <2>1 DEF ListInv, ListTyped
<1> QED BY <1>2, <1>9, <1>12, <1>14, <1>15, StepKeepsListInv

LEMMA CountRowsKeepsListInv ==
    ASSUME ListInv, NEW l \in Lists, CountRows(l)
    PROVE  ListInv'
<1> DEFINE job == list[l]
           next == [job EXCEPT !.pc = "ok", !.total = Cardinality(Matching(l))]
<1>1. list[l].pc = "count"
    BY DEF CountRows
<1>2. /\ job \in ListJob /\ seen[l] \in SUBSET SUBSET Ids
      /\ Matching(l) \in seen[l] /\ Matching(l) \in SUBSET Ids
      /\ ListSound(job, seen[l], rows)
    BY <1>1, WaitingList
<1>3. Cardinality(Matching(l)) \in Nat
    BY <1>2, IdSets
<1>4. next \in ListJob
    BY <1>2, <1>3 DEF ListJob
<1>5. /\ next.limit = job.limit /\ next.offset = job.offset /\ next.sorted = job.sorted
      /\ next.wantCount = job.wantCount /\ next.page = job.page
      /\ next.hasMore = job.hasMore /\ next.pc = "ok"
      /\ next.total = Cardinality(Matching(l))
    BY <1>2 DEF ListJob
<1>6. list' = [list EXCEPT ![l] = next]
    <2>1. list' = [list EXCEPT ![l].pc = "ok", ![l].total = Cardinality(Matching(l))]
        BY DEF CountRows
    <2>2. list \in [Lists -> ListJob \cup {Idle, ListFailed}]
        BY DEF ListInv, ListTyped, ListFailed
    <2> QED BY <2>1, <2>2
<1>7. job.wantCount
    BY <1>1, <1>2 DEF ListSound
<1> HIDE DEF next
<1>8. PICK S \in seen[l] : PageOf(job, S)
    BY <1>1, <1>2 DEF ListSound
<1>9. PageOf(next, S)
    BY <1>5, <1>7, <1>8 DEF PageOf
<1>10. ListSound(next, seen[l], rows)
    BY <1>2, <1>5, <1>7, <1>9 DEF ListSound
<1>11. UNCHANGED vars /\ seen' = [seen EXCEPT ![l] = seen[l]]
    <2>1. UNCHANGED <<vars, seen>>
        BY DEF CountRows
    <2> QED BY <2>1 DEF ListInv, ListTyped
<1> QED BY <1>2, <1>4, <1>6, <1>10, <1>11, StepKeepsListInv

LEMMA ListFailsKeepsListInv ==
    ASSUME ListInv, NEW l \in Lists, ListFails(l)
    PROVE  ListInv'
<1>1. ListSound(ListFailed, {}, rows)
    BY DEF ListSound, ListFailed
<1>2. UNCHANGED vars /\ list' = [list EXCEPT ![l] = ListFailed] /\ seen' = [seen EXCEPT ![l] = {}]
    BY DEF ListFails, ListFailed
<1> QED BY <1>1, <1>2, StepKeepsListInv

\* A step of a writer: what is seen grows by the rows it leaves.
LEMMA WriteKeepsListInv ==
    ASSUME ListInv, Write
    PROVE  ListInv'
<1>1. RowInv'
    <2>1. [Next]_vars
        BY DEF Write
    <2> QED BY <2>1, NextKeepsRowInv DEF ListInv
<1>2. list \in [Lists -> ListJob \cup {Idle, ListFailed}] /\ seen \in [Lists -> SUBSET SUBSET Ids]
    BY DEF ListInv, ListTyped, ListFailed
<1>3. rows' \in SUBSET Ids
    BY <1>1 DEF RowInv, TypeOK
<1>4. list' = list
      /\ seen' = [l \in Lists |-> IF list[l].pc \in {"select", "count"}
                                  THEN seen[l] \cup {rows' \cap list[l].match} ELSE seen[l]]
    BY DEF Write
<1>5. ListTyped'
    <2>1. ASSUME NEW l \in Lists PROVE seen'[l] \in SUBSET SUBSET Ids
        BY <1>2, <1>3, <1>4
    <2>2. seen' \in [Lists -> SUBSET SUBSET Ids]
        BY <2>1, <1>4
    <2> QED BY <2>2, <1>2, <1>4 DEF ListTyped, ListFailed
<1>6. ASSUME NEW l \in Lists PROVE ListSound(list'[l], seen'[l], rows')
    <2>1. ListSound(list[l], seen[l], rows) /\ list'[l] = list[l]
        BY <1>4 DEF ListInv
    <2>2. seen[l] \subseteq seen'[l]
        BY <1>4
    <2>3. list[l].pc \in {"select", "count"} => rows' \cap list[l].match \in seen'[l]
        BY <1>4
    <2> QED BY <2>1, <2>2, <2>3 DEF ListSound
<1>7. (\A l \in Lists : ListSound(list[l], seen[l], rows))'
    BY <1>6
<1> QED BY <1>1, <1>5, <1>7 DEF ListInv

LEMMA NextKeepsListInv ==
    ASSUME ListInv, [ListNext]_<<vars, listVars>>
    PROVE  ListInv'
<1>1. CASE Write
    BY <1>1, WriteKeepsListInv
<1>2. ASSUME NEW l \in Lists, NEW limit \in Params, NEW offset \in Params,
             NEW sorted \in BOOLEAN, NEW count \in BOOLEAN, NEW match \in Filters,
             StartList(l, limit, offset, sorted, match, count)
      PROVE  ListInv'
    BY <1>2, StartListKeepsListInv
<1>3. ASSUME NEW l \in Lists, SelectPage(l) PROVE ListInv'
    BY <1>3, SelectPageKeepsListInv
<1>4. ASSUME NEW l \in Lists, CountRows(l) PROVE ListInv'
    BY <1>4, CountRowsKeepsListInv
<1>5. ASSUME NEW l \in Lists, ListFails(l) PROVE ListInv'
    BY <1>5, ListFailsKeepsListInv
<1>6. CASE UNCHANGED <<vars, listVars>>
    <2>1. RowInv'
        <3>1. [Next]_vars
            BY <1>6
        <3> QED BY <3>1, NextKeepsRowInv DEF ListInv
    <2>2. list' = list /\ seen' = seen /\ rows' = rows
        BY <1>6 DEF vars, listVars
    <2> QED BY <2>1, <2>2 DEF ListInv, ListTyped
<1> QED BY <1>1, <1>2, <1>3, <1>4, <1>5, <1>6 DEF ListNext

LEMMA InitListInv ==
    ASSUME ListInit PROVE ListInv
<1>1. RowInv
    BY InitRowInv DEF ListInit
<1>2. ListTyped
    BY DEF ListInit, ListTyped
<1>3. ASSUME NEW l \in Lists PROVE ListSound(list[l], seen[l], rows)
    BY DEF ListInit, ListSound, Idle
<1> QED BY <1>1, <1>2, <1>3 DEF ListInv

\* The invariant holds throughout.
LEMMA ListInvariant == ListSpec => []ListInv
BY InitListInv, NextKeepsListInv, PTL DEF ListSpec

-----------------------------------------------------------------------------
(* What it gives *)

\* Lists leave the writers alone: what they do with a list is what they do
\* without, so the answers of a write tell what it has done (executeInsert,
\* executeUpdate, executeDelete) and bulk requests are accounted for then, too.
THEOREM ListsLeaveWritersAlone ==
    ListSpec => Spec /\ [](TypeOK /\ AnswerTellsEffect /\ BulkAccountsForAll)
<1>1. ListInit => Init
    BY DEF ListInit
<1>2. [ListNext]_<<vars, listVars>> => [Next]_vars
    <2>1. \A l \in Lists : SelectPage(l) \/ CountRows(l) \/ ListFails(l) => UNCHANGED vars
        BY DEF SelectPage, CountRows, ListFails
    <2>2. \A l \in Lists, limit, offset \in Params, sorted, count \in BOOLEAN, match \in Filters :
             StartList(l, limit, offset, sorted, match, count) => UNCHANGED vars
        BY DEF StartList
    <2>3. Write => Next
        BY DEF Write
    <2> QED BY <2>1, <2>2, <2>3 DEF ListNext
<1>3. ListSpec => Spec
    BY <1>1, <1>2, PTL DEF ListSpec, Spec
<1> QED BY <1>3, TypeCorrect, AnswersTellEffects, BulkIsAccountedFor, PTL

\* What is known of a list that has read its page.
LEMMA ReadList ==
    ASSUME ListInv, NEW l \in Lists, list[l].pc \in {"count", "ok"}
    PROVE  /\ list[l].limit \in 1..MaxLimit /\ list[l].limit \in Nat
           /\ list[l].offset \in Nat /\ list[l].page \in SUBSET Ids
           /\ Cardinality(list[l].page) \in Nat
           /\ seen[l] \in SUBSET SUBSET Ids
           /\ ListSound(list[l], seen[l], rows)
           /\ \E S \in seen[l] : PageOf(list[l], S)
<1>1. list[l] \in ListJob \cup {Idle, ListFailed} /\ seen[l] \in SUBSET SUBSET Ids
    BY DEF ListInv, ListTyped, ListFailed
<1>2. list[l] \in ListJob
    BY <1>1 DEF Idle, ListFailed
<1>3. ListSound(list[l], seen[l], rows)
    BY DEF ListInv
<1>4. \E S \in seen[l] : PageOf(list[l], S)
    BY <1>3 DEF ListSound
<1>5. /\ list[l].limit \in 1..MaxLimit /\ list[l].offset \in 0..(Word - 1)
      /\ list[l].page \in SUBSET Ids
    BY <1>2 DEF ListJob
<1>6. list[l].limit \in Nat /\ list[l].offset \in Nat
    BY <1>5, Bounds
<1> QED BY <1>1, <1>3, <1>4, <1>5, <1>6, IdSets

\* Whatever numbers are given, a page has at most limit rows, and as many if
\* there are more; all of them were there, and match (parseListParams,
\* handleList).
THEOREM PagesHaveTheirShape == ListSpec => []PageShape
<1>1. ASSUME ListInv, NEW l \in Lists, list[l].pc \in {"count", "ok"}
      PROVE  /\ list[l].limit \in 1..MaxLimit
             /\ Cardinality(list[l].page) <= list[l].limit
             /\ list[l].hasMore => Cardinality(list[l].page) = list[l].limit
             /\ \E S \in seen[l] : list[l].page \subseteq S
    <2>1. /\ list[l].limit \in 1..MaxLimit /\ list[l].limit \in Nat
          /\ list[l].offset \in Nat /\ Cardinality(list[l].page) \in Nat
          /\ seen[l] \in SUBSET SUBSET Ids
        BY <1>1, ReadList
    <2>2. PICK S \in seen[l] : PageOf(list[l], S)
        BY <1>1, ReadList
    <2>3. Cardinality(S) \in Nat
        BY <2>1, IdSets
    <2>4. Cardinality(list[l].page) <= list[l].limit
        BY <2>1, <2>2, <2>3 DEF PageOf
    <2> QED BY <2>1, <2>2, <2>4 DEF PageOf
<1>2. ListInv => PageShape
    BY <1>1 DEF PageShape
<1> QED BY <1>2, ListInvariant, PTL

\* A total that is told was the number of matching rows at some moment of the
\* request; it is withheld only for a first page that is not the last, when
\* nobody asked (handleList, "exact total is known").
THEOREM TotalsWereTrue == ListSpec => []TotalWasTrue
<1>1. ASSUME ListInv, NEW l \in Lists, list[l].pc = "ok"
      PROVE  IF list[l].total = Unknown
             THEN list[l].offset = 0 /\ list[l].hasMore /\ ~list[l].wantCount
             ELSE \E S \in seen[l] : list[l].total = Cardinality(S)
    <2>1. /\ list[l].limit \in Nat /\ list[l].offset \in Nat
          /\ Cardinality(list[l].page) \in Nat /\ seen[l] \in SUBSET SUBSET Ids
          /\ ListSound(list[l], seen[l], rows)
        BY <1>1, ReadList
    <2>2. CASE list[l].wantCount
        <3>1. PICK S \in seen[l] : list[l].total = Cardinality(S)
            BY <1>1, <2>1, <2>2 DEF ListSound
        <3>2. Cardinality(S) \in Nat
            BY <2>1, IdSets
        <3>3. list[l].total # Unknown
            BY <3>1, <3>2, Bounds
        <3> QED BY <3>1, <3>3
    <2>3. CASE ~list[l].wantCount
        <3>1. list[l].offset = 0
            BY <1>1, <2>1, <2>3 DEF ListSound
        <3>2. PICK S \in seen[l] : PageOf(list[l], S)
            BY <1>1, ReadList
        <3>3. Cardinality(S) \in Nat
            BY <2>1, IdSets
        <3>4. CASE list[l].hasMore
            <4>1. list[l].total = Unknown
                BY <2>3, <3>2, <3>4 DEF PageOf
            <4> QED BY <2>3, <3>1, <3>4, <4>1
        <3>5. CASE ~list[l].hasMore
            <4>1. list[l].total = Cardinality(list[l].page)
                  /\ Cardinality(list[l].page) = Cardinality(S)
                BY <2>1, <2>3, <3>1, <3>2, <3>3, <3>5 DEF PageOf
            <4>2. list[l].total # Unknown
                BY <2>1, <4>1, Bounds
            <4> QED BY <4>1, <4>2
        <3> QED BY <3>4, <3>5
    <2> QED BY <2>2, <2>3
<1>2. ListInv => TotalWasTrue
    BY <1>1 DEF TotalWasTrue
<1> QED BY <1>2, ListInvariant, PTL

\* While the matching rows do not change, page, has_more and total are those
\* of the same rows, and the pages of a sorted list follow on each other.
THEOREM QuietPagesAreExact == ListSpec => []QuietPagesExact
<1> DEFINE Seen(l) == CHOOSE s \in seen[l] : TRUE
<1>1. ASSUME ListInv, NEW l \in Lists, list[l].pc = "ok", Cardinality(seen[l]) = 1
      PROVE  /\ list[l].total \in {Unknown, Cardinality(Seen(l))}
             /\ list[l].hasMore <=>
                   list[l].offset + Cardinality(list[l].page) < Cardinality(Seen(l))
             /\ list[l].sorted =>
                  list[l].page = {x \in Seen(l) : Rank(Seen(l), x)
                                      \in list[l].offset..(list[l].offset + list[l].limit - 1)}
    <2>1. /\ list[l].limit \in Nat /\ list[l].limit \in 1..MaxLimit /\ list[l].offset \in Nat
          /\ Cardinality(list[l].page) \in Nat /\ seen[l] \in SUBSET SUBSET Ids
          /\ ListSound(list[l], seen[l], rows)
        BY <1>1, ReadList
    <2>2. IsFiniteSet(seen[l])
        <3>1. Ids \in SUBSET Ids
            OBVIOUS
        <3>2. IsFiniteSet(SUBSET Ids)
            BY <3>1, IdSets, FS_SUBSET
        <3> QED BY <2>1, <3>2, FS_Subset
    <2>3. PICK S : seen[l] = {S}
        BY <1>1, <2>2, FS_Singleton
    <2>4. Seen(l) = S
        BY <2>3
    <2>5. PageOf(list[l], S)
        BY <1>1, <2>3, ReadList
    <2>6. Cardinality(S) \in Nat
        BY <2>1, <2>3, IdSets
    <2> HIDE DEF Seen
    <2>7. list[l].hasMore <=> list[l].offset + Cardinality(list[l].page) < Cardinality(S)
        BY <2>1, <2>5, <2>6 DEF PageOf
    <2>8. list[l].total \in {Unknown, Cardinality(S)}
        <3>1. CASE list[l].wantCount
            BY <1>1, <2>1, <2>3, <3>1 DEF ListSound
        <3>2. CASE ~list[l].wantCount
            <4>1. list[l].offset = 0
                BY <1>1, <2>1, <3>2 DEF ListSound
            <4> QED BY <2>1, <2>5, <2>6, <3>2, <4>1 DEF PageOf
        <3> QED BY <3>1, <3>2
    <2>9. list[l].sorted => list[l].page = {x \in S : Rank(S, x)
                                      \in list[l].offset..(list[l].offset + list[l].limit - 1)}
        BY <2>5 DEF PageOf
    <2> QED BY <2>4, <2>7, <2>8, <2>9
<1>2. ListInv => QuietPagesExact
    BY <1>1 DEF QuietPagesExact
<1> QED BY <1>2, ListInvariant, PTL

=============================================================================
