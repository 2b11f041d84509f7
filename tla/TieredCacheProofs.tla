-------------------------- MODULE TieredCacheProofs --------------------------
(***************************************************************************)
(* Proofs about TieredCache for every value of its constants: the type     *)
(* invariant, and the bound on the staleness of what the caches serve.     *)
(***************************************************************************)
EXTENDS TieredCache, TLAPS

ReaderState == BusyReader \cup {IdleReader}
WriterState == BusyWriter \cup {IdleWriter}

-----------------------------------------------------------------------------
(* Type correctness *)

\* A handler that is not idle has all the fields of a busy one.
LEMMA BusyReaders ==
    ASSUME TypeOK, NEW r \in Readers, reader[r].pc # "idle"
    PROVE  reader[r] \in BusyReader
BY DEF TypeOK, IdleReader

LEMMA BusyWriters ==
    ASSUME TypeOK, NEW w \in Writers, writer[w].pc # "idle"
    PROVE  writer[w] \in BusyWriter
BY DEF TypeOK, IdleWriter

\* What the handlers store is an entry.
LEMMA NewEntryType ==
    ASSUME TypeOK, NEW k \in Keys, NEW v \in Versions
    PROVE  NewEntry(k, v) \in Entry
BY BoundsAssumption DEF TypeOK, NewEntry, Entry

LEMMA AbsentType == Absent \in Entry
BY BoundsAssumption DEF Absent, Entry, Versions

\* An L1 put leaves every entry as it was, or drops it, or is the new entry.
LEMMA L1PutEffect ==
    ASSUME TypeOK, NEW i \in Instances, NEW k \in Keys, NEW v \in Versions,
           L1Put(i, k, v)
    PROVE  /\ l1' \in [Instances -> [Keys -> Entry]]
           /\ \A j \in Instances, x \in Keys :
                 \/ l1'[j][x] = l1[j][x]
                 \/ l1'[j][x] = Absent
                 \/ x = k /\ l1'[j][x] = NewEntry(k, v)
<1>1. NewEntry(k, v) \in Entry  BY NewEntryType
<1>2. PICK gone : l1' = [l1 EXCEPT ![i] =
                 [x \in Keys |-> IF x = k THEN NewEntry(k, v)
                                 ELSE IF x \in gone THEN Absent ELSE @[x]]]
      BY DEF L1Put
<1>3. l1 \in [Instances -> [Keys -> Entry]]  BY DEF TypeOK
<1>. QED  BY <1>1, <1>2, <1>3, AbsentType

\* The steps of a GET handler give its record a legal value.
LEMMA ReaderType ==
    ASSUME TypeOK, NEW r \in Readers, ReaderStep(r)
    PROVE  reader' \in [Readers -> ReaderState]
<1>. reader \in [Readers -> ReaderState] /\ ver \in [Tables -> Versions]
     BY DEF TypeOK, ReaderState
<1>. l2 \in [Keys -> Entry] /\ now \in Nat  BY DEF TypeOK
<1>1. reader[r].pc # "idle" => reader[r] \in BusyReader  BY BusyReaders
<1>2. CASE L2Hit(r)
  <2>1. l2[reader[r].key].ver \in Versions
        BY <1>1, <1>2 DEF L2Hit, BusyReader, Entry
  <2>. QED  BY <1>1, <1>2, <2>1 DEF L2Hit, BusyReader, Reading, ReaderState
<1>3. CASE L2Miss(r)
      BY <1>1, <1>3 DEF L2Miss, BusyReader, Reading, ReaderState
<1>4. CASE Select(r)
  <2>1. ver[TableOf[reader[r].key]] \in Versions
        BY <1>1, <1>4, KeysAssumption DEF Select, BusyReader
  <2>2. PICK next \in {"fill", "count"} :
           reader' = [reader EXCEPT ![r] = [@ EXCEPT !.pc = next,
                         !.ver = ver[TableOf[reader[r].key]], !.at = now]]
        BY <1>4 DEF Select
  <2>3. [reader[r] EXCEPT !.pc = next, !.ver = ver[TableOf[reader[r].key]],
                          !.at = now] \in BusyReader
        BY <1>1, <1>4, <2>1 DEF Select, BusyReader, Reading
  <2>. QED  BY <2>2, <2>3 DEF ReaderState
<1>5. CASE Count(r)
      BY <1>1, <1>5 DEF Count, BusyReader, Reading, ReaderState
<1>6. CASE Fill(r)
      BY <1>1, <1>6 DEF Fill, BusyReader, Reading, ReaderState
<1>7. CASE Backfill(r) \/ AnswerUncached(r) \/ CountFails(r) \/ L2Set(r) \/ L2SetFails(r)
      BY <1>7 DEF Backfill, AnswerUncached, CountFails, L2Set, L2SetFails, ReaderState
<1>. QED  BY <1>2, <1>3, <1>4, <1>5, <1>6, <1>7 DEF ReaderStep

\* A handler that executes statements has at least one item left.
ItemsLeft == \A w \in Writers :
    writer[w].pc \in {"exec", "requery"} => writer[w].left > 0

\* The outcome of a statement leaves its handler in a legal state.
LEMMA OutcomeOfJob ==
    ASSUME NEW job \in BusyWriter, job.left > 0,
           NEW out, out = Succeed(job) \/ out = Fail(job)
    PROVE  /\ out \in WriterState
           /\ out.pc \in {"exec", "requery"} => out.left > 0
<1>1. job.left \in 0..BulkSize  BY DEF BusyWriter
<1>2. job.left - 1 \in 0..BulkSize  BY <1>1, BoundsAssumption
<1>3. NextItem(job) \in BusyWriter  BY <1>2 DEF NextItem, BusyWriter, Writing
<1>4. /\ NextItem(job).pc = "exec" => NextItem(job).left > 0
      /\ NextItem(job).pc # "requery"
      BY <1>1, BoundsAssumption DEF NextItem, BusyWriter
<1>5. [job EXCEPT !.pc = "clear"] \in BusyWriter  BY DEF BusyWriter, Writing
<1>6. [job EXCEPT !.pc = "clear"].pc = "clear"  BY DEF BusyWriter
<1>7. out \in {NextItem(job), [job EXCEPT !.pc = "clear"], IdleWriter}
      BY DEF Succeed, Fail
<1>8. CASE out = NextItem(job)  BY <1>3, <1>4, <1>8 DEF WriterState
<1>9. CASE out = [job EXCEPT !.pc = "clear"]  BY <1>5, <1>6, <1>9 DEF WriterState
<1>10. CASE out = IdleWriter  BY <1>10 DEF WriterState, IdleWriter
<1>. QED  BY <1>7, <1>8, <1>9, <1>10

LEMMA OutcomeType ==
    ASSUME TypeOK, ItemsLeft, NEW w \in Writers,
           writer[w].pc \in {"exec", "requery"},
           \/ writer' = [writer EXCEPT ![w] = Succeed(@)]
           \/ writer' = [writer EXCEPT ![w] = Fail(@)]
    PROVE  writer' \in [Writers -> WriterState] /\ ItemsLeft'
<1>1. writer[w] \in BusyWriter /\ writer[w].left > 0
      BY BusyWriters DEF ItemsLeft
<1>2. PICK out : /\ out = Succeed(writer[w]) \/ out = Fail(writer[w])
                 /\ writer' = [writer EXCEPT ![w] = out]
      OBVIOUS
<1>3. /\ out \in WriterState
      /\ out.pc \in {"exec", "requery"} => out.left > 0
      BY <1>1, <1>2, OutcomeOfJob
<1>4. writer \in [Writers -> WriterState]  BY DEF TypeOK, WriterState
<1>. QED  BY <1>2, <1>3, <1>4 DEF ItemsLeft

LEMMA ChangeType ==
    ASSUME TypeOK, NEW w \in Writers, writer[w].pc = "exec", Change(w)
    PROVE  /\ ver' \in [Tables -> Versions]
           /\ commitAt' \in [Tables -> [Versions -> Nat]]
           /\ committed' \in [Instances -> [Tables -> Versions]]
<1>1. writer[w].table \in Tables /\ writer[w].inst \in Instances
      BY BusyWriters DEF BusyWriter
<1>. QED  BY <1>1 DEF Change, TypeOK

\* The steps of a write handler give its record, and those of the other
\* handlers that scan, a legal value.
LEMMA WriterType ==
    ASSUME TypeOK, ItemsLeft, NEW w \in Writers, WriterStep(w)
    PROVE  writer' \in [Writers -> WriterState] /\ ItemsLeft'
<1>. writer \in [Writers -> WriterState] /\ ver \in [Tables -> Versions]
     BY DEF TypeOK, WriterState
<1>1. writer[w].pc # "idle" => writer[w] \in BusyWriter  BY BusyWriters
<1>2. CASE Commit(w)
  <2>1. CASE NeedsRequery(writer[w])
    <3>1. [writer[w] EXCEPT !.pc = "requery"] \in BusyWriter
          BY <1>1, <1>2 DEF Commit, BusyWriter, Writing
    <3>. QED  BY <1>1, <1>2, <2>1, <3>1 DEF Commit, ItemsLeft, WriterState, BusyWriter
  <2>2. CASE ~NeedsRequery(writer[w])
    <3>1. /\ writer[w].pc \in {"exec", "requery"}
          /\ writer' = [writer EXCEPT ![w] = Succeed(@)]
          BY <1>2, <2>2 DEF Commit
    <3>. QED  BY <3>1, OutcomeType
  <2>. QED  BY <2>1, <2>2
<1>3. CASE NoEffect(w) \/ ExecFails(w) \/ CommitReplyLost(w) \/ Requery(w) \/ RequeryFails(w)
  <2>1. /\ writer[w].pc \in {"exec", "requery"}
        /\ \/ writer' = [writer EXCEPT ![w] = Succeed(@)]
           \/ writer' = [writer EXCEPT ![w] = Fail(@)]
        BY <1>3 DEF NoEffect, ExecFails, CommitReplyLost, Requery, RequeryFails
  <2>. QED  BY <2>1, OutcomeType
<1>4. CASE ClearL1(w)
  <2>1. [writer[w] EXCEPT !.pc = "scan"] \in BusyWriter
        BY <1>1, <1>4 DEF ClearL1, BusyWriter, Writing
  <2>. QED  BY <1>1, <1>4, <2>1 DEF ClearL1, ItemsLeft, WriterState, IdleWriter, BusyWriter
<1>5. CASE ScanPage(w)
  <2>. DEFINE job   == writer[w]
              there == L2Keys(job.table)
              due   == IF job.pages = MaxPages THEN there ELSE job.todo
              base  == IF job.pages = MaxPages THEN ver[job.table] ELSE job.base
  <2>1. PICK page \in SUBSET there, left \in {0, job.pages - 1} :
           writer' = [writer EXCEPT ![w] = [@ EXCEPT !.pages = left, !.base = base,
                                              !.todo = due \ page, !.hits = page]]
        BY <1>5 DEF ScanPage, NextPages
  <2>2. job \in BusyWriter /\ job.pc = "scan" /\ job.pages > 0
        BY <1>1, <1>5 DEF ScanPage, NextPages
  <2>3. job.pages \in 0..MaxPages /\ base \in Versions
        BY <2>2 DEF BusyWriter
  <2>4. left \in 0..MaxPages  BY <2>2, <2>3, BoundsAssumption
  <2>5. there \subseteq Keys  BY DEF L2Keys, KeysOf
  <2>6. page \subseteq Keys /\ due \ page \subseteq Keys
        BY <2>2, <2>5 DEF BusyWriter
  <2>. HIDE DEF job, there, due, base
  <2>7. [job EXCEPT !.pages = left, !.base = base, !.todo = due \ page, !.hits = page]
           \in BusyWriter
        BY <2>2, <2>3, <2>4, <2>6 DEF BusyWriter
  <2>8. [job EXCEPT !.pages = left, !.base = base, !.todo = due \ page, !.hits = page].pc
           = "scan"
        BY <2>2 DEF BusyWriter
  <2>. QED  BY <2>1, <2>7, <2>8 DEF WriterState, ItemsLeft, job
<1>6. CASE DelKey(w)
  <2>1. PICK k : writer' = [x \in Writers |->
                IF writer[x].pc # "scan" THEN writer[x]
                ELSE [writer[x] EXCEPT !.todo = @ \ {k},
                                       !.hits = IF x = w THEN @ \ {k} ELSE @]]
        BY <1>6 DEF DelKey
  <2>2. ASSUME NEW x \in Writers
        PROVE  writer'[x] \in WriterState /\ writer'[x].pc = writer[x].pc
               /\ (writer[x].pc # "scan" => writer'[x] = writer[x])
    <3>1. CASE writer[x].pc # "scan"  BY <2>1, <3>1
    <3>2. CASE writer[x].pc = "scan"
          BY <2>1, <3>2, BusyWriters DEF BusyWriter, WriterState
    <3>. QED  BY <3>1, <3>2
  <2>. QED  BY <2>1, <2>2 DEF ItemsLeft
<1>7. CASE ScanDone(w) \/ ScanFails(w)
      BY <1>7 DEF ScanDone, ScanFails, ItemsLeft, WriterState, IdleWriter
<1>. QED  BY <1>2, <1>3, <1>4, <1>5, <1>6, <1>7 DEF WriterStep

\* Every step preserves the types, and the items that bulk requests have left.
LEMMA TypeStep ==
    ASSUME TypeOK, ItemsLeft, [Next]_vars
    PROVE  TypeOK' /\ ItemsLeft'
<1>. USE DEF db, cleared
<1>. l1 \in [Instances -> [Keys -> Entry]] /\ l2 \in [Keys -> Entry]
     /\ reader \in [Readers -> ReaderState] /\ writer \in [Writers -> WriterState]
     /\ ver \in [Tables -> Versions] /\ now \in Nat
     /\ cleared1 \in [Instances -> [Tables -> Versions]]
     /\ cleared2 \in [Tables -> Versions]
     BY DEF TypeOK, ReaderState, WriterState
<1>1. ASSUME NEW r \in Readers, NEW i \in Instances, NEW k \in Keys, StartGet(r, i, k)
      PROVE  TypeOK' /\ ItemsLeft'
  <2>1. l1' \in [Instances -> [Keys -> Entry]]
        BY <1>1, AbsentType DEF StartGet
  <2>2. [pc |-> IF RedisEnabled THEN "l2get" ELSE "select",
         inst |-> i, key |-> k, ver |-> 0, at |-> 0] \in BusyReader
        BY BoundsAssumption DEF BusyReader, Reading, Versions
  <2>3. reader' \in [Readers -> ReaderState]
        BY <1>1, <2>2 DEF StartGet, ReaderState
  <2>. QED  BY <1>1, <2>1, <2>3 DEF StartGet, TypeOK, ReaderState, ItemsLeft
<1>2. ASSUME NEW r \in Readers, ReaderStep(r)
      PROVE  TypeOK' /\ ItemsLeft'
  <2>1. reader' \in [Readers -> ReaderState]  BY <1>2, ReaderType
  <2>2. reader[r].pc # "idle" => reader[r] \in BusyReader  BY BusyReaders
  <2>3. CASE Backfill(r) \/ Fill(r)
    <3>1. L1Put(reader[r].inst, reader[r].key, reader[r].ver) /\ reader[r].pc # "idle"
          BY <2>3 DEF Backfill, Fill
    <3>2. l1' \in [Instances -> [Keys -> Entry]]
          BY <2>2, <3>1, L1PutEffect DEF BusyReader
    <3>. QED  BY <2>1, <2>3, <3>2 DEF Backfill, Fill, TypeOK, ReaderState, ItemsLeft
  <2>4. CASE L2Set(r)
    <3>1. NewEntry(reader[r].key, reader[r].ver) \in Entry
          BY <2>2, <2>4, NewEntryType DEF L2Set, BusyReader
    <3>. QED  BY <2>1, <2>4, <3>1 DEF L2Set, TypeOK, ReaderState, ItemsLeft
  <2>5. CASE L2Hit(r) \/ L2Miss(r) \/ Select(r) \/ AnswerUncached(r) \/ Count(r)
              \/ CountFails(r) \/ L2SetFails(r)
        BY <2>1, <2>5 DEF L2Hit, L2Miss, Select, AnswerUncached, Count, CountFails,
                          L2SetFails, TypeOK, ReaderState, ItemsLeft
  <2>. QED  BY <1>2, <2>3, <2>4, <2>5 DEF ReaderStep
<1>3. ASSUME NEW w \in Writers, NEW i \in Instances, NEW t \in Tables, NEW op \in Ops,
             StartWrite(w, i, t, op)
      PROVE  TypeOK' /\ ItemsLeft'
  <2>1. PICK n \in 0..BulkSize :
           writer' = [writer EXCEPT ![w] =
                       [pc |-> IF n = 0 THEN "clear" ELSE "exec",
                        inst |-> i, table |-> t, op |-> op, left |-> n,
                        pages |-> MaxPages, base |-> 0,
                        todo |-> {}, hits |-> {}]]
    <3>1. PICK n \in IF op = "bulk" THEN 0..BulkSize ELSE {1} :
             writer' = [writer EXCEPT ![w] =
                       [pc |-> IF n = 0 THEN "clear" ELSE "exec",
                        inst |-> i, table |-> t, op |-> op, left |-> n,
                        pages |-> MaxPages, base |-> 0,
                        todo |-> {}, hits |-> {}]]
          BY <1>3 DEF StartWrite
    <3>2. n \in 0..BulkSize  BY BoundsAssumption
    <3>. QED  BY <3>1, <3>2
  <2>2. [pc |-> IF n = 0 THEN "clear" ELSE "exec",
         inst |-> i, table |-> t, op |-> op, left |-> n,
         pages |-> MaxPages, base |-> 0, todo |-> {}, hits |-> {}] \in BusyWriter
        BY BoundsAssumption DEF BusyWriter, Writing, Versions
  <2>3. writer' \in [Writers -> WriterState]  BY <2>1, <2>2 DEF WriterState
  <2>4. ItemsLeft'  BY <2>1 DEF ItemsLeft
  <2>. QED  BY <1>3, <2>3, <2>4 DEF StartWrite, TypeOK, WriterState
<1>4. ASSUME NEW w \in Writers, WriterStep(w)
      PROVE  TypeOK' /\ ItemsLeft'
  <2>1. writer' \in [Writers -> WriterState] /\ ItemsLeft'  BY <1>4, WriterType
  <2>2. writer[w].pc # "idle" => writer[w] \in BusyWriter  BY BusyWriters
  <2>3. CASE Commit(w) \/ CommitReplyLost(w)
    <3>1. Change(w) /\ writer[w].pc = "exec"
          BY <2>3 DEF Commit, CommitReplyLost
    <3>2. /\ ver' \in [Tables -> Versions]
          /\ commitAt' \in [Tables -> [Versions -> Nat]]
          /\ committed' \in [Instances -> [Tables -> Versions]]
          BY <3>1, ChangeType
    <3>. QED  BY <2>1, <2>3, <3>2 DEF Commit, CommitReplyLost, TypeOK, WriterState
  <2>4. CASE ClearL1(w)
    <3>1. l1' \in [Instances -> [Keys -> Entry]]
          BY <2>4, AbsentType DEF ClearL1
    <3>2. cleared1' \in [Instances -> [Tables -> Versions]]
          BY <2>4 DEF ClearL1
    <3>. QED  BY <2>1, <2>4, <3>1, <3>2 DEF ClearL1, TypeOK, WriterState
  <2>5. CASE DelKey(w)
    <3>1. l2' \in [Keys -> Entry]  BY <2>5, AbsentType DEF DelKey
    <3>. QED  BY <2>1, <2>5, <3>1 DEF DelKey, TypeOK, WriterState
  <2>6. CASE ScanDone(w)
    <3>1. cleared2' \in [Tables -> Versions]
          BY <2>2, <2>6 DEF ScanDone, BusyWriter
    <3>. QED  BY <2>1, <2>6, <3>1 DEF ScanDone, TypeOK, WriterState
  <2>7. CASE NoEffect(w) \/ ExecFails(w) \/ Requery(w) \/ RequeryFails(w)
              \/ ScanPage(w) \/ ScanFails(w)
        BY <2>1, <2>7 DEF NoEffect, ExecFails, Requery, RequeryFails, ScanPage,
                          ScanFails, TypeOK, WriterState
  <2>. QED  BY <1>4, <2>3, <2>4, <2>5, <2>6, <2>7 DEF WriterStep
<1>5. ASSUME NEW i \in Instances, Crash(i)
      PROVE  TypeOK' /\ ItemsLeft'
  <2>1. l1' \in [Instances -> [Keys -> Entry]]  BY <1>5, AbsentType DEF Crash
  <2>2. reader' \in [Readers -> ReaderState]  BY <1>5 DEF Crash, ReaderState
  <2>3. writer' \in [Writers -> WriterState]  BY <1>5 DEF Crash, WriterState
  <2>4. ItemsLeft'  BY <1>5 DEF Crash, ItemsLeft, IdleWriter
  <2>5. cleared1' \in [Instances -> [Tables -> Versions]]  BY <1>5 DEF Crash
  <2>6. committed' \in [Instances -> [Tables -> Versions]]
        BY <1>5, BoundsAssumption DEF Crash, TypeOK, Versions
  <2>. QED  BY <1>5, <2>1, <2>2, <2>3, <2>4, <2>5, <2>6
            DEF Crash, TypeOK, ReaderState, WriterState
<1>6. CASE Tick
  <2>1. now' \in Nat  BY <1>6 DEF Tick
  <2>2. l2' \in [Keys -> Entry]  BY <1>6, AbsentType DEF Tick
  <2>3. ASSUME NEW w \in Writers
        PROVE  writer'[w] \in WriterState /\ writer'[w].pc = writer[w].pc
               /\ (writer[w].pc # "scan" => writer'[w] = writer[w])
    <3>1. CASE writer[w].pc # "scan"  BY <1>6, <3>1 DEF Tick
    <3>2. CASE writer[w].pc = "scan"
      <4>1. PICK T \in SUBSET writer[w].todo : writer'[w] = [writer[w] EXCEPT !.todo = T]
            BY <1>6, <3>2 DEF Tick
      <4>2. writer[w] \in BusyWriter  BY <3>2, BusyWriters
      <4>3. [writer[w] EXCEPT !.todo = T] \in BusyWriter  BY <4>1, <4>2 DEF BusyWriter
      <4>4. [writer[w] EXCEPT !.todo = T].pc = writer[w].pc  BY <4>2 DEF BusyWriter
      <4>. QED  BY <3>2, <4>1, <4>3, <4>4 DEF WriterState
    <3>. QED  BY <3>1, <3>2
  <2>4. writer' \in [Writers -> WriterState]  BY <1>6, <2>3 DEF Tick
  <2>5. ItemsLeft'  BY <2>3 DEF ItemsLeft
  <2>. QED  BY <1>6, <2>1, <2>2, <2>4, <2>5 DEF Tick, TypeOK, WriterState
<1>7. CASE UNCHANGED vars  BY <1>7 DEF vars, TypeOK, ItemsLeft
<1>. QED  BY <1>1, <1>2, <1>3, <1>4, <1>5, <1>6, <1>7 DEF Next

LEMMA TypeInit == Init => TypeOK /\ ItemsLeft
<1>. SUFFICES ASSUME Init PROVE TypeOK /\ ItemsLeft  OBVIOUS
<1>1. 0 \in Versions  BY BoundsAssumption DEF Versions
<1>. QED  BY <1>1, AbsentType DEF Init, TypeOK, ItemsLeft, IdleReader, IdleWriter

\* Every variable keeps its type, however the handlers interleave and fail:
\* the counters of bulk requests and of SCANs never leave their ranges.
THEOREM TypeCorrect == Spec => []TypeOK
<1>1. Init => TypeOK /\ ItemsLeft  BY TypeInit
<1>2. TypeOK /\ ItemsLeft /\ [Next]_vars => TypeOK' /\ ItemsLeft'  BY TypeStep
<1>. QED  BY <1>1, <1>2, PTL DEF Spec

-----------------------------------------------------------------------------
(* Bounded staleness                                                       *)
(*                                                                         *)
(* BoundedStaleness is not inductive: it says nothing of the values that   *)
(* handlers hold, and of entries that are still current.  The invariant    *)
(* StalenessInv bounds the expiry of every entry, by the clock while it is *)
(* current and by the commit that outdated it afterwards, and the moment   *)
(* at which every value that a handler still holds was read.               *)

History == [Versions -> Nat]

\* An entry of a table that is at version V at time n, whose versions were
\* committed at the times c, expires within b of being outdated.
EntryBound(e, n, V, c, b) ==
    /\ e.ver <= V
    /\ e.expiresAt <= n + Ttl
    /\ e.ver < V => e.expiresAt <= c[e.ver + 1] + b

\* The same for a version v that a handler has read at time at.
HeldBound(v, at, n, V, c, b) ==
    /\ v <= V
    /\ at <= n /\ n <= at + Latency
    /\ v < V => at <= c[v + 1] + b

\* A value comes from Redis already outdated by up to L2Bound.
ReadBound(pc) == IF pc = "backfill" THEN L2Bound ELSE 0

L1Inv == \A i \in Instances, k \in Keys :
    EntryBound(l1[i][k], now, ver[TableOf[k]], commitAt[TableOf[k]], L1Bound)

L2Inv == \A k \in Keys :
    EntryBound(l2[k], now, ver[TableOf[k]], commitAt[TableOf[k]], L2Bound)

HeldInv == \A r \in Readers :
    reader[r].pc \in Holding =>
        HeldBound(reader[r].ver, reader[r].at, now, ver[TableOf[reader[r].key]],
                  commitAt[TableOf[reader[r].key]], ReadBound(reader[r].pc))

RedisInv == \A r \in Readers :
    reader[r].pc \in {"l2get", "backfill"} => RedisEnabled

StalenessInv == TypeOK /\ ItemsLeft /\ L1Inv /\ L2Inv /\ HeldInv /\ RedisInv

LEMMA Bounds ==
    /\ L1Bound \in Nat /\ L2Bound \in Nat
    /\ Ttl <= L2Bound /\ L2Bound <= L1Bound
    /\ RedisEnabled => L1Bound = L2Bound + Ttl + Latency
<1>1. Ttl \in Nat /\ Latency \in Nat  BY BoundsAssumption
<1>2. CASE RedisEnabled  BY <1>1, <1>2 DEF L1Bound, L2Bound
<1>3. CASE ~RedisEnabled  BY <1>1, <1>3 DEF L1Bound, L2Bound
<1>. QED  BY <1>2, <1>3

LEMMA NextVersion ==
    ASSUME NEW c \in History, NEW V \in Versions, NEW v \in Versions, v < V
    PROVE  c[v + 1] \in Nat
BY BoundsAssumption DEF Versions, History

\* The bounds survive a commit, and an entry's bound the passing of time.
LEMMA EntryAfterCommit ==
    ASSUME NEW e \in Entry, NEW n \in Nat, NEW V \in Versions, V + 1 \in Versions,
           NEW c \in History, NEW b \in Nat, Ttl <= b, EntryBound(e, n, V, c, b)
    PROVE  EntryBound(e, n, V + 1, [c EXCEPT ![V + 1] = n], b)
<1>1. e.ver \in Versions /\ e.expiresAt \in Nat  BY DEF Entry
<1>. USE BoundsAssumption DEF Versions, History, EntryBound
<1>2. CASE e.ver = V  BY <1>1, <1>2
<1>3. CASE e.ver < V
  <2>1. \A v \in Versions : v < V => v + 1 \in Versions /\ v + 1 # V + 1
        OBVIOUS
  <2>2. e.ver + 1 \in Versions /\ e.ver + 1 # V + 1  BY ONLY <1>1, <1>3, <2>1
  <2>. QED  BY <1>1, <1>3, <2>2
<1>. QED  BY <1>1, <1>2, <1>3

LEMMA HeldAfterCommit ==
    ASSUME NEW v \in Versions, NEW at \in Nat, NEW n \in Nat, NEW V \in Versions,
           V + 1 \in Versions, NEW c \in History, NEW b \in Nat,
           HeldBound(v, at, n, V, c, b)
    PROVE  HeldBound(v, at, n, V + 1, [c EXCEPT ![V + 1] = n], b)
<1>. USE BoundsAssumption DEF Versions, History, HeldBound
<1>1. CASE v = V  BY <1>1
<1>2. CASE v < V
  <2>1. v + 1 \in Versions /\ v + 1 # V + 1  BY <1>2
  <2>. QED  BY <1>2, <2>1
<1>. QED  BY <1>1, <1>2

LEMMA EntryAfterTick ==
    ASSUME NEW e \in Entry, NEW n \in Nat, NEW V \in Versions,
           NEW c \in History, NEW b \in Nat, EntryBound(e, n, V, c, b)
    PROVE  EntryBound(e, n + 1, V, c, b)
BY BoundsAssumption DEF EntryBound, Entry

LEMMA AbsentBound ==
    ASSUME NEW n \in Nat, NEW V \in Versions, NEW c \in History, NEW b \in Nat
    PROVE  EntryBound(Absent, n, V, c, b)
<1>1. 0 < V => c[0 + 1] \in Nat  BY BoundsAssumption DEF Versions, History
<1>. QED  BY <1>1, BoundsAssumption DEF EntryBound, Absent, Versions

\* What a handler stores of a value it holds is bounded by TTL and Latency
\* more than the value.
LEMMA StoredBound ==
    ASSUME TypeOK, NEW k \in Keys, NEW v \in Versions, NEW at \in Nat,
           NEW a \in Nat, NEW b \in Nat, a + Ttl + Latency <= b,
           HeldBound(v, at, now, ver[TableOf[k]], commitAt[TableOf[k]], a)
    PROVE  EntryBound(NewEntry(k, v), now, ver[TableOf[k]], commitAt[TableOf[k]], b)
<1>1. now \in Nat /\ ver[TableOf[k]] \in Versions /\ commitAt[TableOf[k]] \in History
      BY KeysAssumption DEF TypeOK, History
<1>2. NewEntry(k, v).ver = v /\ NewEntry(k, v).expiresAt = now + Ttl
      BY DEF NewEntry
<1>3. v < ver[TableOf[k]] => commitAt[TableOf[k]][v + 1] \in Nat
      BY <1>1, BoundsAssumption DEF Versions, History
<1>. QED  BY <1>1, <1>2, <1>3, BoundsAssumption DEF EntryBound, HeldBound, Versions

\* Where the clock and the database stand still, it is enough to look at the
\* entries and the handlers that changed.
LEMMA L1Frame ==
    ASSUME StalenessInv, UNCHANGED <<now, ver, commitAt>>,
           \A i \in Instances, k \in Keys :
              \/ l1'[i][k] = l1[i][k]
              \/ l1'[i][k] = Absent
              \/ EntryBound(l1'[i][k], now, ver[TableOf[k]], commitAt[TableOf[k]], L1Bound)
    PROVE  L1Inv'
<1>. SUFFICES ASSUME NEW i \in Instances, NEW k \in Keys
              PROVE  EntryBound(l1'[i][k], now, ver[TableOf[k]], commitAt[TableOf[k]], L1Bound)
     BY DEF L1Inv
<1>1. /\ now \in Nat /\ ver[TableOf[k]] \in Versions /\ commitAt[TableOf[k]] \in History
      /\ L1Bound \in Nat
      BY KeysAssumption, Bounds DEF StalenessInv, TypeOK, History
<1>. QED  BY <1>1, AbsentBound DEF StalenessInv, L1Inv

LEMMA L2Frame ==
    ASSUME StalenessInv, UNCHANGED <<now, ver, commitAt>>,
           \A k \in Keys :
              \/ l2'[k] = l2[k]
              \/ l2'[k] = Absent
              \/ EntryBound(l2'[k], now, ver[TableOf[k]], commitAt[TableOf[k]], L2Bound)
    PROVE  L2Inv'
<1>. SUFFICES ASSUME NEW k \in Keys
              PROVE  EntryBound(l2'[k], now, ver[TableOf[k]], commitAt[TableOf[k]], L2Bound)
     BY DEF L2Inv
<1>1. /\ now \in Nat /\ ver[TableOf[k]] \in Versions /\ commitAt[TableOf[k]] \in History
      /\ L2Bound \in Nat
      BY KeysAssumption, Bounds DEF StalenessInv, TypeOK, History
<1>. QED  BY <1>1, AbsentBound DEF StalenessInv, L2Inv

LEMMA HeldFrame ==
    ASSUME StalenessInv, UNCHANGED <<now, ver, commitAt>>,
           \A r \in Readers : reader'[r].pc \in Holding =>
              \/ reader'[r] = reader[r]
              \/ HeldBound(reader'[r].ver, reader'[r].at, now,
                           ver[TableOf[reader'[r].key]],
                           commitAt[TableOf[reader'[r].key]], ReadBound(reader'[r].pc))
    PROVE  HeldInv'
BY DEF StalenessInv, HeldInv

\* The steps of a GET handler.
LEMMA ReaderStaleness ==
    ASSUME StalenessInv, NEW r \in Readers, ReaderStep(r)
    PROVE  L1Inv' /\ L2Inv' /\ HeldInv' /\ RedisInv'
<1>. USE DEF db, cleared
<1>1. TypeOK /\ UNCHANGED <<now, ver, commitAt>>
      BY DEF StalenessInv, ReaderStep, L2Hit, L2Miss, Backfill, Select, AnswerUncached,
             Count, CountFails, Fill, L2Set, L2SetFails
<1>2. reader[r] \in BusyReader
      BY <1>1, BusyReaders
         DEF ReaderStep, L2Hit, L2Miss, Backfill, Select, AnswerUncached, Count,
             CountFails, Fill, L2Set, L2SetFails
<1>. DEFINE k  == reader[r].key
            v  == reader[r].ver
            at == reader[r].at
            V  == ver[TableOf[k]]
            c  == commitAt[TableOf[k]]
<1>3. /\ k \in Keys /\ v \in Versions /\ at \in Nat /\ reader[r].inst \in Instances
      /\ now \in Nat /\ V \in Versions /\ c \in History
      BY <1>1, <1>2, KeysAssumption DEF BusyReader, TypeOK, History
<1>4. reader \in [Readers -> ReaderState]  BY <1>1 DEF TypeOK, ReaderState
<1>5. CASE Backfill(r)
  <2>1. HeldBound(v, at, now, V, c, L2Bound) /\ RedisEnabled
        BY <1>5 DEF StalenessInv, HeldInv, RedisInv, Backfill, Holding, ReadBound
  <2>2. EntryBound(NewEntry(k, v), now, V, c, L1Bound)
        BY <1>1, <1>3, <2>1, StoredBound, Bounds
  <2>3. \A j \in Instances, x \in Keys :
           \/ l1'[j][x] = l1[j][x]
           \/ l1'[j][x] = Absent
           \/ x = k /\ l1'[j][x] = NewEntry(k, v)
        BY <1>1, <1>3, <1>5, L1PutEffect DEF Backfill
  <2>4. L1Inv'  BY <1>1, <2>2, <2>3, L1Frame
  <2>5. L2Inv'  BY <1>1, <1>5, L2Frame DEF Backfill
  <2>6. HeldInv' /\ RedisInv'
        BY <1>1, <1>4, <1>5, HeldFrame
           DEF Backfill, IdleReader, Holding, StalenessInv, RedisInv
  <2>. QED  BY <2>4, <2>5, <2>6
<1>6. CASE Fill(r)
  <2>1. HeldBound(v, at, now, V, c, 0)
        BY <1>6 DEF StalenessInv, HeldInv, Fill, Holding, ReadBound
  <2>2. EntryBound(NewEntry(k, v), now, V, c, L1Bound)
        BY <1>1, <1>3, <2>1, StoredBound, Bounds, BoundsAssumption DEF L2Bound
  <2>3. \A j \in Instances, x \in Keys :
           \/ l1'[j][x] = l1[j][x]
           \/ l1'[j][x] = Absent
           \/ x = k /\ l1'[j][x] = NewEntry(k, v)
        BY <1>1, <1>3, <1>6, L1PutEffect DEF Fill
  <2>4. L1Inv'  BY <1>1, <2>2, <2>3, L1Frame
  <2>5. L2Inv'  BY <1>1, <1>6, L2Frame DEF Fill
  <2>6. \/ reader' = [reader EXCEPT ![r] = IdleReader]
        \/ reader' = [reader EXCEPT ![r] = [@ EXCEPT !.pc = "l2set"]]
        BY <1>6 DEF Fill
  <2>7. [reader[r] EXCEPT !.pc = "l2set"] \in BusyReader
        BY <1>2 DEF BusyReader, Reading
  <2>8. /\ [reader[r] EXCEPT !.pc = "l2set"].pc = "l2set"
        /\ [reader[r] EXCEPT !.pc = "l2set"].key = k
        /\ [reader[r] EXCEPT !.pc = "l2set"].ver = v
        /\ [reader[r] EXCEPT !.pc = "l2set"].at = at
        BY <1>2 DEF BusyReader
  <2>9. ASSUME NEW x \in Readers, reader'[x] # reader[x]
        PROVE  x = r /\ reader'[x] \in {IdleReader, [reader[r] EXCEPT !.pc = "l2set"]}
        BY <1>4, <2>6, <2>9
  <2>10. HeldBound(v, at, now, V, c, ReadBound("l2set"))
        BY <2>1 DEF ReadBound
  <2>11. ASSUME NEW x \in Readers, reader'[x].pc \in Holding, reader'[x] # reader[x]
         PROVE  HeldBound(reader'[x].ver, reader'[x].at, now, ver[TableOf[reader'[x].key]],
                          commitAt[TableOf[reader'[x].key]], ReadBound(reader'[x].pc))
    <3>1. reader'[x] # IdleReader  BY <2>11 DEF IdleReader, Holding
    <3>2. reader'[x] = [reader[r] EXCEPT !.pc = "l2set"]  BY <2>9, <2>11, <3>1
    <3>3. /\ reader'[x].pc = "l2set" /\ reader'[x].key = k
          /\ reader'[x].ver = v /\ reader'[x].at = at
          BY <2>8, <3>2
    <3>. QED  BY <2>10, <3>3
  <2>12. HeldInv'  BY <1>1, <2>11, HeldFrame
  <2>13. ASSUME NEW x \in Readers, reader'[x] # reader[x]
         PROVE  reader'[x].pc \in {"idle", "l2set"}
    <3>1. CASE reader'[x] = IdleReader  BY <3>1 DEF IdleReader
    <3>2. CASE reader'[x] = [reader[r] EXCEPT !.pc = "l2set"]  BY <2>8, <3>2
    <3>. QED  BY <2>9, <2>13, <3>1, <3>2
  <2>14. RedisInv'  BY <2>13 DEF StalenessInv, RedisInv
  <2>. QED  BY <2>4, <2>5, <2>12, <2>14
<1>7. CASE L2Set(r)
  <2>1. HeldBound(v, at, now, V, c, 0)
        BY <1>7 DEF StalenessInv, HeldInv, L2Set, Holding, ReadBound
  <2>2. EntryBound(NewEntry(k, v), now, V, c, L2Bound)
        BY <1>1, <1>3, <2>1, StoredBound, Bounds, BoundsAssumption DEF L2Bound
  <2>3. L2Inv'
    <3>1. l2 \in [Keys -> Entry] /\ l2' = [l2 EXCEPT ![k] = NewEntry(k, v)]
          BY <1>1, <1>7 DEF L2Set, TypeOK
    <3>2. \A x \in Keys : l2'[x] = l2[x] \/ (x = k /\ l2'[x] = NewEntry(k, v))
      <4>1. ASSUME NEW x \in Keys, x # k PROVE l2'[x] = l2[x]  BY <3>1, <4>1
      <4>2. l2'[k] = NewEntry(k, v)  BY <1>3, <3>1
      <4>. QED  BY <4>1, <4>2
    <3>. QED  BY <1>1, <2>2, <3>2, L2Frame
  <2>4. L1Inv'  BY <1>1, <1>7, L1Frame DEF L2Set
  <2>5. HeldInv' /\ RedisInv'
        BY <1>1, <1>4, <1>7, HeldFrame
           DEF L2Set, IdleReader, Holding, StalenessInv, RedisInv
  <2>. QED  BY <2>3, <2>4, <2>5
<1>8. CASE L2Hit(r)
  <2>1. EntryBound(l2[k], now, V, c, L2Bound) /\ l2[k] \in Entry /\ now < l2[k].expiresAt
        BY <1>1, <1>3, <1>8 DEF StalenessInv, L2Inv, L2Hit, Live, TypeOK
  <2>2. HeldBound(l2[k].ver, now, now, V, c, L2Bound)
    <3>1. l2[k].ver \in Versions /\ l2[k].expiresAt \in Nat  BY <2>1 DEF Entry
    <3>2. l2[k].ver < V => c[l2[k].ver + 1] \in Nat
          BY <1>3, <3>1, NextVersion
    <3>3. now \in Nat /\ V \in Nat /\ l2[k].ver \in Nat /\ Latency \in Nat /\ L2Bound \in Nat
          BY <1>3, <3>1, Bounds, BoundsAssumption DEF Versions
    <3>4. /\ l2[k].ver <= V
          /\ l2[k].ver < V => l2[k].expiresAt <= c[l2[k].ver + 1] + L2Bound
          BY <2>1 DEF EntryBound
    <3>. HIDE DEF V, c
    <3>. QED  BY <2>1, <3>1, <3>2, <3>3, <3>4 DEF HeldBound
  <2>3. reader'[r] = [reader[r] EXCEPT !.pc = "backfill", !.ver = l2[k].ver, !.at = now]
        BY <1>4, <1>8 DEF L2Hit
  <2>4. /\ reader'[r].pc = "backfill" /\ reader'[r].key = k
        /\ reader'[r].ver = l2[k].ver /\ reader'[r].at = now
        BY <1>2, <2>3 DEF BusyReader
  <2>5. \A x \in Readers : x # r => reader'[x] = reader[x]
        BY <1>4, <1>8 DEF L2Hit
  <2>6. HeldBound(l2[k].ver, now, now, V, c, ReadBound("backfill"))
        BY <2>2 DEF ReadBound
  <2>7. HeldInv'  BY <1>1, <2>4, <2>5, <2>6, HeldFrame
  <2>8. RedisInv'
        BY <1>8, <2>4, <2>5 DEF L2Hit, StalenessInv, RedisInv
  <2>. QED  BY <1>1, <1>8, <2>7, <2>8, L1Frame, L2Frame DEF L2Hit
<1>9. CASE Select(r)
  <2>1. PICK next \in {"fill", "count"} :
           reader' = [reader EXCEPT ![r] = [@ EXCEPT !.pc = next, !.ver = V, !.at = now]]
        BY <1>9 DEF Select
  <2>2. reader'[r] = [reader[r] EXCEPT !.pc = next, !.ver = V, !.at = now]
        BY <1>4, <2>1
  <2>3. /\ reader'[r].pc = next /\ reader'[r].key = k
        /\ reader'[r].ver = V /\ reader'[r].at = now
        BY <1>2, <2>2 DEF BusyReader
  <2>4. \A x \in Readers : x # r => reader'[x] = reader[x]  BY <1>4, <2>1
  <2>5. HeldBound(V, now, now, V, c, ReadBound(next))
        BY <1>3, BoundsAssumption DEF HeldBound, Versions
  <2>6. HeldInv'  BY <1>1, <2>3, <2>4, <2>5, HeldFrame
  <2>7. RedisInv'  BY <2>3, <2>4 DEF StalenessInv, RedisInv
  <2>. QED  BY <1>1, <1>9, <2>6, <2>7, L1Frame, L2Frame DEF Select
<1>10. CASE Count(r)
  <2>1. HeldBound(v, at, now, V, c, ReadBound("fill"))
        BY <1>10 DEF StalenessInv, HeldInv, Count, Holding, ReadBound
  <2>2. reader'[r] = [reader[r] EXCEPT !.pc = "fill"]  BY <1>4, <1>10 DEF Count
  <2>3. /\ reader'[r].pc = "fill" /\ reader'[r].key = k
        /\ reader'[r].ver = v /\ reader'[r].at = at
        BY <1>2, <2>2 DEF BusyReader
  <2>4. \A x \in Readers : x # r => reader'[x] = reader[x]  BY <1>4, <1>10 DEF Count
  <2>5. HeldInv'  BY <1>1, <2>1, <2>3, <2>4, HeldFrame
  <2>6. RedisInv'  BY <2>3, <2>4 DEF StalenessInv, RedisInv
  <2>. QED  BY <1>1, <1>10, <2>5, <2>6, L1Frame, L2Frame DEF Count
<1>11. CASE L2Miss(r)
  <2>1. reader'[r] = [reader[r] EXCEPT !.pc = "select"]  BY <1>4, <1>11 DEF L2Miss
  <2>2. reader'[r].pc = "select"  BY <1>2, <2>1 DEF BusyReader
  <2>3. \A x \in Readers : x # r => reader'[x] = reader[x]  BY <1>4, <1>11 DEF L2Miss
  <2>4. HeldInv'  BY <1>1, <2>2, <2>3, HeldFrame DEF Holding
  <2>5. RedisInv'  BY <2>2, <2>3 DEF StalenessInv, RedisInv
  <2>. QED  BY <1>1, <1>11, <2>4, <2>5, L1Frame, L2Frame DEF L2Miss
<1>12. CASE AnswerUncached(r) \/ CountFails(r) \/ L2SetFails(r)
  <2>1. reader' = [reader EXCEPT ![r] = IdleReader] /\ UNCHANGED <<l1, l2>>
        BY <1>12 DEF AnswerUncached, CountFails, L2SetFails
  <2>2. HeldInv' /\ RedisInv'
        BY <1>1, <1>4, <2>1, HeldFrame DEF IdleReader, Holding, StalenessInv, RedisInv
  <2>. QED  BY <1>1, <2>1, <2>2, L1Frame, L2Frame
<1>. QED  BY <1>5, <1>6, <1>7, <1>8, <1>9, <1>10, <1>11, <1>12 DEF ReaderStep

\* A commit: the values of the table that were current become outdated now.
LEMMA CommitStaleness ==
    ASSUME StalenessInv, NEW w \in Writers, writer[w].pc = "exec", Change(w),
           UNCHANGED <<now, l1, l2, reader>>
    PROVE  L1Inv' /\ L2Inv' /\ HeldInv' /\ RedisInv'
<1>. DEFINE t == writer[w].table
            V == ver[t]
            c == commitAt[t]
<1>1. TypeOK /\ t \in Tables
      BY BusyWriters DEF StalenessInv, BusyWriter
<1>2. now \in Nat /\ V \in Versions /\ V + 1 \in Versions /\ c \in History
      BY <1>1 DEF TypeOK, Change, History
<1>3. ver'[t] = V + 1 /\ commitAt'[t] = [c EXCEPT ![V + 1] = now]
      BY <1>1 DEF TypeOK, Change
<1>4. \A u \in Tables : u # t => ver'[u] = ver[u] /\ commitAt'[u] = commitAt[u]
      BY <1>1 DEF TypeOK, Change
<1>. HIDE DEF t
<1>5. ASSUME NEW i \in Instances, NEW k \in Keys
      PROVE  EntryBound(l1[i][k], now, ver'[TableOf[k]], commitAt'[TableOf[k]], L1Bound)
  <2>1. EntryBound(l1[i][k], now, ver[TableOf[k]], commitAt[TableOf[k]], L1Bound)
        BY DEF StalenessInv, L1Inv
  <2>2. l1[i][k] \in Entry /\ TableOf[k] \in Tables
        BY <1>1, KeysAssumption DEF TypeOK
  <2>3. L1Bound \in Nat /\ Ttl <= L1Bound  BY Bounds, BoundsAssumption
  <2>4. CASE TableOf[k] = t
        BY <1>2, <1>3, <2>1, <2>2, <2>3, <2>4, EntryAfterCommit
  <2>5. CASE TableOf[k] # t  BY <1>4, <2>1, <2>2, <2>5
  <2>. QED  BY <2>4, <2>5
<1>6. ASSUME NEW k \in Keys
      PROVE  EntryBound(l2[k], now, ver'[TableOf[k]], commitAt'[TableOf[k]], L2Bound)
  <2>1. EntryBound(l2[k], now, ver[TableOf[k]], commitAt[TableOf[k]], L2Bound)
        BY DEF StalenessInv, L2Inv
  <2>2. l2[k] \in Entry /\ TableOf[k] \in Tables
        BY <1>1, KeysAssumption DEF TypeOK
  <2>3. L2Bound \in Nat /\ Ttl <= L2Bound  BY Bounds
  <2>4. CASE TableOf[k] = t
        BY <1>2, <1>3, <2>1, <2>2, <2>3, <2>4, EntryAfterCommit
  <2>5. CASE TableOf[k] # t  BY <1>4, <2>1, <2>2, <2>5
  <2>. QED  BY <2>4, <2>5
<1>7. ASSUME NEW r \in Readers, reader[r].pc \in Holding
      PROVE  HeldBound(reader[r].ver, reader[r].at, now, ver'[TableOf[reader[r].key]],
                       commitAt'[TableOf[reader[r].key]], ReadBound(reader[r].pc))
  <2>. DEFINE k == reader[r].key
  <2>1. HeldBound(reader[r].ver, reader[r].at, now, ver[TableOf[k]],
                  commitAt[TableOf[k]], ReadBound(reader[r].pc))
        BY <1>7 DEF StalenessInv, HeldInv
  <2>2. reader[r] \in BusyReader  BY <1>1, <1>7, BusyReaders DEF Holding
  <2>3. /\ TableOf[k] \in Tables /\ reader[r].ver \in Versions /\ reader[r].at \in Nat
        /\ ReadBound(reader[r].pc) \in Nat
        BY <2>2, Bounds, KeysAssumption DEF BusyReader, ReadBound
  <2>4. CASE TableOf[k] = t
        BY <1>2, <1>3, <2>1, <2>3, <2>4, HeldAfterCommit
  <2>5. CASE TableOf[k] # t  BY <1>4, <2>1, <2>3, <2>5
  <2>. QED  BY <2>4, <2>5
<1>8. RedisInv'  BY DEF StalenessInv, RedisInv
<1>. QED  BY <1>5, <1>6, <1>7, <1>8 DEF L1Inv, L2Inv, HeldInv

\* The steps of a write handler.
LEMMA WriterStaleness ==
    ASSUME StalenessInv, NEW w \in Writers, WriterStep(w)
    PROVE  L1Inv' /\ L2Inv' /\ HeldInv' /\ RedisInv'
<1>. USE DEF db, cleared
<1>1. CASE Commit(w) \/ CommitReplyLost(w)
      BY <1>1, CommitStaleness DEF Commit, CommitReplyLost
<1>2. CASE NoEffect(w) \/ ExecFails(w) \/ Requery(w) \/ RequeryFails(w)
              \/ ScanPage(w) \/ ScanDone(w) \/ ScanFails(w)
  <2>1. UNCHANGED <<now, ver, commitAt, l1, l2, reader>>
        BY <1>2 DEF NoEffect, ExecFails, Requery, RequeryFails, ScanPage, ScanDone, ScanFails
  <2>. QED  BY <2>1 DEF StalenessInv, L1Inv, L2Inv, HeldInv, RedisInv
<1>3. CASE ClearL1(w)
  <2>1. UNCHANGED <<now, ver, commitAt, l2, reader>>  BY <1>3 DEF ClearL1
  <2>2. \A i \in Instances, k \in Keys : l1'[i][k] = l1[i][k] \/ l1'[i][k] = Absent
        BY <1>3 DEF ClearL1, StalenessInv, TypeOK
  <2>3. L1Inv'  BY <2>1, <2>2, L1Frame
  <2>. QED  BY <2>1, <2>3 DEF StalenessInv, L2Inv, HeldInv, RedisInv
<1>4. CASE DelKey(w)
  <2>1. UNCHANGED <<now, ver, commitAt, l1, reader>>  BY <1>4 DEF DelKey
  <2>2. \A k \in Keys : l2'[k] = l2[k] \/ l2'[k] = Absent
        BY <1>4 DEF DelKey, StalenessInv, TypeOK
  <2>3. L2Inv'  BY <2>1, <2>2, L2Frame
  <2>. QED  BY <2>1, <2>3 DEF StalenessInv, L1Inv, HeldInv, RedisInv
<1>. QED  BY <1>1, <1>2, <1>3, <1>4 DEF WriterStep

\* The passing of time: no handler holds a value beyond Latency.
LEMMA TickStaleness ==
    ASSUME StalenessInv, Tick
    PROVE  L1Inv' /\ L2Inv' /\ HeldInv' /\ RedisInv'
<1>1. /\ TypeOK /\ now' = now + 1
      /\ UNCHANGED <<ver, commitAt, l1, reader>>
      BY DEF StalenessInv, Tick, db
<1>2. ASSUME NEW k \in Keys
      PROVE  /\ now \in Nat /\ ver[TableOf[k]] \in Versions
             /\ commitAt[TableOf[k]] \in History /\ l2[k] \in Entry
             /\ \A i \in Instances : l1[i][k] \in Entry
      BY <1>1, KeysAssumption DEF TypeOK, History
<1>3. L1Inv'
  <2>. SUFFICES ASSUME NEW i \in Instances, NEW k \in Keys
                PROVE  EntryBound(l1[i][k], now + 1, ver[TableOf[k]], commitAt[TableOf[k]],
                                  L1Bound)
       BY <1>1 DEF L1Inv
  <2>. QED  BY <1>2, EntryAfterTick, Bounds DEF StalenessInv, L1Inv
<1>4. L2Inv'
  <2>. SUFFICES ASSUME NEW k \in Keys
                PROVE  EntryBound(l2'[k], now + 1, ver[TableOf[k]], commitAt[TableOf[k]],
                                  L2Bound)
       BY <1>1 DEF L2Inv
  <2>1. l2'[k] = l2[k] \/ l2'[k] = Absent  BY DEF Tick
  <2>2. EntryBound(l2[k], now + 1, ver[TableOf[k]], commitAt[TableOf[k]], L2Bound)
        BY <1>2, EntryAfterTick, Bounds DEF StalenessInv, L2Inv
  <2>3. EntryBound(Absent, now + 1, ver[TableOf[k]], commitAt[TableOf[k]], L2Bound)
        BY <1>2, AbsentBound, Bounds
  <2>. QED  BY <2>1, <2>2, <2>3
<1>5. HeldInv'
  <2>. SUFFICES ASSUME NEW r \in Readers, reader[r].pc \in Holding
                PROVE  HeldBound(reader[r].ver, reader[r].at, now + 1,
                                 ver[TableOf[reader[r].key]],
                                 commitAt[TableOf[reader[r].key]], ReadBound(reader[r].pc))
       BY <1>1 DEF HeldInv
  <2>1. HeldBound(reader[r].ver, reader[r].at, now, ver[TableOf[reader[r].key]],
                  commitAt[TableOf[reader[r].key]], ReadBound(reader[r].pc))
        BY DEF StalenessInv, HeldInv
  <2>2. now < reader[r].at + Latency  BY DEF Tick
  <2>3. reader[r].at \in Nat /\ now \in Nat
        BY <1>1, BusyReaders DEF BusyReader, TypeOK, Holding
  <2>4. reader[r].at <= now + 1 /\ now + 1 <= reader[r].at + Latency
        BY <2>1, <2>2, <2>3, BoundsAssumption DEF HeldBound
  <2>. QED  BY <2>1, <2>4 DEF HeldBound
<1>6. RedisInv'  BY <1>1 DEF StalenessInv, RedisInv
<1>. QED  BY <1>3, <1>4, <1>5, <1>6

LEMMA StalenessStep == StalenessInv /\ [Next]_vars => StalenessInv'
<1>. SUFFICES ASSUME StalenessInv, [Next]_vars
              PROVE  L1Inv' /\ L2Inv' /\ HeldInv' /\ RedisInv'
     BY TypeStep DEF StalenessInv
<1>. reader \in [Readers -> ReaderState]
     BY DEF StalenessInv, TypeOK, ReaderState
<1>. l1 \in [Instances -> [Keys -> Entry]]  BY DEF StalenessInv, TypeOK
<1>1. ASSUME NEW r \in Readers, NEW i \in Instances, NEW k \in Keys, StartGet(r, i, k)
      PROVE  L1Inv' /\ L2Inv' /\ HeldInv' /\ RedisInv'
  <2>1. UNCHANGED <<now, ver, commitAt, l2>>  BY <1>1 DEF StartGet, db
  <2>2. \A j \in Instances, x \in Keys : l1'[j][x] = l1[j][x] \/ l1'[j][x] = Absent
        BY <1>1 DEF StartGet
  <2>3. /\ reader'[r].pc = IF RedisEnabled THEN "l2get" ELSE "select"
        /\ \A x \in Readers : x # r => reader'[x] = reader[x]
        BY <1>1 DEF StartGet
  <2>4. HeldInv'  BY <2>1, <2>3, HeldFrame DEF Holding
  <2>5. RedisInv'  BY <2>3 DEF StalenessInv, RedisInv
  <2>. QED  BY <2>1, <2>2, <2>4, <2>5, L1Frame, L2Frame
<1>2. ASSUME NEW r \in Readers, ReaderStep(r)
      PROVE  L1Inv' /\ L2Inv' /\ HeldInv' /\ RedisInv'
      BY <1>2, ReaderStaleness
<1>3. ASSUME NEW w \in Writers, NEW i \in Instances, NEW t \in Tables, NEW op \in Ops,
             StartWrite(w, i, t, op)
      PROVE  L1Inv' /\ L2Inv' /\ HeldInv' /\ RedisInv'
      BY <1>3 DEF StartWrite, db, StalenessInv, L1Inv, L2Inv, HeldInv, RedisInv
<1>4. ASSUME NEW w \in Writers, WriterStep(w)
      PROVE  L1Inv' /\ L2Inv' /\ HeldInv' /\ RedisInv'
      BY <1>4, WriterStaleness
<1>5. ASSUME NEW i \in Instances, Crash(i)
      PROVE  L1Inv' /\ L2Inv' /\ HeldInv' /\ RedisInv'
  <2>1. UNCHANGED <<now, ver, commitAt, l2>>  BY <1>5 DEF Crash
  <2>2. \A j \in Instances, x \in Keys : l1'[j][x] = l1[j][x] \/ l1'[j][x] = Absent
        BY <1>5 DEF Crash
  <2>3. \A r \in Readers : reader'[r] = reader[r] \/ reader'[r] = IdleReader
        BY <1>5 DEF Crash
  <2>4. HeldInv'  BY <2>1, <2>3, HeldFrame DEF IdleReader, Holding
  <2>5. RedisInv'  BY <2>3 DEF IdleReader, StalenessInv, RedisInv
  <2>. QED  BY <2>1, <2>2, <2>4, <2>5, L1Frame, L2Frame
<1>6. CASE Tick  BY <1>6, TickStaleness
<1>7. CASE UNCHANGED vars
      BY <1>7 DEF vars, StalenessInv, L1Inv, L2Inv, HeldInv, RedisInv
<1>. QED  BY <1>1, <1>2, <1>3, <1>4, <1>5, <1>6, <1>7 DEF Next

LEMMA StalenessInit == Init => StalenessInv
<1>. SUFFICES ASSUME Init PROVE StalenessInv  OBVIOUS
<1>1. TypeOK /\ ItemsLeft  BY TypeInit
<1>2. ASSUME NEW k \in Keys
      PROVE  now \in Nat /\ ver[TableOf[k]] \in Versions /\ commitAt[TableOf[k]] \in History
      BY <1>1, KeysAssumption DEF TypeOK, History
<1>3. L1Inv  BY <1>2, AbsentBound, Bounds DEF Init, L1Inv
<1>4. L2Inv  BY <1>2, AbsentBound, Bounds DEF Init, L2Inv
<1>5. HeldInv /\ RedisInv  BY DEF Init, HeldInv, RedisInv, IdleReader, Holding
<1>. QED  BY <1>1, <1>3, <1>4, <1>5 DEF StalenessInv

LEMMA StalenessImplied == StalenessInv => BoundedStaleness
<1>. SUFFICES ASSUME StalenessInv PROVE BoundedStaleness  OBVIOUS
<1>1. now \in Nat /\ L1Bound \in Nat /\ L2Bound \in Nat
      BY Bounds DEF StalenessInv, TypeOK
<1>2. ASSUME NEW k \in Keys, NEW e \in Entry, NEW b \in Nat,
             EntryBound(e, now, ver[TableOf[k]], commitAt[TableOf[k]], b),
             Live(e), Stale(k, e.ver)
      PROVE  now < OutdatedAt(k, e.ver) + b
  <2>1. /\ ver[TableOf[k]] \in Versions /\ commitAt[TableOf[k]] \in History
        /\ e.ver \in Versions /\ e.expiresAt \in Nat
        BY KeysAssumption DEF StalenessInv, TypeOK, History, Entry
  <2>2. e.ver < ver[TableOf[k]]  BY <1>2 DEF Stale
  <2>3. OutdatedAt(k, e.ver) \in Nat  BY <2>1, <2>2, NextVersion DEF OutdatedAt
  <2>4. now < e.expiresAt /\ e.expiresAt <= OutdatedAt(k, e.ver) + b
        BY <1>2, <2>2 DEF Live, EntryBound, OutdatedAt
  <2>. QED  BY <1>1, <1>2, <2>1, <2>3, <2>4
<1>3. ASSUME NEW k \in Keys
      PROVE  /\ l2[k] \in Entry
             /\ EntryBound(l2[k], now, ver[TableOf[k]], commitAt[TableOf[k]], L2Bound)
             /\ \A i \in Instances :
                   /\ l1[i][k] \in Entry
                   /\ EntryBound(l1[i][k], now, ver[TableOf[k]], commitAt[TableOf[k]], L1Bound)
      BY DEF StalenessInv, TypeOK, L1Inv, L2Inv
<1>. QED  BY <1>1, <1>2, <1>3 DEF BoundedStaleness

\* Whatever fails and however the handlers interleave, no cache serves a
\* response longer than its bound after the commit that outdated it.
THEOREM StalenessBounded == Spec => []BoundedStaleness
<1>. QED  BY StalenessInit, StalenessStep, StalenessImplied, PTL DEF Spec
=============================================================================
