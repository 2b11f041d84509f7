-------------------- MODULE TieredCacheInvalidationProofs --------------------
(***************************************************************************)
(* Proofs about invalidations, for every value of the constants.           *)
(*                                                                         *)
(* First: an invalidation leaves nothing behind but what overtaken reads   *)
(* store too late (ClearedStaysFresh).  The property speaks of completed   *)
(* invalidations only.  What makes it inductive is what holds while a SCAN *)
(* runs: every entry that is older than the SCAN and was current when      *)
(* stored is still to be returned, or returned and still to be deleted.    *)
(*                                                                         *)
(* Second: an instance's own changes are invalidated before their requests *)
(* are answered (OwnWritesCleared), if a handler learns what its statement *)
(* did: neither the reply of a statement nor, on MySQL, the re-read may    *)
(* fail.  (Without that the property is false; see the run                 *)
(* TieredCacheMySqlRequery.)  The property is about the times when no      *)
(* request is in flight.  What makes it inductive names the handler that   *)
(* still owes the invalidation.                                            *)
(***************************************************************************)
EXTENDS TieredCacheProofs

\* An entry that was current when it was stored, and is older than v.
Leftover(e, v) == Live(e) /\ ~e.late /\ e.ver < v

L1Clean == \A i \in Instances, k \in Keys : ~Leftover(l1[i][k], cleared1[i][TableOf[k]])

L2Clean == \A k \in Keys : ~Leftover(l2[k], cleared2[TableOf[k]])

\* No invalidation is ahead of the table it invalidates.
NotAhead ==
    /\ \A t \in Tables : cleared2[t] <= ver[t]
    /\ \A i \in Instances, t \in Tables : cleared1[i][t] <= ver[t]
    /\ \A w \in Writers : writer[w].pc = "scan" => writer[w].base <= ver[writer[w].table]

\* What a SCAN that has begun has still to remove.
ScanCovers == \A w \in Writers :
    writer[w].pc = "scan" =>
        /\ writer[w].pages < MaxPages =>
             \A k \in Keys :
                TableOf[k] = writer[w].table /\ Leftover(l2[k], writer[w].base)
                   => k \in writer[w].todo \cup writer[w].hits
        /\ writer[w].pages = 0 => writer[w].todo = {}

\* A handler that has not reached its SCAN has not begun it.
ScanAhead == \A w \in Writers :
    writer[w].pc \in {"exec", "requery", "clear"} =>
        writer[w].pages = MaxPages /\ writer[w].base = 0

FreshInv == TypeOK /\ ItemsLeft /\ L1Clean /\ L2Clean /\ NotAhead /\ ScanCovers /\ ScanAhead

-----------------------------------------------------------------------------
LEMMA AbsentClean == \A v : TypeOK => ~Leftover(Absent, v)
BY DEF Leftover, Live, Absent, TypeOK

\* What is stored late is marked, so a new entry is no leftover.
LEMMA NewEntryClean ==
    ASSUME FreshInv, NEW k \in Keys, NEW v \in Versions, NEW c \in Versions,
           c <= ver[TableOf[k]]
    PROVE  ~Leftover(NewEntry(k, v), c)
<1>1. ver[TableOf[k]] \in Versions  BY KeysAssumption DEF FreshInv, TypeOK
<1>2. v < ver[TableOf[k]] => NewEntry(k, v).late  BY DEF NewEntry
<1>3. NewEntry(k, v).ver = v  BY DEF NewEntry
<1>4. v < c => v < ver[TableOf[k]]  BY <1>1, BoundsAssumption DEF Versions
<1>. QED  BY <1>2, <1>3, <1>4 DEF Leftover

\* Entries that only disappear or are new leave the caches clean.
LEMMA L1CleanFrame ==
    ASSUME FreshInv, UNCHANGED <<now, ver, cleared1>>,
           \A i \in Instances, k \in Keys :
              \/ l1'[i][k] = l1[i][k]
              \/ l1'[i][k] = Absent
              \/ \E v \in Versions : l1'[i][k] = NewEntry(k, v)
    PROVE  L1Clean'
<1>. SUFFICES ASSUME NEW i \in Instances, NEW k \in Keys
              PROVE  ~Leftover(l1'[i][k], cleared1[i][TableOf[k]])
     BY DEF L1Clean, Leftover, Live
<1>1. TableOf[k] \in Tables /\ cleared1[i][TableOf[k]] \in Versions
      BY KeysAssumption DEF FreshInv, TypeOK
<1>2. cleared1[i][TableOf[k]] <= ver[TableOf[k]]
      BY <1>1 DEF FreshInv, NotAhead
<1>3. CASE l1'[i][k] = l1[i][k]  BY <1>3 DEF FreshInv, L1Clean
<1>4. CASE l1'[i][k] = Absent  BY <1>4, AbsentClean DEF FreshInv
<1>5. CASE \E v \in Versions : l1'[i][k] = NewEntry(k, v)
      BY <1>1, <1>2, <1>5, NewEntryClean
<1>. QED  BY <1>3, <1>4, <1>5

LEMMA L2CleanFrame ==
    ASSUME FreshInv, UNCHANGED <<now, ver, cleared2>>,
           \A k \in Keys :
              \/ l2'[k] = l2[k]
              \/ l2'[k] = Absent
              \/ \E v \in Versions : l2'[k] = NewEntry(k, v)
    PROVE  L2Clean'
<1>. SUFFICES ASSUME NEW k \in Keys
              PROVE  ~Leftover(l2'[k], cleared2[TableOf[k]])
     BY DEF L2Clean, Leftover, Live
<1>1. TableOf[k] \in Tables /\ cleared2[TableOf[k]] \in Versions
      BY KeysAssumption DEF FreshInv, TypeOK
<1>2. cleared2[TableOf[k]] <= ver[TableOf[k]]
      BY <1>1 DEF FreshInv, NotAhead
<1>3. CASE l2'[k] = l2[k]  BY <1>3 DEF FreshInv, L2Clean
<1>4. CASE l2'[k] = Absent  BY <1>4, AbsentClean DEF FreshInv
<1>5. CASE \E v \in Versions : l2'[k] = NewEntry(k, v)
      BY <1>1, <1>2, <1>5, NewEntryClean
<1>. QED  BY <1>3, <1>4, <1>5

\* Nothing that is stored while a SCAN runs is left to that SCAN.
LEMMA CoverFrame ==
    ASSUME FreshInv, UNCHANGED <<now, ver, writer>>,
           \A k \in Keys :
              \/ l2'[k] = l2[k]
              \/ \E v \in Versions : l2'[k] = NewEntry(k, v)
    PROVE  ScanCovers'
<1>. SUFFICES ASSUME NEW w \in Writers, writer[w].pc = "scan", writer[w].pages < MaxPages,
                     NEW k \in Keys, TableOf[k] = writer[w].table,
                     Leftover(l2'[k], writer[w].base)
              PROVE  k \in writer[w].todo \cup writer[w].hits
     BY DEF ScanCovers, Leftover, Live, FreshInv
<1>1. writer[w].base \in Versions
      BY BusyWriters DEF FreshInv, BusyWriter
<1>2. writer[w].base <= ver[TableOf[k]]  BY DEF FreshInv, NotAhead
<1>3. l2'[k] = l2[k]  BY <1>1, <1>2, NewEntryClean
<1>. QED  BY <1>3 DEF FreshInv, ScanCovers

-----------------------------------------------------------------------------
\* The steps of a GET handler.
LEMMA ReaderFresh ==
    ASSUME FreshInv, NEW r \in Readers, ReaderStep(r)
    PROVE  L1Clean' /\ L2Clean' /\ NotAhead' /\ ScanCovers' /\ ScanAhead'
<1>. USE DEF db, cleared
<1>1. TypeOK /\ UNCHANGED <<now, ver, writer, cleared1, cleared2>>
      BY DEF FreshInv, ReaderStep, L2Hit, L2Miss, Backfill, Select, AnswerUncached,
             Count, CountFails, Fill, L2Set, L2SetFails
<1>2. reader[r].pc # "idle" => reader[r] \in BusyReader  BY <1>1, BusyReaders
<1>3. NotAhead' /\ ScanAhead'  BY <1>1 DEF FreshInv, NotAhead, ScanAhead
<1>4. CASE Backfill(r) \/ Fill(r)
  <2>1. /\ L1Put(reader[r].inst, reader[r].key, reader[r].ver)
        /\ reader[r].pc # "idle" /\ l2' = l2
        BY <1>4 DEF Backfill, Fill
  <2>2. \A j \in Instances, x \in Keys :
           \/ l1'[j][x] = l1[j][x]
           \/ l1'[j][x] = Absent
           \/ x = reader[r].key /\ l1'[j][x] = NewEntry(reader[r].key, reader[r].ver)
        BY <1>1, <1>2, <2>1, L1PutEffect DEF BusyReader
  <2>3. reader[r].ver \in Versions  BY <1>2, <2>1 DEF BusyReader
  <2>4. L1Clean'  BY <1>1, <2>2, <2>3, L1CleanFrame
  <2>. QED  BY <1>1, <1>3, <2>1, <2>4, L2CleanFrame, CoverFrame
<1>5. CASE L2Set(r)
  <2>1. /\ l2' = [l2 EXCEPT ![reader[r].key] = NewEntry(reader[r].key, reader[r].ver)]
        /\ l1' = l1
        BY <1>5 DEF L2Set
  <2>2. reader[r].ver \in Versions /\ reader[r].key \in Keys
        BY <1>2, <1>5 DEF L2Set, BusyReader
  <2>3. l2 \in [Keys -> Entry]  BY <1>1 DEF TypeOK
  <2>4. \A x \in Keys : \/ l2'[x] = l2[x]
                        \/ \E v \in Versions : l2'[x] = NewEntry(x, v)
        BY <2>1, <2>2, <2>3
  <2>. QED  BY <1>1, <1>3, <2>1, <2>4, L1CleanFrame, L2CleanFrame, CoverFrame
<1>6. CASE L2Hit(r) \/ L2Miss(r) \/ Select(r) \/ AnswerUncached(r) \/ Count(r)
              \/ CountFails(r) \/ L2SetFails(r)
  <2>1. UNCHANGED <<l1, l2>>
        BY <1>6 DEF L2Hit, L2Miss, Select, AnswerUncached, Count, CountFails, L2SetFails
  <2>. QED  BY <1>1, <1>3, <2>1, L1CleanFrame, L2CleanFrame, CoverFrame
<1>. QED  BY <1>4, <1>5, <1>6 DEF ReaderStep

\* The steps of a statement: nothing is stored or removed.
LEMMA StatementFresh ==
    ASSUME FreshInv, NEW w \in Writers, writer[w].pc \in {"exec", "requery"},
           \A x \in Writers : x # w => writer'[x] = writer[x],
           writer'[w].pc \in {"idle", "exec", "requery", "clear"},
           writer'[w].pc # "idle" => /\ writer'[w].pages = writer[w].pages
                                    /\ writer'[w].base = writer[w].base,
           UNCHANGED <<now, l1, l2, cleared1, cleared2>>,
           \A t \in Tables : ver[t] <= ver'[t] /\ ver'[t] \in Versions
    PROVE  L1Clean' /\ L2Clean' /\ NotAhead' /\ ScanCovers' /\ ScanAhead'
<1>1. writer \in [Writers -> WriterState] /\ ver \in [Tables -> Versions]
      BY DEF FreshInv, TypeOK, WriterState
<1>2. L1Clean' /\ L2Clean'  BY DEF FreshInv, L1Clean, L2Clean, Leftover, Live
<1>3. \A n \in Versions, t \in Tables : n <= ver[t] => n <= ver'[t]
      BY <1>1, BoundsAssumption DEF Versions
<1>4. NotAhead'
  <2>1. \A t \in Tables : cleared2[t] <= ver'[t]
        BY <1>3 DEF FreshInv, NotAhead, TypeOK
  <2>2. \A i \in Instances, t \in Tables : cleared1[i][t] <= ver'[t]
        BY <1>3 DEF FreshInv, NotAhead, TypeOK
  <2>3. ASSUME NEW x \in Writers, writer'[x].pc = "scan"
        PROVE  writer'[x].base <= ver'[writer'[x].table]
    <3>1. writer'[x] = writer[x]  BY <2>3
    <3>2. writer[x].base \in Versions /\ writer[x].table \in Tables
          BY <2>3, <3>1, BusyWriters DEF FreshInv, BusyWriter
    <3>. QED  BY <1>3, <2>3, <3>1, <3>2 DEF FreshInv, NotAhead
  <2>. QED  BY <2>1, <2>2, <2>3 DEF NotAhead
<1>5. ScanCovers'  BY DEF FreshInv, ScanCovers, Leftover, Live
<1>6. ScanAhead'  BY DEF FreshInv, ScanAhead
<1>. QED  BY <1>2, <1>4, <1>5, <1>6

\* The outcomes of a statement keep what ScanAhead says of its handler.
LEMMA OutcomeAhead ==
    ASSUME NEW job \in BusyWriter, job.pc \in {"exec", "requery"},
           NEW out \in {Succeed(job), Fail(job), [job EXCEPT !.pc = "requery"]}
    PROVE  /\ out.pc \in {"idle", "exec", "requery", "clear"}
           /\ out.pc # "idle" => out.pages = job.pages /\ out.base = job.base
<1>1. /\ NextItem(job).pc \in {"exec", "clear"}
      /\ NextItem(job).pages = job.pages /\ NextItem(job).base = job.base
      BY DEF NextItem, BusyWriter
<1>2. \A p \in {"clear", "requery"} :
         /\ [job EXCEPT !.pc = p].pc = p
         /\ [job EXCEPT !.pc = p].pages = job.pages /\ [job EXCEPT !.pc = p].base = job.base
      BY DEF BusyWriter
<1>3. out \in {NextItem(job), [job EXCEPT !.pc = "clear"], [job EXCEPT !.pc = "requery"],
               IdleWriter}
      BY DEF Succeed, Fail
<1>4. CASE out = NextItem(job)  BY <1>1, <1>4
<1>5. CASE out = [job EXCEPT !.pc = "clear"]  BY <1>2, <1>5
<1>6. CASE out = [job EXCEPT !.pc = "requery"]  BY <1>2, <1>6
<1>7. CASE out = IdleWriter  BY <1>7 DEF IdleWriter
<1>. QED  BY <1>3, <1>4, <1>5, <1>6, <1>7

\* The removal of the table's keys from L1.
LEMMA ClearFresh ==
    ASSUME FreshInv, NEW w \in Writers, ClearL1(w)
    PROVE  L1Clean' /\ L2Clean' /\ NotAhead' /\ ScanCovers' /\ ScanAhead'
<1>. DEFINE out == IF RedisEnabled THEN [writer[w] EXCEPT !.pc = "scan"] ELSE IdleWriter
<1>1. /\ writer[w] \in BusyWriter /\ writer[w].pages = MaxPages /\ writer[w].base = 0
      /\ writer[w].pc = "clear"
      BY BusyWriters DEF FreshInv, ScanAhead, ClearL1
<1>2. writer \in [Writers -> WriterState] /\ ver \in [Tables -> Versions]
      BY DEF FreshInv, TypeOK, WriterState
<1>3. writer' = [writer EXCEPT ![w] = out] /\ UNCHANGED <<now, ver, l2, cleared2>>
      BY DEF ClearL1, db
<1>4. \A x \in Writers : x # w => writer'[x] = writer[x]  BY <1>2, <1>3
<1>5. /\ writer'[w].pc \in {"idle", "scan"}
      /\ writer'[w].pc = "scan" => /\ writer'[w].pages = MaxPages /\ writer'[w].base = 0
                                   /\ writer'[w].table = writer[w].table
  <2>1. writer'[w] = out  BY <1>2, <1>3
  <2>2. CASE RedisEnabled  BY <1>1, <2>1, <2>2 DEF BusyWriter
  <2>3. CASE ~RedisEnabled  BY <2>1, <2>3 DEF IdleWriter
  <2>. QED  BY <2>2, <2>3
<1>6. \A i \in Instances, k \in Keys :
         l1'[i][k] = Absent
         \/ (l1'[i][k] = l1[i][k] /\ cleared1'[i][TableOf[k]] = cleared1[i][TableOf[k]])
      BY KeysAssumption DEF ClearL1, FreshInv, TypeOK, KeysOf
<1>7. L1Clean'
  <2>. SUFFICES ASSUME NEW i \in Instances, NEW k \in Keys
                PROVE  ~(/\ now < l1'[i][k].expiresAt /\ ~l1'[i][k].late
                         /\ l1'[i][k].ver < cleared1'[i][TableOf[k]])
       BY <1>3 DEF L1Clean, Leftover, Live
  <2>1. CASE l1'[i][k] = Absent  BY <2>1 DEF Absent, FreshInv, TypeOK
  <2>2. CASE /\ l1'[i][k] = l1[i][k]
             /\ cleared1'[i][TableOf[k]] = cleared1[i][TableOf[k]]
        BY <1>3, <2>2 DEF FreshInv, L1Clean, Leftover, Live
  <2>. QED  BY <1>6, <2>1, <2>2
<1>8. L2Clean'  BY <1>3 DEF FreshInv, L2Clean, Leftover, Live
<1>9. NotAhead'
  <2>1. ASSUME NEW i \in Instances, NEW t \in Tables
        PROVE  cleared1'[i][t] <= ver[t]
    <3>1. cleared1'[i][t] = cleared1[i][t] \/ cleared1'[i][t] = ver[t]
          BY DEF ClearL1, FreshInv, TypeOK
    <3>2. ver[t] <= ver[t]  BY <1>2, BoundsAssumption DEF Versions
    <3>. QED  BY <3>1, <3>2 DEF FreshInv, NotAhead
  <2>2. ASSUME NEW x \in Writers, writer'[x].pc = "scan"
        PROVE  writer'[x].base <= ver[writer'[x].table]
    <3>1. CASE x = w
          BY <1>1, <1>2, <1>5, <2>2, <3>1, BoundsAssumption DEF BusyWriter, Versions
    <3>2. CASE x # w  BY <1>4, <2>2, <3>2 DEF FreshInv, NotAhead
    <3>. QED  BY <3>1, <3>2
  <2>. QED  BY <1>3, <2>1, <2>2 DEF FreshInv, NotAhead
<1>10. ScanCovers'
       BY <1>3, <1>4, <1>5, BoundsAssumption DEF FreshInv, ScanCovers, Leftover, Live
<1>11. ScanAhead'  BY <1>4, <1>5 DEF FreshInv, ScanAhead
<1>. QED  BY <1>7, <1>8, <1>9, <1>10, <1>11

\* One reply of a SCAN: what it does not return is still due.
LEMMA PageFresh ==
    ASSUME FreshInv, NEW w \in Writers, ScanPage(w)
    PROVE  L1Clean' /\ L2Clean' /\ NotAhead' /\ ScanCovers' /\ ScanAhead'
<1>. DEFINE job   == writer[w]
            there == L2Keys(job.table)
            due   == IF job.pages = MaxPages THEN there ELSE job.todo
            base  == IF job.pages = MaxPages THEN ver[job.table] ELSE job.base
<1>1. /\ job \in BusyWriter /\ job.pc = "scan" /\ job.hits = {} /\ job.pages > 0
      /\ UNCHANGED <<now, ver, l1, l2, cleared1, cleared2>>
      BY BusyWriters DEF FreshInv, ScanPage, db, cleared
<1>2. PICK page \in SUBSET there, left \in {0, job.pages - 1} :
         /\ left = 0 => due \subseteq page
         /\ writer' = [writer EXCEPT ![w] =
                [@ EXCEPT !.pages = left, !.base = base, !.todo = due \ page, !.hits = page]]
      BY DEF ScanPage, NextPages
<1>3. writer \in [Writers -> WriterState] /\ ver \in [Tables -> Versions]
      BY DEF FreshInv, TypeOK, WriterState
<1>4. \A x \in Writers : x # w => writer'[x] = writer[x]  BY <1>2, <1>3
<1>5. writer'[w] = [job EXCEPT !.pages = left, !.base = base, !.todo = due \ page,
                               !.hits = page]
      BY <1>2, <1>3
<1>6. /\ writer'[w].pc = "scan" /\ writer'[w].table = job.table
      /\ writer'[w].pages = left /\ writer'[w].base = base
      /\ writer'[w].todo = due \ page /\ writer'[w].hits = page
      BY <1>1, <1>5 DEF BusyWriter
<1>7. /\ job.table \in Tables /\ job.base \in Versions /\ job.pages \in 0..MaxPages
      BY <1>1 DEF BusyWriter
<1>8. base <= ver[job.table]
      BY <1>1, <1>3, <1>7, BoundsAssumption DEF FreshInv, NotAhead, Versions
<1>9. ASSUME NEW k \in Keys, TableOf[k] = job.table, Leftover(l2[k], base)
      PROVE  k \in due
  <2>1. CASE job.pages = MaxPages
        BY <1>9, <2>1 DEF L2Keys, KeysOf, Leftover
  <2>2. CASE job.pages # MaxPages
    <3>1. job.pages < MaxPages  BY <1>7, <2>2, BoundsAssumption
    <3>. QED  BY <1>1, <1>9, <2>2, <3>1 DEF FreshInv, ScanCovers
  <2>. QED  BY <2>1, <2>2
<1>. HIDE DEF job, there, due, base
<1>10. L1Clean' /\ L2Clean'  BY <1>1 DEF FreshInv, L1Clean, L2Clean, Leftover, Live
<1>11. NotAhead'  BY <1>1, <1>4, <1>6, <1>8 DEF FreshInv, NotAhead
<1>12. ScanCovers'
  <2>1. ASSUME NEW k \in Keys, TableOf[k] = job.table, Leftover(l2[k], base)
        PROVE  k \in (due \ page) \cup page
        BY <1>9, <2>1
  <2>2. left = 0 => due \ page = {}  BY <1>2
  <2>3. ASSUME NEW x \in Writers, x # w, writer'[x].pc = "scan"
        PROVE  /\ writer'[x].pages < MaxPages =>
                    \A k \in Keys :
                       TableOf[k] = writer'[x].table /\ Leftover(l2[k], writer'[x].base)
                          => k \in writer'[x].todo \cup writer'[x].hits
               /\ writer'[x].pages = 0 => writer'[x].todo = {}
        BY <1>4, <2>3 DEF FreshInv, ScanCovers
  <2>. QED  BY <1>1, <1>6, <2>1, <2>2, <2>3 DEF ScanCovers, Leftover, Live
<1>13. ScanAhead'  BY <1>4, <1>6 DEF FreshInv, ScanAhead
<1>. QED  BY <1>10, <1>11, <1>12, <1>13

\* One DEL: the key leaves what every running SCAN has to return.
LEMMA DelFresh ==
    ASSUME FreshInv, NEW w \in Writers, DelKey(w)
    PROVE  L1Clean' /\ L2Clean' /\ NotAhead' /\ ScanCovers' /\ ScanAhead'
<1>1. PICK d \in writer[w].hits :
         /\ l2' = [l2 EXCEPT ![d] = Absent]
         /\ writer' = [x \in Writers |->
                IF writer[x].pc # "scan" THEN writer[x]
                ELSE [writer[x] EXCEPT !.todo = @ \ {d},
                                       !.hits = IF x = w THEN @ \ {d} ELSE @]]
      BY DEF DelKey
<1>2. UNCHANGED <<now, ver, l1, cleared1, cleared2>>  BY DEF DelKey, db, cleared
<1>3. \A x \in Writers : writer[x].pc = "scan" => writer[x] \in BusyWriter
      BY BusyWriters DEF FreshInv
<1>4. ASSUME NEW x \in Writers, writer[x].pc = "scan"
      PROVE  /\ writer'[x].pc = "scan" /\ writer'[x].table = writer[x].table
             /\ writer'[x].pages = writer[x].pages /\ writer'[x].base = writer[x].base
             /\ writer'[x].todo = writer[x].todo \ {d}
             /\ writer[x].hits \ {d} \subseteq writer'[x].hits
      BY <1>1, <1>3, <1>4 DEF BusyWriter
<1>5. \A x \in Writers : writer[x].pc # "scan" => writer'[x] = writer[x]
      BY <1>1
<1>6. l2 \in [Keys -> Entry]  BY DEF FreshInv, TypeOK
<1>7. \A k \in Keys : l2'[k] = l2[k] \/ l2'[k] = Absent  BY <1>1, <1>6
<1>8. L1Clean'  BY <1>2 DEF FreshInv, L1Clean, Leftover, Live
<1>9. L2Clean'  BY <1>2, <1>7, L2CleanFrame
<1>10. NotAhead'  BY <1>2, <1>4, <1>5 DEF FreshInv, NotAhead
<1>11. ScanCovers'
  <2>1. ASSUME NEW x \in Writers, writer[x].pc = "scan", writer[x].pages < MaxPages,
               NEW k \in Keys, TableOf[k] = writer[x].table,
               Leftover(l2'[k], writer[x].base)
        PROVE  k \in writer'[x].todo \cup writer'[x].hits
    <3>1. l2'[k] # Absent  BY <2>1, AbsentClean DEF FreshInv
    <3>2. k # d /\ l2'[k] = l2[k]  BY <1>1, <1>6, <1>7, <3>1
    <3>3. k \in writer[x].todo \cup writer[x].hits
          BY <2>1, <3>2 DEF FreshInv, ScanCovers
    <3>. QED  BY <1>4, <2>1, <3>2, <3>3
  <2>2. ASSUME NEW x \in Writers, writer[x].pc = "scan", writer[x].pages = 0
        PROVE  writer'[x].todo = {}
        BY <1>4, <2>2 DEF FreshInv, ScanCovers
  <2>3. ASSUME NEW x \in Writers, writer'[x].pc = "scan"
        PROVE  writer[x].pc = "scan"
        BY <1>5, <2>3
  <2>. QED  BY <1>2, <1>4, <2>1, <2>2, <2>3 DEF ScanCovers, Leftover, Live
<1>12. ScanAhead'
  <2>1. \A x \in Writers : writer'[x].pc \in {"exec", "requery", "clear"}
                               => writer'[x] = writer[x]
        BY <1>4, <1>5
  <2>. QED  BY <2>1 DEF FreshInv, ScanAhead
<1>. QED  BY <1>8, <1>9, <1>10, <1>11, <1>12

\* The end of a SCAN: what it had to remove is removed.
LEMMA DoneFresh ==
    ASSUME FreshInv, NEW w \in Writers, ScanDone(w) \/ ScanFails(w)
    PROVE  L1Clean' /\ L2Clean' /\ NotAhead' /\ ScanCovers' /\ ScanAhead'
<1>1. /\ writer' = [writer EXCEPT ![w] = IdleWriter] /\ writer[w].pc = "scan"
      /\ UNCHANGED <<now, ver, l1, l2, cleared1>>
      BY DEF ScanDone, ScanFails, db, cleared
<1>2. writer \in [Writers -> WriterState] /\ cleared2 \in [Tables -> Versions]
      BY DEF FreshInv, TypeOK, WriterState
<1>3. writer[w] \in BusyWriter  BY <1>1, BusyWriters DEF FreshInv
<1>4. /\ \A x \in Writers : x # w => writer'[x] = writer[x]
      /\ writer'[w].pc = "idle"
      BY <1>1, <1>2 DEF IdleWriter
<1>. DEFINE t == writer[w].table
            b == writer[w].base
<1>5. t \in Tables /\ b \in Versions  BY <1>3 DEF BusyWriter
<1>6. \A u \in Tables : \/ cleared2'[u] = cleared2[u]
                        \/ u = t /\ cleared2'[u] = b /\ ScanDone(w)
      BY <1>2, <1>5 DEF ScanDone, ScanFails, cleared
<1>7. ASSUME ScanDone(w), NEW k \in Keys, TableOf[k] = t
      PROVE  ~Leftover(l2[k], b)
  <2>1. writer[w].pages = 0 /\ writer[w].hits = {} /\ writer[w].pages < MaxPages
        BY <1>7, BoundsAssumption DEF ScanDone
  <2>. QED  BY <1>1, <1>7, <2>1 DEF FreshInv, ScanCovers
<1>. HIDE DEF t, b
<1>8. L1Clean'  BY <1>1 DEF FreshInv, L1Clean, Leftover, Live
<1>9. L2Clean'
  <2>. SUFFICES ASSUME NEW k \in Keys PROVE ~Leftover(l2[k], cleared2'[TableOf[k]])
       BY <1>1 DEF L2Clean, Leftover, Live
  <2>1. TableOf[k] \in Tables  BY KeysAssumption
  <2>. QED  BY <1>6, <1>7, <2>1 DEF FreshInv, L2Clean
<1>10. NotAhead'
  <2>1. b <= ver[t]  BY <1>1 DEF FreshInv, NotAhead, t, b
  <2>2. \A u \in Tables : cleared2'[u] <= ver[u]
        BY <1>6, <2>1 DEF FreshInv, NotAhead
  <2>. QED  BY <1>1, <1>4, <2>2 DEF FreshInv, NotAhead
<1>11. ScanCovers'  BY <1>1, <1>4 DEF FreshInv, ScanCovers, Leftover, Live
<1>12. ScanAhead'  BY <1>4 DEF FreshInv, ScanAhead
<1>. QED  BY <1>8, <1>9, <1>10, <1>11, <1>12

\* The passing of time: a key that expires is no leftover.
LEMMA TickFresh ==
    ASSUME FreshInv, Tick
    PROVE  L1Clean' /\ L2Clean' /\ NotAhead' /\ ScanCovers' /\ ScanAhead'
<1>1. /\ now \in Nat /\ now' = now + 1
      /\ UNCHANGED <<ver, l1, cleared1, cleared2>>
      /\ \A k \in Keys : l2'[k] = IF now' < l2[k].expiresAt THEN l2[k] ELSE Absent
      BY DEF Tick, FreshInv, TypeOK, db, cleared
<1>2. \A x \in Writers : writer[x].pc # "scan" => writer'[x] = writer[x]
      BY DEF Tick
<1>3. ASSUME NEW x \in Writers, writer[x].pc = "scan"
      PROVE  /\ writer'[x].pc = "scan" /\ writer'[x].table = writer[x].table
             /\ writer'[x].pages = writer[x].pages /\ writer'[x].base = writer[x].base
             /\ writer'[x].hits = writer[x].hits
             /\ writer'[x].todo = {k \in writer[x].todo : now' < l2[k].expiresAt}
  <2>1. writer[x] \in BusyWriter  BY <1>3, BusyWriters DEF FreshInv
  <2>2. writer'[x] = [writer[x] EXCEPT
                         !.todo = {k \in writer[x].todo : now' < l2[k].expiresAt}]
        BY <1>3 DEF Tick
  <2>. QED  BY <1>3, <2>1, <2>2 DEF BusyWriter
<1>4. \A e \in Entry : now' < e.expiresAt => now < e.expiresAt
      BY <1>1 DEF Entry
<1>5. /\ \A i \in Instances, k \in Keys : l1[i][k] \in Entry
      /\ \A k \in Keys : l2[k] \in Entry
      BY DEF FreshInv, TypeOK
<1>6. L1Clean'  BY <1>1, <1>4, <1>5 DEF FreshInv, L1Clean, Leftover, Live
<1>7. ASSUME NEW k \in Keys, NEW v, l2'[k].expiresAt > now', ~l2'[k].late, l2'[k].ver < v
      PROVE  now' < l2[k].expiresAt /\ Leftover(l2[k], v)
  <2>1. now' < l2[k].expiresAt
    <3>1. CASE now' < l2[k].expiresAt  BY <3>1
    <3>2. CASE ~(now' < l2[k].expiresAt)
      <4>1. l2'[k].expiresAt = 0  BY <1>1, <3>2 DEF Absent
      <4>. QED  BY <1>1, <1>7, <4>1
    <3>. QED  BY <3>1, <3>2
  <2>2. l2'[k] = l2[k]  BY <1>1, <2>1
  <2>. QED  BY <1>4, <1>5, <1>7, <2>1, <2>2 DEF Leftover, Live
<1>8. L2Clean'
  <2>. SUFFICES ASSUME NEW k \in Keys, Leftover(l2[k], cleared2[TableOf[k]])'
                PROVE  FALSE
       BY DEF L2Clean
  <2>1. now' < l2'[k].expiresAt /\ ~l2'[k].late /\ l2'[k].ver < cleared2[TableOf[k]]
        BY <1>1 DEF Leftover, Live
  <2>. QED  BY <1>7, <2>1 DEF FreshInv, L2Clean
<1>9. NotAhead'  BY <1>1, <1>2, <1>3 DEF FreshInv, NotAhead
<1>10. ScanCovers'
  <2>1. ASSUME NEW x \in Writers, writer[x].pc = "scan", writer[x].pages < MaxPages,
               NEW k \in Keys, TableOf[k] = writer[x].table,
               l2'[k].expiresAt > now', ~l2'[k].late, l2'[k].ver < writer[x].base
        PROVE  k \in writer'[x].todo \cup writer'[x].hits
    <3>1. now' < l2[k].expiresAt /\ Leftover(l2[k], writer[x].base)  BY <1>7, <2>1
    <3>2. k \in writer[x].todo \cup writer[x].hits
          BY <2>1, <3>1 DEF FreshInv, ScanCovers
    <3>. QED  BY <1>3, <2>1, <3>1, <3>2
  <2>2. \A x \in Writers : writer[x].pc = "scan" /\ writer[x].pages = 0
                               => writer'[x].todo = {}
        BY <1>3 DEF FreshInv, ScanCovers
  <2>3. \A x \in Writers : writer'[x].pc = "scan" => writer[x].pc = "scan"  BY <1>2
  <2>. QED  BY <1>3, <2>1, <2>2, <2>3 DEF ScanCovers, Leftover, Live
<1>11. ScanAhead'
  <2>1. \A x \in Writers : writer'[x].pc \in {"exec", "requery", "clear"}
                               => writer'[x] = writer[x]
        BY <1>2, <1>3
  <2>. QED  BY <2>1 DEF FreshInv, ScanAhead
<1>. QED  BY <1>6, <1>8, <1>9, <1>10, <1>11

LEMMA FreshStep == FreshInv /\ [Next]_vars => FreshInv'
<1>. SUFFICES ASSUME FreshInv, [Next]_vars
              PROVE  L1Clean' /\ L2Clean' /\ NotAhead' /\ ScanCovers' /\ ScanAhead'
     BY TypeStep DEF FreshInv
<1>. USE DEF db, cleared
<1>1. ASSUME NEW r \in Readers, NEW i \in Instances, NEW k \in Keys, StartGet(r, i, k)
      PROVE  L1Clean' /\ L2Clean' /\ NotAhead' /\ ScanCovers' /\ ScanAhead'
  <2>1. UNCHANGED <<now, ver, l2, writer, cleared1, cleared2>>  BY <1>1 DEF StartGet
  <2>2. \A j \in Instances, x \in Keys : l1'[j][x] = l1[j][x] \/ l1'[j][x] = Absent
        BY <1>1 DEF StartGet, FreshInv, TypeOK
  <2>3. NotAhead' /\ ScanAhead'  BY <2>1 DEF FreshInv, NotAhead, ScanAhead
  <2>. QED  BY <2>1, <2>2, <2>3, L1CleanFrame, L2CleanFrame, CoverFrame
<1>2. ASSUME NEW r \in Readers, ReaderStep(r)
      PROVE  L1Clean' /\ L2Clean' /\ NotAhead' /\ ScanCovers' /\ ScanAhead'
      BY <1>2, ReaderFresh
<1>3. ASSUME NEW w \in Writers, NEW i \in Instances, NEW t \in Tables, NEW op \in Ops,
             StartWrite(w, i, t, op)
      PROVE  L1Clean' /\ L2Clean' /\ NotAhead' /\ ScanCovers' /\ ScanAhead'
  <2>1. UNCHANGED <<now, ver, l1, l2, cleared1, cleared2>>  BY <1>3 DEF StartWrite
  <2>2. writer \in [Writers -> WriterState]  BY DEF FreshInv, TypeOK, WriterState
  <2>3. /\ \A x \in Writers : x # w => writer'[x] = writer[x]
        /\ writer'[w].pc \in {"clear", "exec"}
        /\ writer'[w].pages = MaxPages /\ writer'[w].base = 0
        BY <1>3, <2>2 DEF StartWrite
  <2>4. L1Clean' /\ L2Clean'  BY <2>1 DEF FreshInv, L1Clean, L2Clean, Leftover, Live
  <2>5. NotAhead'  BY <2>1, <2>3 DEF FreshInv, NotAhead
  <2>6. ScanCovers'  BY <2>1, <2>3 DEF FreshInv, ScanCovers, Leftover, Live
  <2>7. ScanAhead'  BY <2>3 DEF FreshInv, ScanAhead
  <2>. QED  BY <2>4, <2>5, <2>6, <2>7
<1>4. ASSUME NEW w \in Writers, WriterStep(w)
      PROVE  L1Clean' /\ L2Clean' /\ NotAhead' /\ ScanCovers' /\ ScanAhead'
  <2>1. writer[w].pc # "idle" => writer[w] \in BusyWriter  BY BusyWriters DEF FreshInv
  <2>2. ver \in [Tables -> Versions] /\ writer \in [Writers -> WriterState]
        BY DEF FreshInv, TypeOK, WriterState
  <2>3. CASE Commit(w) \/ CommitReplyLost(w)
    <3>1. PICK out \in {Succeed(writer[w]), Fail(writer[w]), [writer[w] EXCEPT !.pc = "requery"]} :
             writer' = [writer EXCEPT ![w] = out]
          BY <2>3 DEF Commit, CommitReplyLost
    <3>2. Change(w) /\ writer[w].pc = "exec" /\ UNCHANGED <<now, l1, l2, cleared1, cleared2>>
          BY <2>3 DEF Commit, CommitReplyLost
    <3>3. \A t \in Tables : ver[t] <= ver'[t] /\ ver'[t] \in Versions
          BY <2>2, <3>2, BoundsAssumption DEF Change, Versions
    <3>4. /\ out.pc \in {"idle", "exec", "requery", "clear"}
          /\ out.pc # "idle" => out.pages = writer[w].pages /\ out.base = writer[w].base
          BY <2>1, <3>1, <3>2, OutcomeAhead
    <3>5. writer'[w] = out /\ \A x \in Writers : x # w => writer'[x] = writer[x]
          BY <2>2, <3>1
    <3>. QED  BY <3>2, <3>3, <3>4, <3>5, StatementFresh
  <2>4. CASE NoEffect(w) \/ ExecFails(w) \/ Requery(w) \/ RequeryFails(w)
    <3>1. PICK out \in {Succeed(writer[w]), Fail(writer[w]), [writer[w] EXCEPT !.pc = "requery"]} :
             writer' = [writer EXCEPT ![w] = out]
          BY <2>4 DEF NoEffect, ExecFails, Requery, RequeryFails
    <3>2. /\ writer[w].pc \in {"exec", "requery"}
          /\ UNCHANGED <<now, ver, l1, l2, cleared1, cleared2>>
          BY <2>4 DEF NoEffect, ExecFails, Requery, RequeryFails
    <3>3. \A t \in Tables : ver[t] <= ver'[t] /\ ver'[t] \in Versions
          BY <2>2, <3>2, BoundsAssumption DEF Versions
    <3>4. /\ out.pc \in {"idle", "exec", "requery", "clear"}
          /\ out.pc # "idle" => out.pages = writer[w].pages /\ out.base = writer[w].base
          BY <2>1, <3>1, <3>2, OutcomeAhead
    <3>5. writer'[w] = out /\ \A x \in Writers : x # w => writer'[x] = writer[x]
          BY <2>2, <3>1
    <3>. QED  BY <3>2, <3>3, <3>4, <3>5, StatementFresh
  <2>5. CASE ClearL1(w)  BY <2>5, ClearFresh
  <2>6. CASE ScanPage(w)  BY <2>6, PageFresh
  <2>7. CASE DelKey(w)  BY <2>7, DelFresh
  <2>8. CASE ScanDone(w) \/ ScanFails(w)  BY <2>8, DoneFresh
  <2>. QED  BY <1>4, <2>3, <2>4, <2>5, <2>6, <2>7, <2>8 DEF WriterStep
<1>5. ASSUME NEW i \in Instances, Crash(i)
      PROVE  L1Clean' /\ L2Clean' /\ NotAhead' /\ ScanCovers' /\ ScanAhead'
  <2>1. UNCHANGED <<now, ver, l2, cleared2>>  BY <1>5 DEF Crash
  <2>2. \A w \in Writers : writer'[w] = writer[w] \/ writer'[w] = IdleWriter
        BY <1>5 DEF Crash
  <2>3. \A j \in Instances, k \in Keys :
           l1'[j][k] = Absent \/ (l1'[j][k] = l1[j][k] /\ cleared1'[j] = cleared1[j])
        BY <1>5 DEF Crash, FreshInv, TypeOK
  <2>4. L1Clean'
    <3>. SUFFICES ASSUME NEW j \in Instances, NEW k \in Keys
                  PROVE  ~Leftover(l1'[j][k], cleared1'[j][TableOf[k]])
         BY <2>1 DEF L1Clean, Leftover, Live
    <3>. QED  BY <2>3, AbsentClean DEF FreshInv, L1Clean
  <2>5. L2Clean'  BY <2>1 DEF FreshInv, L2Clean, Leftover, Live
  <2>6. \A j \in Instances, t \in Tables : cleared1'[j][t] <= ver[t]
    <3>1. \A j \in Instances, t \in Tables :
             cleared1'[j][t] = cleared1[j][t] \/ cleared1'[j][t] = ver[t]
          BY <1>5 DEF Crash, FreshInv, TypeOK
    <3>2. \A t \in Tables : ver[t] <= ver[t]
          BY BoundsAssumption DEF FreshInv, TypeOK, Versions
    <3>. QED  BY <3>1, <3>2 DEF FreshInv, NotAhead
  <2>7. NotAhead'
        BY <2>1, <2>2, <2>6 DEF FreshInv, NotAhead, IdleWriter
  <2>8. ScanCovers'  BY <2>1, <2>2 DEF FreshInv, ScanCovers, Leftover, Live, IdleWriter
  <2>9. ScanAhead'  BY <2>2 DEF FreshInv, ScanAhead, IdleWriter
  <2>. QED  BY <2>4, <2>5, <2>7, <2>8, <2>9
<1>6. CASE Tick  BY <1>6, TickFresh
<1>7. CASE UNCHANGED vars
      BY <1>7 DEF vars, FreshInv, L1Clean, L2Clean, NotAhead, ScanCovers, ScanAhead,
                  Leftover, Live
<1>. QED  BY <1>1, <1>2, <1>3, <1>4, <1>5, <1>6, <1>7 DEF Next

LEMMA FreshInit == Init => FreshInv
<1>. SUFFICES ASSUME Init PROVE FreshInv  OBVIOUS
<1>1. TypeOK /\ ItemsLeft  BY TypeInit
<1>2. L1Clean /\ L2Clean  BY KeysAssumption DEF Init, L1Clean, L2Clean, Leftover, Live, Absent
<1>3. NotAhead /\ ScanCovers /\ ScanAhead
      BY DEF Init, NotAhead, ScanCovers, ScanAhead, IdleWriter
<1>. QED  BY <1>1, <1>2, <1>3 DEF FreshInv

LEMMA FreshImplied == FreshInv => ClearedStaysFresh
<1>. SUFFICES ASSUME FreshInv PROVE ClearedStaysFresh  OBVIOUS
<1>1. ASSUME NEW e \in Entry, NEW c \in Versions, ~Leftover(e, c), Live(e), ~e.late
      PROVE  e.ver >= c
      BY <1>1, BoundsAssumption DEF Leftover, Entry, Versions
<1>2. ASSUME NEW k \in Keys
      PROVE  /\ l2[k] \in Entry /\ cleared2[TableOf[k]] \in Versions
             /\ ~Leftover(l2[k], cleared2[TableOf[k]])
             /\ \A i \in Instances :
                   /\ l1[i][k] \in Entry /\ cleared1[i][TableOf[k]] \in Versions
                   /\ ~Leftover(l1[i][k], cleared1[i][TableOf[k]])
      BY KeysAssumption DEF FreshInv, TypeOK, L1Clean, L2Clean
<1>. QED  BY <1>1, <1>2 DEF ClearedStaysFresh

\* A completed invalidation leaves behind only what overtaken reads store too
\* late, however it interleaves with fills, other invalidations and expiry.
THEOREM ClearedIsFresh == Spec => []ClearedStaysFresh
<1>. QED  BY FreshInit, FreshStep, FreshImplied, PTL DEF Spec

-----------------------------------------------------------------------------
(* Own changes are invalidated before they are answered *)


StatementsAnswer == "reply" \notin Faults /\ (MySql => "db" \notin Faults)

\* A handler that will come to its ClearL1, and thus has a table of an
\* instance still to invalidate.  A single statement that has not been
\* executed may yet fail, but a bulk request always gets there.
OwesClear(job, i, t) ==
    /\ job.pc \in {"exec", "requery", "clear"}
    /\ job.inst = i /\ job.table = t
    /\ job.pc = "exec" => job.op = "bulk"

\* A handler whose SCAN has not begun, or began after version v was committed.
OwesScan(job, i, t, v) ==
    /\ job.pc = "scan"
    /\ job.inst = i /\ job.table = t
    /\ job.pages = MaxPages \/ v <= job.base

ClearOwed == \A i \in Instances, t \in Tables :
    \/ committed[i][t] <= cleared1[i][t]
    \/ \E w \in Writers : OwesClear(writer[w], i, t)

RedisAnswers == RedisEnabled /\ "redis" \notin Faults

ScanOwed == RedisAnswers =>
    \A i \in Instances, t \in Tables :
        \/ committed[i][t] <= cleared2[t]
        \/ \E w \in Writers : \/ OwesClear(writer[w], i, t)
                              \/ OwesScan(writer[w], i, t, committed[i][t])

\* An instance's newest change is a change of the table.
CommittedExists == \A i \in Instances, t \in Tables : committed[i][t] <= ver[t]

\* Only MySQL reads rows back.
RequeryOnMySql == \A w \in Writers : writer[w].pc = "requery" => MySql

OwnInv == FreshInv /\ CommittedExists /\ RequeryOnMySql /\ ClearOwed /\ ScanOwed
-----------------------------------------------------------------------------
(* What a step has to do for the debts to be kept *)

\* For each instance and table, nothing changes and no handler is let off, or
\* the change is cleared, or some handler owes it.
LEMMA ClearOwedFrame ==
    ASSUME OwnInv,
           \A i \in Instances, t \in Tables :
              \/ /\ committed'[i][t] = committed[i][t]
                 /\ cleared1'[i][t] = cleared1[i][t]
                 /\ \A w \in Writers : OwesClear(writer[w], i, t)
                                          => OwesClear(writer'[w], i, t)
              \/ committed'[i][t] <= cleared1'[i][t]
              \/ \E w \in Writers : OwesClear(writer'[w], i, t)
    PROVE  ClearOwed'
<1>. SUFFICES ASSUME NEW i \in Instances, NEW t \in Tables
              PROVE  \/ committed'[i][t] <= cleared1'[i][t]
                     \/ \E w \in Writers : OwesClear(writer'[w], i, t)
     BY DEF ClearOwed, OwesClear
<1>1. \/ committed[i][t] <= cleared1[i][t]
      \/ \E w \in Writers : OwesClear(writer[w], i, t)
      BY DEF OwnInv, ClearOwed
<1>. QED  BY <1>1

LEMMA ScanOwedFrame ==
    ASSUME OwnInv,
           RedisAnswers => \A i \in Instances, t \in Tables :
              \/ /\ committed'[i][t] = committed[i][t]
                 /\ committed[i][t] <= cleared2[t] => committed[i][t] <= cleared2'[t]
                 /\ \A w \in Writers :
                       OwesClear(writer[w], i, t)
                       \/ OwesScan(writer[w], i, t, committed[i][t])
                         => OwesClear(writer'[w], i, t)
                            \/ OwesScan(writer'[w], i, t, committed[i][t])
              \/ committed'[i][t] <= cleared2'[t]
              \/ \E w \in Writers : OwesClear(writer'[w], i, t)
    PROVE  ScanOwed'
<1>. SUFFICES ASSUME RedisAnswers, NEW i \in Instances, NEW t \in Tables
              PROVE  \/ committed'[i][t] <= cleared2'[t]
                     \/ \E w \in Writers : \/ OwesClear(writer'[w], i, t)
                                           \/ OwesScan(writer'[w], i, t, committed'[i][t])
     BY DEF ScanOwed, OwesClear, OwesScan, RedisAnswers
<1>1. \/ committed[i][t] <= cleared2[t]
      \/ \E w \in Writers : \/ OwesClear(writer[w], i, t)
                            \/ OwesScan(writer[w], i, t, committed[i][t])
      BY DEF OwnInv, ScanOwed
<1>. QED  BY <1>1

\* A step that leaves the history alone, and every handler in debt.
LEMMA DebtsFrame ==
    ASSUME OwnInv, UNCHANGED <<committed, cleared1, cleared2>>,
           \A w \in Writers, i \in Instances, t \in Tables :
              /\ OwesClear(writer[w], i, t) => OwesClear(writer'[w], i, t)
              /\ RedisAnswers => \A v \in Versions :
                    OwesScan(writer[w], i, t, v) => OwesScan(writer'[w], i, t, v)
    PROVE  ClearOwed' /\ ScanOwed'
<1>1. \A i \in Instances, t \in Tables : committed[i][t] \in Versions
      BY DEF OwnInv, FreshInv, TypeOK
<1>2. ClearOwed'  BY ClearOwedFrame
<1>3. ScanOwed'  BY <1>1, ScanOwedFrame
<1>. QED  BY <1>2, <1>3

-----------------------------------------------------------------------------
(* The steps of a write handler *)

\* What has been executed is still to be invalidated, and so is a bulk
\* request after the failure of one of its items.
LEMMA OutcomeOwes ==
    ASSUME NEW job \in BusyWriter, job.pc \in {"exec", "requery"},
           NEW out, \/ out \in {Succeed(job), [job EXCEPT !.pc = "requery"]}
                    \/ out = Fail(job) /\ job.op = "bulk"
    PROVE  OwesClear(out, job.inst, job.table)
<1>1. /\ NextItem(job).pc \in {"exec", "clear"} /\ NextItem(job).op = job.op
      /\ NextItem(job).inst = job.inst /\ NextItem(job).table = job.table
      BY DEF NextItem, BusyWriter
<1>2. \A p \in {"clear", "requery"} :
         /\ [job EXCEPT !.pc = p].pc = p
         /\ [job EXCEPT !.pc = p].inst = job.inst /\ [job EXCEPT !.pc = p].table = job.table
      BY DEF BusyWriter
<1>3. \/ out = NextItem(job) /\ job.op = "bulk"
      \/ \E p \in {"clear", "requery"} : out = [job EXCEPT !.pc = p]
      BY DEF Succeed, Fail
<1>4. CASE out = NextItem(job) /\ job.op = "bulk"  BY <1>1, <1>4 DEF OwesClear
<1>5. CASE \E p \in {"clear", "requery"} : out = [job EXCEPT !.pc = p]
      BY <1>2, <1>5 DEF OwesClear
<1>. QED  BY <1>3, <1>4, <1>5

\* The statement is executed: its handler owes the invalidation.
LEMMA CommitOwn ==
    ASSUME OwnInv, NEW w \in Writers, Commit(w)
    PROVE  CommittedExists' /\ ClearOwed' /\ ScanOwed'
<1>1. writer[w] \in BusyWriter /\ writer[w].pc = "exec"
      BY BusyWriters DEF OwnInv, FreshInv, Commit
<1>2. writer \in [Writers -> WriterState]  BY DEF OwnInv, FreshInv, TypeOK, WriterState
<1>. DEFINE i0 == writer[w].inst
            t0 == writer[w].table
            v0 == ver[t0] + 1
<1>3. PICK out \in {Succeed(writer[w]), [writer[w] EXCEPT !.pc = "requery"]} :
         writer' = [writer EXCEPT ![w] = out]
      BY DEF Commit
<1>4. OwesClear(writer'[w], i0, t0) /\ \A x \in Writers : x # w => writer'[x] = writer[x]
      BY <1>1, <1>2, <1>3, OutcomeOwes
<1>5. /\ i0 \in Instances /\ t0 \in Tables /\ v0 \in Versions
      /\ ver' = [ver EXCEPT ![t0] = v0]
      /\ committed' = [committed EXCEPT ![i0][t0] = v0]
      /\ UNCHANGED <<cleared1, cleared2>>
      BY <1>1 DEF Commit, Change, BusyWriter, cleared
<1>6. /\ ver \in [Tables -> Versions]
      /\ committed \in [Instances -> [Tables -> Versions]]
      BY DEF OwnInv, FreshInv, TypeOK
<1>. HIDE DEF i0, t0, v0
<1>7. \A i \in Instances, t \in Tables :
         \/ committed'[i][t] = committed[i][t]
         \/ i = i0 /\ t = t0 /\ committed'[i][t] = v0
      BY <1>5, <1>6
<1>8. CommittedExists'
  <2>. SUFFICES ASSUME NEW i \in Instances, NEW t \in Tables
                PROVE  committed'[i][t] <= ver'[t]
       BY DEF CommittedExists
  <2>1. committed[i][t] <= ver[t] /\ committed[i][t] \in Int /\ ver[t] \in Int
        BY <1>6, BoundsAssumption DEF OwnInv, CommittedExists, Versions
  <2>2. CASE t = t0
    <3>1. ver'[t] = ver[t] + 1 /\ v0 = ver[t] + 1  BY <1>5, <1>6, <2>2 DEF v0
    <3>. QED  BY <1>7, <2>1, <3>1
  <2>3. CASE t # t0  BY <1>5, <1>6, <1>7, <2>1, <2>3
  <2>. QED  BY <2>2, <2>3
<1>9. ASSUME NEW x \in Writers, NEW i \in Instances, NEW t \in Tables, NEW v
      PROVE  /\ OwesClear(writer[x], i, t) => OwesClear(writer'[x], i, t)
             /\ OwesScan(writer[x], i, t, v) => OwesScan(writer'[x], i, t, v)
  <2>1. CASE x = w
    <3>1. ~OwesScan(writer[w], i, t, v)  BY <1>1 DEF OwesScan
    <3>2. OwesClear(writer[w], i, t) => i = i0 /\ t = t0  BY DEF OwesClear, i0, t0
    <3>. QED  BY <1>4, <2>1, <3>1, <3>2
  <2>2. CASE x # w  BY <1>4, <2>2
  <2>. QED  BY <2>1, <2>2
<1>10. ClearOwed'
  <2>1. \A i \in Instances, t \in Tables :
           committed'[i][t] = committed[i][t]
           \/ \E x \in Writers : OwesClear(writer'[x], i, t)
        BY <1>4, <1>7
  <2>. QED  BY <1>5, <1>9, <2>1, ClearOwedFrame
<1>11. ScanOwed'
  <2>1. \A i \in Instances, t \in Tables :
           committed'[i][t] = committed[i][t]
           \/ \E x \in Writers : OwesClear(writer'[x], i, t)
        BY <1>4, <1>7
  <2>. QED  BY <1>5, <1>9, <2>1, ScanOwedFrame
<1>. QED  BY <1>8, <1>10, <1>11

\* The other outcomes of a statement let nobody off: a single statement that
\* fails has changed nothing.
LEMMA OutcomeOwn ==
    ASSUME OwnInv, StatementsAnswer, NEW w \in Writers,
           NoEffect(w) \/ ExecFails(w) \/ Requery(w) \/ RequeryFails(w)
    PROVE  ClearOwed' /\ ScanOwed'
<1>1. /\ writer[w].pc \in {"exec", "requery"}
      /\ UNCHANGED <<committed, cleared1, cleared2>>
      /\ writer[w].pc = "requery" => Requery(w) \/ RequeryFails(w)
      BY DEF NoEffect, ExecFails, Requery, RequeryFails, db, cleared
<1>2. writer[w] \in BusyWriter  BY <1>1, BusyWriters DEF OwnInv, FreshInv
<1>3. writer \in [Writers -> WriterState]  BY DEF OwnInv, FreshInv, TypeOK, WriterState
<1>4. PICK out \in {Succeed(writer[w]), Fail(writer[w])} :
         /\ writer' = [writer EXCEPT ![w] = out]
         /\ writer[w].pc = "requery" => out = Succeed(writer[w])
      BY <1>1 DEF NoEffect, ExecFails, Requery, RequeryFails,
                  StatementsAnswer, OwnInv, RequeryOnMySql
<1>5. writer'[w] = out /\ \A x \in Writers : x # w => writer'[x] = writer[x]
      BY <1>3, <1>4
<1>6. ASSUME NEW x \in Writers, NEW i \in Instances, NEW t \in Tables
      PROVE  /\ OwesClear(writer[x], i, t) => OwesClear(writer'[x], i, t)
             /\ \A v \in Versions :
                   OwesScan(writer[x], i, t, v) => OwesScan(writer'[x], i, t, v)
  <2>1. CASE x = w
    <3>1. \A v : ~OwesScan(writer[w], i, t, v)  BY <1>1 DEF OwesScan
    <3>2. ASSUME OwesClear(writer[w], i, t) PROVE OwesClear(out, i, t)
      <4>1. /\ i = writer[w].inst /\ t = writer[w].table
            /\ writer[w].pc = "exec" => writer[w].op = "bulk"
            BY <3>2 DEF OwesClear
      <4>2. out = Succeed(writer[w]) \/ (out = Fail(writer[w]) /\ writer[w].op = "bulk")
            BY <1>1, <1>4, <4>1
      <4>3. \/ out \in {Succeed(writer[w]), [writer[w] EXCEPT !.pc = "requery"]}
            \/ out = Fail(writer[w]) /\ writer[w].op = "bulk"
            BY <4>2
      <4>. QED  BY <1>1, <1>2, <4>1, <4>3, OutcomeOwes
    <3>. QED  BY <1>5, <2>1, <3>1, <3>2
  <2>2. CASE x # w  BY <1>5, <2>2
  <2>. QED  BY <2>1, <2>2
<1>. QED  BY <1>1, <1>6, DebtsFrame

\* L1 is emptied: what is left to the handler is the SCAN.
LEMMA ClearOwn ==
    ASSUME OwnInv, NEW w \in Writers, ClearL1(w)
    PROVE  ClearOwed' /\ ScanOwed'
<1>. DEFINE i0  == writer[w].inst
            ts  == PrefixOf[writer[w].table]
            out == IF RedisEnabled THEN [writer[w] EXCEPT !.pc = "scan"] ELSE IdleWriter
<1>1. /\ writer[w] \in BusyWriter /\ writer[w].pc = "clear" /\ writer[w].pages = MaxPages
      BY BusyWriters DEF OwnInv, FreshInv, ScanAhead, ClearL1
<1>2. /\ writer \in [Writers -> WriterState]
      /\ cleared1 \in [Instances -> [Tables -> Versions]]
      BY DEF OwnInv, FreshInv, TypeOK, WriterState
<1>3. /\ writer' = [writer EXCEPT ![w] = out]
      /\ cleared1' = [cleared1 EXCEPT ![i0] =
                        [t \in Tables |-> IF t \in ts THEN ver[t] ELSE cleared1[i0][t]]]
      /\ UNCHANGED <<committed, cleared2>>
      BY <1>1, <1>2 DEF ClearL1, db, BusyWriter
<1>4. writer'[w] = out /\ \A x \in Writers : x # w => writer'[x] = writer[x]
      BY <1>2, <1>3
<1>5. i0 \in Instances /\ writer[w].table \in Tables /\ writer[w].table \in ts
      BY <1>1, TablesAssumption DEF BusyWriter
<1>6. RedisAnswers => \A v : OwesScan(out, i0, writer[w].table, v)
      BY <1>1 DEF RedisAnswers, OwesScan, BusyWriter
<1>7. \A i \in Instances, t \in Tables :
         /\ OwesClear(writer[w], i, t) => i = i0 /\ t = writer[w].table
         /\ \A v : ~OwesScan(writer[w], i, t, v)
      BY <1>1 DEF OwesClear, OwesScan
<1>8. \A i \in Instances, t \in Tables :
         \/ cleared1'[i][t] = cleared1[i][t] /\ ~(i = i0 /\ t \in ts)
         \/ cleared1'[i][t] = ver[t]
      BY <1>2, <1>3, <1>5
<1>. HIDE DEF i0, ts, out
<1>9. ClearOwed'
  <2>. SUFFICES ASSUME NEW i \in Instances, NEW t \in Tables
                PROVE  \/ /\ committed'[i][t] = committed[i][t]
                          /\ cleared1'[i][t] = cleared1[i][t]
                          /\ \A x \in Writers : OwesClear(writer[x], i, t)
                                                   => OwesClear(writer'[x], i, t)
                       \/ committed'[i][t] <= cleared1'[i][t]
       BY ClearOwedFrame
  <2>1. CASE cleared1'[i][t] = ver[t]
        BY <1>3, <2>1 DEF OwnInv, CommittedExists
  <2>2. CASE cleared1'[i][t] = cleared1[i][t] /\ ~(i = i0 /\ t \in ts)
    <3>1. ~OwesClear(writer[w], i, t)  BY <1>5, <1>7, <2>2
    <3>. QED  BY <1>3, <1>4, <2>2, <3>1
  <2>. QED  BY <1>8, <2>1, <2>2
<1>10. ScanOwed'
  <2>1. ASSUME RedisAnswers, NEW x \in Writers, NEW i \in Instances, NEW t \in Tables
        PROVE  OwesClear(writer[x], i, t) \/ OwesScan(writer[x], i, t, committed[i][t])
                 => \/ OwesClear(writer'[x], i, t)
                    \/ OwesScan(writer'[x], i, t, committed[i][t])
    <3>1. CASE x = w  BY <1>4, <1>6, <1>7, <2>1, <3>1
    <3>2. CASE x # w  BY <1>4, <3>2
    <3>. QED  BY <3>1, <3>2
  <2>. QED  BY <1>3, <2>1, ScanOwedFrame
<1>. QED  BY <1>9, <1>10

\* A SCAN begins at the version the table has, or goes on.
LEMMA PageOwn ==
    ASSUME OwnInv, NEW w \in Writers, ScanPage(w)
    PROVE  ClearOwed' /\ ScanOwed'
<1>. DEFINE job  == writer[w]
            base == IF job.pages = MaxPages THEN ver[job.table] ELSE job.base
<1>1. /\ job \in BusyWriter /\ job.pc = "scan"
      /\ UNCHANGED <<committed, cleared1, cleared2>>
      BY BusyWriters DEF OwnInv, FreshInv, ScanPage, db, cleared
<1>2. PICK left, todo, hits :
         writer' = [writer EXCEPT ![w] =
            [@ EXCEPT !.pages = left, !.base = base, !.todo = todo, !.hits = hits]]
      BY DEF ScanPage
<1>3. writer \in [Writers -> WriterState]  BY DEF OwnInv, FreshInv, TypeOK, WriterState
<1>4. /\ \A x \in Writers : x # w => writer'[x] = writer[x]
      /\ writer'[w].pc = "scan" /\ writer'[w].inst = job.inst
      /\ writer'[w].table = job.table /\ writer'[w].base = base
      BY <1>1, <1>2, <1>3 DEF BusyWriter
<1>5. ASSUME NEW i \in Instances, NEW t \in Tables,
             OwesScan(job, i, t, committed[i][t])
      PROVE  OwesScan(writer'[w], i, t, committed[i][t])
  <2>1. i = job.inst /\ t = job.table  BY <1>5 DEF OwesScan
  <2>2. committed[i][t] <= base
    <3>1. CASE job.pages = MaxPages  BY <2>1, <3>1 DEF OwnInv, CommittedExists
    <3>2. CASE job.pages # MaxPages  BY <1>5, <3>2 DEF OwesScan
    <3>. QED  BY <3>1, <3>2
  <2>. QED  BY <1>4, <2>1, <2>2 DEF OwesScan
<1>6. \A i \in Instances, t \in Tables : ~OwesClear(job, i, t)
      BY <1>1 DEF OwesClear
<1>. HIDE DEF base
<1>7. ClearOwed'
  <2>1. \A x \in Writers, i \in Instances, t \in Tables :
           OwesClear(writer[x], i, t) => OwesClear(writer'[x], i, t)
        BY <1>4, <1>6
  <2>. QED  BY <1>1, <2>1, ClearOwedFrame
<1>8. ScanOwed'
  <2>1. ASSUME NEW x \in Writers, NEW i \in Instances, NEW t \in Tables
        PROVE  OwesClear(writer[x], i, t) \/ OwesScan(writer[x], i, t, committed[i][t])
                 => \/ OwesClear(writer'[x], i, t)
                    \/ OwesScan(writer'[x], i, t, committed[i][t])
    <3>1. CASE x = w  BY <1>5, <1>6, <3>1
    <3>2. CASE x # w  BY <1>4, <3>2
    <3>. QED  BY <3>1, <3>2
  <2>. QED  BY <1>1, <2>1, ScanOwedFrame
<1>. QED  BY <1>7, <1>8

\* A SCAN that is over pays what its handler owed.
LEMMA DoneOwn ==
    ASSUME OwnInv, NEW w \in Writers, ScanDone(w) \/ ScanFails(w)
    PROVE  ClearOwed' /\ ScanOwed'
<1>. DEFINE t0 == writer[w].table
            b  == writer[w].base
<1>1. /\ writer[w] \in BusyWriter /\ writer[w].pc = "scan"
      /\ writer' = [writer EXCEPT ![w] = IdleWriter]
      /\ UNCHANGED <<committed, cleared1>>
      BY BusyWriters DEF OwnInv, FreshInv, ScanDone, ScanFails, db, cleared
<1>2. /\ writer \in [Writers -> WriterState] /\ cleared2 \in [Tables -> Versions]
      /\ committed \in [Instances -> [Tables -> Versions]]
      BY DEF OwnInv, FreshInv, TypeOK, WriterState
<1>3. \A x \in Writers : x # w => writer'[x] = writer[x]  BY <1>1, <1>2
<1>4. t0 \in Tables /\ b \in Versions  BY <1>1 DEF BusyWriter
<1>5. \A i \in Instances, t \in Tables : ~OwesClear(writer[w], i, t)
      BY <1>1 DEF OwesClear
<1>6. ClearOwed'
  <2>1. \A x \in Writers, i \in Instances, t \in Tables :
           OwesClear(writer[x], i, t) => OwesClear(writer'[x], i, t)
        BY <1>3, <1>5
  <2>. QED  BY <1>1, <2>1, ClearOwedFrame
<1>7. ScanOwed'
  <2>. SUFFICES ASSUME RedisAnswers, NEW i \in Instances, NEW t \in Tables
                PROVE  \/ /\ committed'[i][t] = committed[i][t]
                          /\ committed[i][t] <= cleared2[t] => committed[i][t] <= cleared2'[t]
                          /\ \A x \in Writers :
                                OwesClear(writer[x], i, t)
                                \/ OwesScan(writer[x], i, t, committed[i][t])
                                  => OwesClear(writer'[x], i, t)
                                     \/ OwesScan(writer'[x], i, t, committed[i][t])
                       \/ committed'[i][t] <= cleared2'[t]
       BY ScanOwedFrame
  <2>1. ScanDone(w) /\ writer[w].pages # MaxPages
        BY BoundsAssumption DEF RedisAnswers, ScanFails, ScanDone
  <2>2. cleared2' = [cleared2 EXCEPT ![t0] = IF @ > b THEN @ ELSE b]
        BY <2>1 DEF ScanDone
  <2>3. committed[i][t] \in Int /\ cleared2[t] \in Int /\ b \in Int
        BY <1>2, <1>4, BoundsAssumption DEF Versions
  <2>4. CASE OwesScan(writer[w], i, t, committed[i][t])
    <3>1. t = t0 /\ committed[i][t] <= b  BY <2>1, <2>4 DEF OwesScan
    <3>2. cleared2'[t] = IF cleared2[t] > b THEN cleared2[t] ELSE b
          BY <1>2, <1>4, <2>2, <3>1
    <3>. QED  BY <1>1, <2>3, <3>1, <3>2
  <2>5. CASE ~OwesScan(writer[w], i, t, committed[i][t])
    <3>1. ASSUME NEW x \in Writers
          PROVE  OwesClear(writer[x], i, t) \/ OwesScan(writer[x], i, t, committed[i][t])
                   => \/ OwesClear(writer'[x], i, t)
                      \/ OwesScan(writer'[x], i, t, committed[i][t])
      <4>1. CASE x = w  BY <1>5, <2>5, <4>1
      <4>2. CASE x # w  BY <1>3, <4>2
      <4>. QED  BY <4>1, <4>2
    <3>2. cleared2'[t] = cleared2[t] \/ (cleared2'[t] = b /\ cleared2[t] <= b)
      <4>1. CASE t = t0
        <5>1. cleared2'[t] = IF cleared2[t] > b THEN cleared2[t] ELSE b
              BY <1>2, <1>4, <2>2, <4>1
        <5>. QED  BY <2>3, <5>1
      <4>2. CASE t # t0  BY <1>2, <2>2, <4>2
      <4>. QED  BY <4>1, <4>2
    <3>3. committed[i][t] <= cleared2[t] => committed[i][t] <= cleared2'[t]
          BY <2>3, <3>2
    <3>. QED  BY <1>1, <3>1, <3>3
  <2>. QED  BY <2>4, <2>5
<1>. QED  BY <1>6, <1>7

\* DEL and the clock change only what a SCAN has still to remove.
LEMMA DelOwn ==
    ASSUME OwnInv, NEW w \in Writers, DelKey(w)
    PROVE  ClearOwed' /\ ScanOwed'
<1>1. PICK d \in writer[w].hits :
         writer' = [x \in Writers |->
                IF writer[x].pc # "scan" THEN writer[x]
                ELSE [writer[x] EXCEPT !.todo = @ \ {d},
                                       !.hits = IF x = w THEN @ \ {d} ELSE @]]
      BY DEF DelKey
<1>2. UNCHANGED <<committed, cleared1, cleared2>>  BY DEF DelKey, db, cleared
<1>3. \A x \in Writers : writer[x].pc # "scan" => writer'[x] = writer[x]  BY <1>1
<1>4. ASSUME NEW x \in Writers, writer[x].pc = "scan"
      PROVE  /\ writer'[x].pc = "scan" /\ writer'[x].table = writer[x].table
             /\ writer'[x].inst = writer[x].inst
             /\ writer'[x].pages = writer[x].pages /\ writer'[x].base = writer[x].base
  <2>1. writer[x] \in BusyWriter  BY <1>4, BusyWriters DEF OwnInv, FreshInv
  <2>. QED  BY <1>1, <1>4, <2>1 DEF BusyWriter
<1>5. \A x \in Writers, i \in Instances, t \in Tables :
         /\ OwesClear(writer[x], i, t) => OwesClear(writer'[x], i, t)
         /\ \A v \in Versions : OwesScan(writer[x], i, t, v) => OwesScan(writer'[x], i, t, v)
      BY <1>3, <1>4 DEF OwesClear, OwesScan
<1>. QED  BY <1>2, <1>5, DebtsFrame

LEMMA TickOwn ==
    ASSUME OwnInv, Tick
    PROVE  ClearOwed' /\ ScanOwed'
<1>1. UNCHANGED <<committed, cleared1, cleared2>>  BY DEF Tick, db, cleared
<1>2. \A x \in Writers : writer[x].pc # "scan" => writer'[x] = writer[x]  BY DEF Tick
<1>3. ASSUME NEW x \in Writers, writer[x].pc = "scan"
      PROVE  /\ writer'[x].pc = "scan" /\ writer'[x].table = writer[x].table
             /\ writer'[x].inst = writer[x].inst
             /\ writer'[x].pages = writer[x].pages /\ writer'[x].base = writer[x].base
  <2>1. writer[x] \in BusyWriter  BY <1>3, BusyWriters DEF OwnInv, FreshInv
  <2>2. writer'[x] = [writer[x] EXCEPT
                         !.todo = {k \in writer[x].todo : now' < l2[k].expiresAt}]
        BY <1>3 DEF Tick
  <2>. QED  BY <1>3, <2>1, <2>2 DEF BusyWriter
<1>4. \A x \in Writers, i \in Instances, t \in Tables :
         /\ OwesClear(writer[x], i, t) => OwesClear(writer'[x], i, t)
         /\ \A v \in Versions : OwesScan(writer[x], i, t, v) => OwesScan(writer'[x], i, t, v)
      BY <1>2, <1>3 DEF OwesClear, OwesScan
<1>. QED  BY <1>1, <1>4, DebtsFrame

\* A process that dies forgets its debts: what it has changed is no longer
\* counted as its own, and its new L1 is empty.
LEMMA CrashOwn ==
    ASSUME OwnInv, NEW d \in Instances, Crash(d)
    PROVE  CommittedExists' /\ ClearOwed' /\ ScanOwed'
<1>1. /\ committed' = [committed EXCEPT ![d] = [t \in Tables |-> 0]]
      /\ cleared1' = [cleared1 EXCEPT ![d] = ver]
      /\ UNCHANGED <<ver, cleared2>>
      /\ \A w \in Writers : writer[w].pc # "idle" /\ writer[w].inst # d
                               => writer'[w] = writer[w]
      BY DEF Crash
<1>2. /\ ver \in [Tables -> Versions] /\ cleared2 \in [Tables -> Versions]
      /\ committed \in [Instances -> [Tables -> Versions]]
      /\ cleared1 \in [Instances -> [Tables -> Versions]]
      BY DEF OwnInv, FreshInv, TypeOK
<1>3. \A t \in Tables : 0 <= ver[t] /\ 0 <= cleared2[t]
      BY <1>2, BoundsAssumption DEF Versions
<1>4. \A i \in Instances, t \in Tables :
         \/ /\ i # d /\ committed'[i][t] = committed[i][t]
            /\ cleared1'[i][t] = cleared1[i][t]
         \/ i = d /\ committed'[i][t] = 0 /\ cleared1'[i][t] = ver[t]
      BY <1>1, <1>2
<1>5. CommittedExists'  BY <1>1, <1>3, <1>4 DEF CommittedExists, OwnInv
<1>6. \A w \in Writers, i \in Instances, t \in Tables : i # d =>
         /\ OwesClear(writer[w], i, t) => OwesClear(writer'[w], i, t)
         /\ \A v : OwesScan(writer[w], i, t, v) => OwesScan(writer'[w], i, t, v)
      BY <1>1 DEF OwesClear, OwesScan
<1>7. ClearOwed'
  <2>1. \A i \in Instances, t \in Tables : i = d => committed'[i][t] <= cleared1'[i][t]
        BY <1>3, <1>4
  <2>. QED  BY <1>4, <1>6, <2>1, ClearOwedFrame
<1>8. ScanOwed'
  <2>1. \A i \in Instances, t \in Tables : i = d => committed'[i][t] <= cleared2'[t]
        BY <1>1, <1>3, <1>4
  <2>. QED  BY <1>1, <1>4, <1>6, <2>1, ScanOwedFrame
<1>. QED  BY <1>5, <1>7, <1>8

LEMMA OwnStep ==
    ASSUME StatementsAnswer
    PROVE  OwnInv /\ [Next]_vars => OwnInv'
<1>. SUFFICES ASSUME OwnInv, [Next]_vars
              PROVE  CommittedExists' /\ RequeryOnMySql' /\ ClearOwed' /\ ScanOwed'
     BY FreshStep DEF OwnInv
<1>1. writer \in [Writers -> WriterState]  BY DEF OwnInv, FreshInv, TypeOK, WriterState
<1>2. RequeryOnMySql'
  <2>. SUFFICES ASSUME NEW x \in Writers, writer'[x].pc = "requery" PROVE MySql
       BY DEF RequeryOnMySql
  <2>. USE DEF db, cleared
  <2>1. ASSUME writer'[x] = writer[x] PROVE MySql
        BY <2>1 DEF OwnInv, RequeryOnMySql
  <2>2. ASSUME NEW r \in Readers,
               (\E i \in Instances, k \in Keys : StartGet(r, i, k)) \/ ReaderStep(r)
        PROVE  MySql
    <3>1. writer' = writer
          BY <2>2 DEF StartGet, ReaderStep, L2Hit, L2Miss, Backfill, Select,
               AnswerUncached, Count, CountFails, Fill, L2Set, L2SetFails
    <3>. QED  BY <2>1, <3>1
  <2>3. ASSUME NEW w \in Writers, NEW i \in Instances, NEW t \in Tables, NEW op \in Ops,
               StartWrite(w, i, t, op)
        PROVE  MySql
        BY <1>1, <2>1, <2>3 DEF StartWrite
  <2>4. ASSUME NEW w \in Writers, WriterStep(w)
        PROVE  MySql
    <3>1. CASE x # w /\ ~DelKey(w)
      <4>1. \E out : writer' = [writer EXCEPT ![w] = out]
            BY <2>4, <3>1 DEF WriterStep, Commit, NoEffect, ExecFails, CommitReplyLost,
               Requery, RequeryFails, ClearL1, ScanPage, ScanDone, ScanFails
      <4>. QED  BY <1>1, <2>1, <3>1, <4>1
    <3>2. CASE DelKey(w)
      <4>1. CASE writer[x].pc # "scan"  BY <2>1, <3>2, <4>1 DEF DelKey
      <4>2. CASE writer[x].pc = "scan"
        <5>1. writer[x] \in BusyWriter  BY <4>2, BusyWriters DEF OwnInv, FreshInv
        <5>2. PICK d \in writer[w].hits :
                 writer'[x] = [writer[x] EXCEPT !.todo = @ \ {d},
                                                !.hits = IF x = w THEN @ \ {d} ELSE @]
              BY <3>2, <4>2 DEF DelKey
        <5>3. writer'[x].pc = "scan"  BY <4>2, <5>1, <5>2 DEF BusyWriter
        <5>. QED  BY <5>3
      <4>. QED  BY <4>1, <4>2
    <3>3. CASE x = w /\ ~DelKey(w)
      <4>1. writer[w].pc # "idle"  BY <2>4 DEF WriterStep, Commit, NoEffect, ExecFails,
               CommitReplyLost, Requery, RequeryFails, ClearL1, ScanPage, DelKey,
               ScanDone, ScanFails
      <4>2. writer[w] \in BusyWriter
            BY <4>1, BusyWriters DEF OwnInv, FreshInv
      <4>3. CASE Commit(w) \/ NoEffect(w) \/ ExecFails(w) \/ CommitReplyLost(w)
                   \/ Requery(w) \/ RequeryFails(w)
        <5>1. NeedsRequery(writer[w])
              \/ writer'[w] = Succeed(writer[w]) \/ writer'[w] = Fail(writer[w])
              BY <1>1, <4>3 DEF Commit, NoEffect, ExecFails, CommitReplyLost,
                                Requery, RequeryFails
        <5>2. Succeed(writer[w]).pc # "requery" /\ Fail(writer[w]).pc # "requery"
              BY <4>2 DEF Succeed, Fail, NextItem, BusyWriter, IdleWriter
        <5>. QED  BY <3>3, <5>1, <5>2 DEF NeedsRequery
      <4>4. CASE ClearL1(w) \/ ScanPage(w) \/ ScanDone(w) \/ ScanFails(w)
        <5>1. writer'[w].pc \in {"idle", "scan"}
          <6>1. CASE ClearL1(w)
                BY <1>1, <4>2, <6>1 DEF ClearL1, BusyWriter, IdleWriter
          <6>2. CASE ScanPage(w)  BY <1>1, <4>2, <6>2 DEF ScanPage, BusyWriter
          <6>3. CASE ScanDone(w) \/ ScanFails(w)
                BY <1>1, <6>3 DEF ScanDone, ScanFails, IdleWriter
          <6>. QED  BY <4>4, <6>1, <6>2, <6>3
        <5>. QED  BY <3>3, <5>1
      <4>. QED  BY <2>4, <3>3, <4>3, <4>4 DEF WriterStep
    <3>. QED  BY <3>1, <3>2, <3>3
  <2>5. ASSUME NEW i \in Instances, Crash(i) PROVE MySql
        BY <2>1, <2>5 DEF Crash, IdleWriter
  <2>6. CASE Tick
    <3>1. CASE writer[x].pc # "scan"  BY <2>1, <2>6, <3>1 DEF Tick
    <3>2. CASE writer[x].pc = "scan"
      <4>1. writer[x] \in BusyWriter  BY <3>2, BusyWriters DEF OwnInv, FreshInv
      <4>2. writer'[x] = [writer[x] EXCEPT
                             !.todo = {k \in writer[x].todo : now' < l2[k].expiresAt}]
            BY <2>6, <3>2 DEF Tick
      <4>3. writer'[x].pc = "scan"  BY <3>2, <4>1, <4>2 DEF BusyWriter
      <4>. QED  BY <4>3
    <3>. QED  BY <3>1, <3>2
  <2>7. CASE UNCHANGED vars  BY <2>1, <2>7 DEF vars
  <2>. QED  BY <2>2, <2>3, <2>4, <2>5, <2>6, <2>7 DEF Next
<1>3. ASSUME NEW r \in Readers,
             (\E i \in Instances, k \in Keys : StartGet(r, i, k)) \/ ReaderStep(r)
      PROVE  CommittedExists' /\ ClearOwed' /\ ScanOwed'
  <2>1. UNCHANGED <<ver, writer, committed, cleared1, cleared2>>
        BY <1>3 DEF StartGet, ReaderStep, L2Hit, L2Miss, Backfill, Select, AnswerUncached,
             Count, CountFails, Fill, L2Set, L2SetFails, db, cleared
  <2>. QED  BY <2>1, DebtsFrame DEF OwnInv, CommittedExists
<1>4. ASSUME NEW w \in Writers, NEW i \in Instances, NEW t \in Tables, NEW op \in Ops,
             StartWrite(w, i, t, op)
      PROVE  CommittedExists' /\ ClearOwed' /\ ScanOwed'
  <2>1. UNCHANGED <<ver, committed, cleared1, cleared2>> /\ writer[w].pc = "idle"
        BY <1>4 DEF StartWrite, db, cleared
  <2>2. \A x \in Writers : x # w => writer'[x] = writer[x]
        BY <1>1, <1>4 DEF StartWrite
  <2>3. \A x \in Writers, j \in Instances, u \in Tables :
           /\ OwesClear(writer[x], j, u) => OwesClear(writer'[x], j, u)
           /\ \A v : OwesScan(writer[x], j, u, v) => OwesScan(writer'[x], j, u, v)
        BY <2>1, <2>2 DEF OwesClear, OwesScan
  <2>. QED  BY <2>1, <2>3, DebtsFrame DEF OwnInv, CommittedExists
<1>5. ASSUME NEW w \in Writers, WriterStep(w)
      PROVE  CommittedExists' /\ ClearOwed' /\ ScanOwed'
  <2>1. CASE Commit(w)  BY <2>1, CommitOwn
  <2>2. CASE NoEffect(w) \/ ExecFails(w) \/ Requery(w) \/ RequeryFails(w)
    <3>1. UNCHANGED <<ver, committed>>
          BY <2>2 DEF NoEffect, ExecFails, Requery, RequeryFails, db
    <3>. QED  BY <2>2, <3>1, OutcomeOwn DEF OwnInv, CommittedExists
  <2>3. CASE ClearL1(w) \/ ScanPage(w) \/ DelKey(w) \/ ScanDone(w) \/ ScanFails(w)
    <3>1. UNCHANGED <<ver, committed>>
          BY <2>3 DEF ClearL1, ScanPage, DelKey, ScanDone, ScanFails, db
    <3>2. ClearOwed' /\ ScanOwed'  BY <2>3, ClearOwn, PageOwn, DelOwn, DoneOwn
    <3>. QED  BY <3>1, <3>2 DEF OwnInv, CommittedExists
  <2>4. ~CommitReplyLost(w)  BY DEF CommitReplyLost, StatementsAnswer
  <2>. QED  BY <1>5, <2>1, <2>2, <2>3, <2>4 DEF WriterStep
<1>6. ASSUME NEW i \in Instances, Crash(i)
      PROVE  CommittedExists' /\ ClearOwed' /\ ScanOwed'
      BY <1>6, CrashOwn
<1>7. CASE Tick
  <2>1. UNCHANGED <<ver, committed>>  BY <1>7 DEF Tick, db
  <2>2. CommittedExists'  BY <2>1 DEF OwnInv, CommittedExists
  <2>. QED  BY <1>2, <1>7, <2>2, TickOwn
<1>8. CASE UNCHANGED vars
  <2>1. UNCHANGED <<ver, writer, committed, cleared1, cleared2>>  BY <1>8 DEF vars
  <2>2. CommittedExists'  BY <2>1 DEF OwnInv, CommittedExists
  <2>3. \A x \in Writers, j \in Instances, u \in Tables :
           /\ OwesClear(writer[x], j, u) => OwesClear(writer'[x], j, u)
           /\ \A v : OwesScan(writer[x], j, u, v) => OwesScan(writer'[x], j, u, v)
        BY <2>1
  <2>. QED  BY <1>2, <2>1, <2>2, <2>3, DebtsFrame
<1>. QED  BY <1>2, <1>3, <1>4, <1>5, <1>6, <1>7, <1>8 DEF Next

LEMMA OwnInit == Init => OwnInv
<1>. SUFFICES ASSUME Init PROVE OwnInv  OBVIOUS
<1>1. FreshInv  BY FreshInit
<1>2. CommittedExists /\ RequeryOnMySql
      BY DEF Init, CommittedExists, RequeryOnMySql, IdleWriter
<1>3. ClearOwed /\ ScanOwed  BY DEF Init, ClearOwed, ScanOwed
<1>. QED  BY <1>1, <1>2, <1>3 DEF OwnInv

LEMMA OwnImplied == OwnInv => OwnWritesCleared
<1>. SUFFICES ASSUME OwnInv, NEW i \in Instances, NEW t \in Tables, ~WritingTo(i, t)
              PROVE  /\ committed[i][t] <= cleared1[i][t]
                     /\ RedisEnabled /\ "redis" \notin Faults
                           => committed[i][t] <= cleared2[t]
     BY DEF OwnWritesCleared
<1>1. \A w \in Writers : \A v :
         ~OwesClear(writer[w], i, t) /\ ~OwesScan(writer[w], i, t, v)
      BY DEF WritingTo, OwesClear, OwesScan
<1>. QED  BY <1>1 DEF OwnInv, ClearOwed, ScanOwed, RedisAnswers

\* As long as a handler learns what its statement did, a change is followed by
\* an invalidation of both tiers before its request is answered, whatever other
\* requests, failures of Redis and crashes come in between.
THEOREM ChangesAreInvalidated ==
    ASSUME StatementsAnswer
    PROVE  Spec => []OwnWritesCleared
<1>1. OwnInv /\ [Next]_vars => OwnInv'  BY OwnStep
<1>. QED  BY <1>1, OwnInit, OwnImplied, PTL DEF Spec
=============================================================================
