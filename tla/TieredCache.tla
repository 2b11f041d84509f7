----------------------------- MODULE TieredCache -----------------------------
(***************************************************************************)
(* The two-tier response cache of BlueprintX and the request handlers that *)
(* use it (CacheManager, ResponseCache, RedisCache, BlueprintController).  *)
(*                                                                         *)
(* Every instance of the server has a private in-process cache (L1); all   *)
(* of them share one Redis (L2) and one database.  A GET handler looks in  *)
(* L1, then L2, then SELECTs and stores what it read in both tiers.  A     *)
(* write handler executes its statement and then invalidates its table in  *)
(* L1 and L2.  A handler is a coroutine: between two co_awaits it runs     *)
(* undisturbed, and at every co_await any other handler may run.  So one   *)
(* action below is either the execution of one command at Redis or the     *)
(* database, or the code a handler runs from one co_await to the next.     *)
(*                                                                         *)
(* What a response contains is abstracted to the version of its table: a   *)
(* statement that changes a table increments its version.                  *)
(***************************************************************************)
EXTENDS Integers, FiniteSets

CONSTANTS
    Instances,      \* server processes
    Readers,        \* GET requests that may be in flight at the same time
    Writers,        \* POST, PUT and DELETE requests in flight at the same time
    Tables,         \* tables of the database
    PkTables,       \* the tables with a primary key
    PrefixOf,       \* PrefixOf[t]: the tables whose name starts with t's name
    Keys,           \* distinct GET requests: a path and its query string
    ItemKeys,       \* the keys of the form /api/v1/{table}/{id}
    TableOf,        \* the table a key reads
    RedisEnabled,   \* REDIS_HOST is set
    MySql,          \* DB_ENGINE is mysql: statements cannot use RETURNING
    Ops,            \* kinds of write requests: "create", "update", "delete", "bulk"
    Faults,         \* what may go wrong: "redis" (a command), "db" (a COUNT or a
                    \* re-read), "reply" (of a statement, once executed), "crash"
    L1Capacity,     \* maxSize_ of the L1 cache
    Ttl,            \* time-to-live of an entry, the same default in both tiers
    Latency,        \* longest time a GET handler holds a value it has read
    BulkSize,       \* items of the largest bulk request
    MaxPages,       \* replies of the longest SCAN
    MaxVersion,     \* bound on the changes of one table
    MaxTime         \* bound on the clock

ASSUME TablesAssumption ==
    /\ PkTables \subseteq Tables
    /\ PrefixOf \in [Tables -> SUBSET Tables]
    /\ \A t \in Tables : t \in PrefixOf[t]
ASSUME KeysAssumption == ItemKeys \subseteq Keys /\ TableOf \in [Keys -> Tables]
ASSUME ModeAssumption ==
    /\ RedisEnabled \in BOOLEAN
    /\ MySql \in BOOLEAN
    /\ Ops \subseteq {"create", "update", "delete", "bulk"}
    /\ Faults \subseteq {"redis", "db", "reply", "crash"}
ASSUME BoundsAssumption ==
    /\ L1Capacity \in Nat \ {0}
    /\ Ttl \in Nat \ {0}
    /\ Latency \in Nat
    /\ BulkSize \in Nat \ {0}
    /\ MaxPages \in Nat \ {0}
    /\ MaxVersion \in Nat
    /\ MaxTime \in Nat

VARIABLES
    now,        \* the clock
    ver,        \* ver[t]: the current version of table t in the database
    l1,         \* l1[i][k]: the entry of key k in the L1 cache of instance i
    l2,         \* l2[k]: the entry of key k in Redis
    reader,     \* reader[r]: the GET handler r
    writer,     \* writer[w]: the POST, PUT or DELETE handler w
    commitAt,   \* history: commitAt[t][v] is when t's version v was committed
    committed,  \* history: the newest version of t committed by a handler of i
    cleared1,   \* history: version of t when instance i last emptied L1 of t
    cleared2    \* history: newest version of t whose SCAN over L2 completed

db      == <<ver, commitAt, committed>>
cleared == <<cleared1, cleared2>>
vars    == <<now, ver, l1, l2, reader, writer, commitAt, committed,
             cleared1, cleared2>>

-----------------------------------------------------------------------------
(* Cache entries *)

Versions == 0..MaxVersion

\* late: the table had already changed again when the entry was stored
Entry  == [ver : Versions, late : BOOLEAN, expiresAt : Nat]
Absent == [ver |-> 0, late |-> FALSE, expiresAt |-> 0]

Present(e) == e # Absent
Live(e)    == now < e.expiresAt

\* What storing version v of key k creates, at this moment.
NewEntry(k, v) == [ver |-> v, late |-> v < ver[TableOf[k]],
                   expiresAt |-> now + Ttl]

KeysOf(ts) == {k \in Keys : TableOf[k] \in ts}
L2Keys(t)  == {k \in KeysOf({t}) : Live(l2[k])}

\* The entries LruCache::put may evict when it adds key k: one if the key is
\* new and the cache is full (the least recently used one; the order of use
\* is the subject of module LruCache), else none.
Evictions(i, k) ==
    LET others == {x \in Keys : Present(l1[i][x])}
    IN  IF ~Present(l1[i][k]) /\ Cardinality(others) >= L1Capacity
        THEN {{x} : x \in others} ELSE {{}}

L1Put(i, k, v) ==
    \E gone \in Evictions(i, k) :
        l1' = [l1 EXCEPT ![i] =
                 [x \in Keys |-> IF x = k THEN NewEntry(k, v)
                                 ELSE IF x \in gone THEN Absent ELSE @[x]]]

-----------------------------------------------------------------------------
(* Handlers *)

Reading == {"l2get", "backfill", "select", "count", "fill", "l2set"}
Writing == {"exec", "requery", "clear", "scan"}

\* The pcs of a GET handler that holds a version it has read.
Holding == {"backfill", "count", "fill", "l2set"}

IdleReader == [pc |-> "idle"]
IdleWriter == [pc |-> "idle"]

\* ver and at: the version the handler has read and when it was read.
BusyReader == [pc : Reading, inst : Instances, key : Keys, ver : Versions, at : Nat]

\* left: items a bulk request has still to insert; pages: SCAN replies that
\* may still come (MaxPages before the first one, 0 after the last one);
\* base: version of the table when the SCAN began; todo: keys that were there
\* when it began, have been there since, and have not been returned; hits:
\* keys of the latest reply that are not deleted yet.
BusyWriter == [pc : Writing, inst : Instances, table : Tables, op : Ops,
               left : 0..BulkSize, pages : 0..MaxPages, base : Versions,
               todo : SUBSET Keys, hits : SUBSET Keys]

Init ==
    /\ now = 0
    /\ ver = [t \in Tables |-> 0]
    /\ l1 = [i \in Instances |-> [k \in Keys |-> Absent]]
    /\ l2 = [k \in Keys |-> Absent]
    /\ reader = [r \in Readers |-> IdleReader]
    /\ writer = [w \in Writers |-> IdleWriter]
    /\ commitAt = [t \in Tables |-> [v \in Versions |-> 0]]
    /\ committed = [i \in Instances |-> [t \in Tables |-> 0]]
    /\ cleared1 = [i \in Instances |-> [t \in Tables |-> 0]]
    /\ cleared2 = [t \in Tables |-> 0]

-----------------------------------------------------------------------------
(* GET handlers: handleList and handleGetById *)

\* A GET that L1 cannot answer.  (One that L1 answers changes nothing here.)
\* LruCache::get drops the entry it finds expired.
StartGet(r, i, k) ==
    /\ reader[r].pc = "idle"
    /\ ~Live(l1[i][k])
    /\ l1' = [l1 EXCEPT ![i][k] = Absent]
    /\ reader' = [reader EXCEPT ![r] =
                    [pc |-> IF RedisEnabled THEN "l2get" ELSE "select",
                     inst |-> i, key |-> k, ver |-> 0, at |-> 0]]
    /\ UNCHANGED <<now, db, l2, writer, cleared>>

\* Mutant of L2Hit: a hit in Redis renews the TTL of the key.
L2HitSliding(r) ==
    /\ reader[r].pc = "l2get"
    /\ Live(l2[reader[r].key])
    /\ reader' = [reader EXCEPT ![r].pc = "backfill",
                                ![r].ver = l2[reader[r].key].ver,
                                ![r].at = now]
    /\ l2' = [l2 EXCEPT ![reader[r].key].expiresAt = now + Ttl]
    /\ UNCHANGED <<now, db, l1, writer, cleared>>

\* Redis executes GET and finds the key.
L2Hit(r) ==
    /\ reader[r].pc = "l2get"
    /\ Live(l2[reader[r].key])
    /\ reader' = [reader EXCEPT ![r].pc = "backfill",
                                ![r].ver = l2[reader[r].key].ver,
                                ![r].at = now]
    /\ UNCHANGED <<now, db, l1, l2, writer, cleared>>

\* The key is not in Redis, or the command or the parsing of its reply fails.
L2Miss(r) ==
    /\ reader[r].pc = "l2get"
    /\ ~Live(l2[reader[r].key]) \/ "redis" \in Faults
    /\ reader' = [reader EXCEPT ![r].pc = "select"]
    /\ UNCHANGED <<now, db, l1, l2, writer, cleared>>

\* The handler resumes with what Redis returned, stores it in L1 with the
\* full default TTL, whatever was left of it in Redis, and answers.
Backfill(r) ==
    /\ reader[r].pc = "backfill"
    /\ L1Put(reader[r].inst, reader[r].key, reader[r].ver)
    /\ reader' = [reader EXCEPT ![r] = IdleReader]
    /\ UNCHANGED <<now, db, l2, writer, cleared>>

\* The database executes the SELECT.  A list request may want a COUNT too.
Select(r) ==
    /\ reader[r].pc = "select"
    /\ \E next \in IF reader[r].key \in ItemKeys THEN {"fill"}
                                                ELSE {"fill", "count"} :
          reader' = [reader EXCEPT ![r].pc = next,
                                   ![r].ver = ver[TableOf[reader[r].key]],
                                   ![r].at = now]
    /\ reader[r].key \in ItemKeys => TableOf[reader[r].key] \in PkTables
    /\ UNCHANGED <<now, db, l1, l2, writer, cleared>>

\* The answers that are not stored: a table that is not registered or has no
\* primary key, an id without a row, a SELECT that fails.
AnswerUncached(r) ==
    /\ reader[r].pc = "select"
    /\ reader' = [reader EXCEPT ![r] = IdleReader]
    /\ UNCHANGED <<now, db, l1, l2, writer, cleared>>

\* The database executes the COUNT.
Count(r) ==
    /\ reader[r].pc = "count"
    /\ reader' = [reader EXCEPT ![r].pc = "fill"]
    /\ UNCHANGED <<now, db, l1, l2, writer, cleared>>

CountFails(r) ==
    /\ reader[r].pc = "count"
    /\ "db" \in Faults
    /\ reader' = [reader EXCEPT ![r] = IdleReader]
    /\ UNCHANGED <<now, db, l1, l2, writer, cleared>>

\* The handler resumes with the rows and stores the response in L1.
Fill(r) ==
    /\ reader[r].pc = "fill"
    /\ L1Put(reader[r].inst, reader[r].key, reader[r].ver)
    /\ reader' = [reader EXCEPT ![r] = IF RedisEnabled THEN [@ EXCEPT !.pc = "l2set"]
                                                       ELSE IdleReader]
    /\ UNCHANGED <<now, db, l2, writer, cleared>>

\* Redis executes SET ... EX; the handler answers.
L2Set(r) ==
    /\ reader[r].pc = "l2set"
    /\ l2' = [l2 EXCEPT ![reader[r].key] = NewEntry(reader[r].key, reader[r].ver)]
    /\ reader' = [reader EXCEPT ![r] = IdleReader]
    /\ UNCHANGED <<now, db, l1, writer, cleared>>

\* A failed SET is logged; the handler answers all the same.
L2SetFails(r) ==
    /\ reader[r].pc = "l2set"
    /\ "redis" \in Faults
    /\ reader' = [reader EXCEPT ![r] = IdleReader]
    /\ UNCHANGED <<now, db, l1, l2, writer, cleared>>

-----------------------------------------------------------------------------
(* Write handlers: handleCreate, handleUpdate, handleDelete and            *)
(* handleBulkCreate, from the point where the request is found valid       *)

\* A bulk request begins with the number of its valid items, maybe none.
\* (A request refused before its first statement changes nothing.)
StartWrite(w, i, t, op) ==
    /\ writer[w].pc = "idle"
    /\ op \in {"update", "delete"} => t \in PkTables
    /\ \E n \in IF op = "bulk" THEN 0..BulkSize ELSE {1} :
          writer' = [writer EXCEPT ![w] =
                       [pc |-> IF n = 0 THEN "clear" ELSE "exec",
                        inst |-> i, table |-> t, op |-> op, left |-> n,
                        pages |-> MaxPages, base |-> 0,
                        todo |-> {}, hits |-> {}]]
    /\ UNCHANGED <<now, db, l1, l2, reader, cleared>>

\* Mutant of NextItem: the loop skips the item after each one it inserts.
NextItemSkips(job) == [job EXCEPT !.left = @ - 2,
                                  !.pc = IF job.left > 2 THEN "exec" ELSE "clear"]

\* One item of a bulk request is done: the next one, or the invalidation.
NextItem(job) == [job EXCEPT !.left = @ - 1,
                             !.pc = IF job.left > 1 THEN "exec" ELSE "clear"]

\* The statement and its re-query have succeeded.
Succeed(job) == IF job.op = "bulk" THEN NextItem(job)
                                   ELSE [job EXCEPT !.pc = "clear"]

\* Mutants of Fail: an exception ends a bulk request too; a bulk request
\* tries a failed item again.
FailEndsBulk(job)   == IdleWriter
FailRetriesItem(job) == IF job.op = "bulk" THEN job ELSE IdleWriter

\* An exception: handleBulkCreate catches it per item, the other handlers
\* answer with an error from their outer catch, past the invalidation.
Fail(job) == IF job.op = "bulk" THEN NextItem(job) ELSE IdleWriter

\* Without RETURNING, a created or updated row is read back by its key.
NeedsRequery(job) == MySql /\ job.op # "delete" /\ job.table \in PkTables

\* The database executes a statement that changes the table.
Change(w) ==
    LET t == writer[w].table
        v == ver[t] + 1
    IN  /\ v \in Versions
        /\ ver' = [ver EXCEPT ![t] = v]
        /\ commitAt' = [commitAt EXCEPT ![t][v] = now]
        /\ committed' = [committed EXCEPT ![writer[w].inst][t] = v]

Commit(w) ==
    /\ writer[w].pc = "exec"
    /\ Change(w)
    /\ writer' = [writer EXCEPT ![w] = IF NeedsRequery(@)
                                       THEN [@ EXCEPT !.pc = "requery"]
                                       ELSE Succeed(@)]
    /\ UNCHANGED <<now, l1, l2, reader, cleared>>

\* An UPDATE or DELETE that matches no row; the table is invalidated anyway.
NoEffect(w) ==
    /\ writer[w].pc = "exec"
    /\ writer[w].op \in {"update", "delete"}
    /\ writer' = [writer EXCEPT ![w] = Succeed(@)]
    /\ UNCHANGED <<now, db, l1, l2, reader, cleared>>

\* The statement is refused (a constraint, an empty SET list).
ExecFails(w) ==
    /\ writer[w].pc = "exec"
    /\ writer' = [writer EXCEPT ![w] = Fail(@)]
    /\ UNCHANGED <<now, db, l1, l2, reader, cleared>>

\* The statement is executed but the connection breaks before the reply.
CommitReplyLost(w) ==
    /\ writer[w].pc = "exec"
    /\ "reply" \in Faults
    /\ Change(w)
    /\ writer' = [writer EXCEPT ![w] = Fail(@)]
    /\ UNCHANGED <<now, l1, l2, reader, cleared>>

\* MySQL reads the row back (LAST_INSERT_ID and SELECT, or one SELECT).
Requery(w) ==
    /\ writer[w].pc = "requery"
    /\ writer' = [writer EXCEPT ![w] = Succeed(@)]
    /\ UNCHANGED <<now, db, l1, l2, reader, cleared>>

RequeryFails(w) ==
    /\ writer[w].pc = "requery"
    /\ "db" \in Faults
    /\ writer' = [writer EXCEPT ![w] = Fail(@)]
    /\ UNCHANGED <<now, db, l1, l2, reader, cleared>>

-----------------------------------------------------------------------------
(* CacheManager::invalidateTable *)

\* Mutants of ClearL1: the prefix ends with a slash, so that list requests do
\* not match; the handler answers without waiting for Redis.
ClearL1ItemsOnly(w) ==
    LET i  == writer[w].inst
        ts == PrefixOf[writer[w].table]
    IN  /\ writer[w].pc = "clear"
        /\ l1' = [l1 EXCEPT ![i] =
              [k \in Keys |-> IF k \in KeysOf(ts) \cap ItemKeys THEN Absent ELSE @[k]]]
        /\ cleared1' = [cleared1 EXCEPT ![i] =
                    [t \in Tables |-> IF t \in ts THEN ver[t] ELSE @[t]]]
        /\ writer' = [writer EXCEPT ![w] = IF RedisEnabled
                                           THEN [@ EXCEPT !.pc = "scan"]
                                           ELSE IdleWriter]
        /\ UNCHANGED <<now, db, l2, reader, cleared2>>

ClearL1Only(w) ==
    LET i  == writer[w].inst
        ts == PrefixOf[writer[w].table]
    IN  /\ writer[w].pc = "clear"
        /\ l1' = [l1 EXCEPT ![i] =
                    [k \in Keys |-> IF k \in KeysOf(ts) THEN Absent ELSE @[k]]]
        /\ cleared1' = [cleared1 EXCEPT ![i] =
                    [t \in Tables |-> IF t \in ts THEN ver[t] ELSE @[t]]]
        /\ writer' = [writer EXCEPT ![w] = IdleWriter]
        /\ UNCHANGED <<now, db, l2, reader, cleared2>>

\* The handler resumes and removes from its own L1 every key with the prefix
\* "GET:/api/v1/" followed by the table's name.
ClearL1(w) ==
    LET i  == writer[w].inst
        ts == PrefixOf[writer[w].table]
    IN  /\ writer[w].pc = "clear"
        /\ l1' = [l1 EXCEPT ![i] =
                    [k \in Keys |-> IF k \in KeysOf(ts) THEN Absent ELSE @[k]]]
        /\ cleared1' = [cleared1 EXCEPT ![i] =
                    [t \in Tables |-> IF t \in ts THEN ver[t] ELSE @[t]]]
        /\ writer' = [writer EXCEPT ![w] = IF RedisEnabled
                                           THEN [@ EXCEPT !.pc = "scan"]
                                           ELSE IdleWriter]
        /\ UNCHANGED <<now, db, l2, reader, cleared2>>

\* Mutant of ScanPage: one SCAN is sent, whatever cursor it returns.
ScanOnePage(w) ==
    /\ writer[w].pc = "scan" /\ writer[w].hits = {} /\ writer[w].pages > 0
    /\ \E page \in SUBSET L2Keys(writer[w].table) :
          writer' = [writer EXCEPT ![w].pages = 0,
                                   ![w].base = ver[writer[w].table],
                                   ![w].hits = page]
    /\ UNCHANGED <<now, db, l1, l2, reader, cleared>>

\* Mutant of NextPages: every SCAN starts from cursor "0" again.
NextPagesFromStart(job) == {0, job.pages}

\* How many replies may still come after the next one.
NextPages(job) == {0, job.pages - 1}

\* Redis executes SCAN.  A reply is any set of keys of the table; the last
\* reply, with cursor "0", completes a set that has every key that was there
\* from the first command to this one.
ScanPage(w) ==
    LET job   == writer[w]
        first == job.pages = MaxPages
        there == L2Keys(job.table)
        due   == IF first THEN there ELSE job.todo
        base  == IF first THEN ver[job.table] ELSE job.base
    IN  /\ job.pc = "scan" /\ job.hits = {} /\ job.pages > 0
        /\ \E page \in SUBSET there, left \in NextPages(job) :
              /\ left = 0 => due \subseteq page
              /\ writer' = [writer EXCEPT ![w] =
                     [@ EXCEPT !.pages = left, !.base = base,
                               !.todo = due \ page, !.hits = page]]
        /\ UNCHANGED <<now, db, l1, l2, reader, cleared>>

\* Redis executes DEL for one key of the latest reply.
DelKey(w) ==
    /\ writer[w].pc = "scan"
    /\ \E k \in writer[w].hits :
          /\ l2' = [l2 EXCEPT ![k] = Absent]
          /\ writer' = [x \in Writers |->
                IF writer[x].pc # "scan" THEN writer[x]
                ELSE [writer[x] EXCEPT !.todo = @ \ {k},
                                       !.hits = IF x = w THEN @ \ {k} ELSE @]]
    /\ UNCHANGED <<now, db, l1, reader, cleared>>

\* Every key of the last reply is deleted; the handler answers.
ScanDone(w) ==
    LET t == writer[w].table
    IN  /\ writer[w].pc = "scan" /\ writer[w].hits = {} /\ writer[w].pages = 0
        /\ cleared2' = [cleared2 EXCEPT ![t] = IF @ > writer[w].base
                                               THEN @ ELSE writer[w].base]
        /\ writer' = [writer EXCEPT ![w] = IdleWriter]
        /\ UNCHANGED <<now, db, l1, l2, reader, cleared1>>

\* A SCAN or DEL that fails ends the invalidation; the handler answers.
ScanFails(w) ==
    /\ writer[w].pc = "scan"
    /\ "redis" \in Faults
    /\ writer' = [writer EXCEPT ![w] = IdleWriter]
    /\ UNCHANGED <<now, db, l1, l2, reader, cleared>>

-----------------------------------------------------------------------------
(* The environment *)

\* A process dies and is restarted: its L1 and its requests are gone, Redis
\* and the database keep what they have.
Crash(i) ==
    /\ "crash" \in Faults
    /\ l1' = [l1 EXCEPT ![i] = [k \in Keys |-> Absent]]
    /\ reader' = [r \in Readers |->
          IF reader[r].pc # "idle" /\ reader[r].inst = i THEN IdleReader ELSE reader[r]]
    /\ writer' = [w \in Writers |->
          IF writer[w].pc # "idle" /\ writer[w].inst = i THEN IdleWriter ELSE writer[w]]
    /\ cleared1' = [cleared1 EXCEPT ![i] = ver]
    /\ committed' = [committed EXCEPT ![i] = [t \in Tables |-> 0]]
    /\ UNCHANGED <<now, ver, commitAt, l2, cleared2>>

\* Time passes; no GET handler holds a value for more than Latency.  Redis
\* drops the keys that expire, and a running SCAN need not return them.
Tick ==
    /\ now < MaxTime
    /\ \A r \in Readers : reader[r].pc \in Holding => now < reader[r].at + Latency
    /\ now' = now + 1
    /\ l2' = [k \in Keys |-> IF now' < l2[k].expiresAt THEN l2[k] ELSE Absent]
    /\ writer' = [w \in Writers |->
          IF writer[w].pc # "scan" THEN writer[w]
          ELSE [writer[w] EXCEPT !.todo = {k \in @ : now' < l2[k].expiresAt}]]
    /\ UNCHANGED <<db, l1, reader, cleared>>

ReaderStep(r) ==
    \/ L2Hit(r) \/ L2Miss(r) \/ Backfill(r)
    \/ Select(r) \/ AnswerUncached(r) \/ Count(r) \/ CountFails(r)
    \/ Fill(r) \/ L2Set(r) \/ L2SetFails(r)

WriterStep(w) ==
    \/ Commit(w) \/ NoEffect(w) \/ ExecFails(w) \/ CommitReplyLost(w)
    \/ Requery(w) \/ RequeryFails(w)
    \/ ClearL1(w) \/ ScanPage(w) \/ DelKey(w) \/ ScanDone(w) \/ ScanFails(w)

Next ==
    \/ \E r \in Readers :
          \/ \E i \in Instances, k \in Keys : StartGet(r, i, k)
          \/ ReaderStep(r)
    \/ \E w \in Writers :
          \/ \E i \in Instances, t \in Tables, op \in Ops : StartWrite(w, i, t, op)
          \/ WriterStep(w)
    \/ \E i \in Instances : Crash(i)
    \/ Tick

Spec == Init /\ [][Next]_vars

\* Event loops run what is ready, and Redis and the database answer or fail;
\* no client is obliged to send a request.
Fairness ==
    /\ \A r \in Readers : WF_vars(ReaderStep(r))
    /\ \A w \in Writers : WF_vars(WriterStep(w))

FairSpec == Spec /\ Fairness

-----------------------------------------------------------------------------
(* Properties *)

\* Type invariant: the values of all the variables above.
TypeOK ==
    /\ now \in Nat
    /\ ver \in [Tables -> Versions]
    /\ l1 \in [Instances -> [Keys -> Entry]]
    /\ l2 \in [Keys -> Entry]
    /\ reader \in [Readers -> BusyReader \cup {IdleReader}]
    /\ writer \in [Writers -> BusyWriter \cup {IdleWriter}]
    /\ commitAt \in [Tables -> [Versions -> Nat]]
    /\ committed \in [Instances -> [Tables -> Versions]]
    /\ cleared1 \in [Instances -> [Tables -> Versions]]
    /\ cleared2 \in [Tables -> Versions]

Stale(k, v)     == v < ver[TableOf[k]]
OutdatedAt(k, v) == commitAt[TableOf[k]][v + 1]

\* A value read from the database just before a commit is stored in Redis up
\* to Latency later and lives there for Ttl.  Just before it expires it may
\* be fetched from Redis, and begin a life of its own in L1.
L2Bound == Ttl + Latency
L1Bound == IF RedisEnabled THEN 2 * (Ttl + Latency) ELSE Ttl + Latency

\* Whatever is lost, fails or crashes, and however reads, fills, back-fills
\* and invalidations interleave, an outdated response is served from a cache
\* for a bounded time: one TTL after the commit that outdated it with L1
\* alone, and two with Redis, since CacheManager::get gives what it copies
\* from L2 to L1 a whole new TTL.
BoundedStaleness ==
    \A k \in Keys :
        /\ Live(l2[k]) /\ Stale(k, l2[k].ver)
              => now < OutdatedAt(k, l2[k].ver) + L2Bound
        /\ \A i \in Instances :
              Live(l1[i][k]) /\ Stale(k, l1[i][k].ver)
                 => now < OutdatedAt(k, l1[i][k].ver) + L1Bound

\* An invalidation leaves nothing behind but what an overtaken read stores
\* too late: a live entry that was current when it was stored is at least as
\* new as the table was when the instance last emptied its L1 (L1), and when
\* the last completed SCAN of the table began (L2), although Redis may grow,
\* lose keys and serve other SCANs while a SCAN runs.
ClearedStaysFresh ==
    \A k \in Keys :
        /\ Live(l2[k]) /\ ~l2[k].late => l2[k].ver >= cleared2[TableOf[k]]
        /\ \A i \in Instances :
              Live(l1[i][k]) /\ ~l1[i][k].late
                 => l1[i][k].ver >= cleared1[i][TableOf[k]]

WritingTo(i, t) == \E w \in Writers :
    writer[w].pc # "idle" /\ writer[w].inst = i /\ writer[w].table = t

\* A change that an instance has made is followed by an invalidation before
\* its request is answered: when no request on the table is in flight at the
\* instance, its L1 has been emptied since its newest change, and so has L2
\* unless Redis may fail.
OwnWritesCleared ==
    \A i \in Instances, t \in Tables :
        ~WritingTo(i, t) =>
            /\ committed[i][t] <= cleared1[i][t]
            /\ RedisEnabled /\ "redis" \notin Faults
                  => committed[i][t] <= cleared2[t]

\* CacheManager.h:21, "Invalidation propagates to both tiers to prevent stale
\* data": when no request is in flight, no cache serves outdated data.
NoStaleDataAtRest ==
    (/\ \A r \in Readers : reader[r].pc = "idle"
     /\ \A w \in Writers : writer[w].pc = "idle")
    => \A k \in Keys, i \in Instances :
          Live(l1[i][k]) => ~Stale(k, l1[i][k].ver)

\* Every request is answered: a bulk request comes to the end of its items,
\* an invalidation to the end of its SCAN, and no failure at Redis or at the
\* database leaves a handler suspended.
EveryRequestAnswered ==
    /\ \A r \in Readers : reader[r].pc # "idle" ~> reader[r].pc = "idle"
    /\ \A w \in Writers : writer[w].pc # "idle" ~> writer[w].pc = "idle"
=============================================================================
