# Verification of BlueprintX

BlueprintX (`src/`) turns a database into a REST API: at start it reads the
schema, and from then on serves list, get, create, bulk create, update and
delete requests for every table, through a two-tier cache and a rate limiter.
It runs on the Drogon framework: several event loops, handlers that are C++20
coroutines, and asynchronous clients of the database and of Redis.

This directory holds TLA+ models of the parts of it that keep state and in
which the order of events matters, TLC configurations that check them on small
instances, and proofs, checked by TLAPS, that the main properties hold for
every value of the constants. Names in the models are the names of the source
where TLA+ allows it; `PROJECT.json` maps each definition to the lines it
stands for. Paths below are relative to the root of the repository's `src/`.

## 1. Inventory

| Component | State | Operations | Talks to |
|---|---|---|---|
| `LruCache` (cache/LruCache.h) | a list of entries, most recently used first; a hash map of iterators into it | put, get, invalidate, invalidateByPrefix, clear, evictExpired, each under one unique lock | – |
| `ResponseCache` (cache/) | the L1 `LruCache` of the process, a default TTL | put, get, invalidateTable by key prefix | `LruCache` |
| `RedisCache` (cache/) | none of its own; keys with an expiry in a Redis shared by all processes | GET, SET EX, SCAN and DEL loop | Redis, one `co_await` per command |
| `CacheManager` (cache/) | none | get (L1, then L2 with back-fill), put (L1, L2), invalidateTable (L1, L2) | both tiers |
| `BlueprintController` (controllers/) | the frames of suspended handlers | list, get by id, create, bulk create, update, delete | all the others |
| `QueryBuilder` (query/) | one statement under construction | SELECT, COUNT, INSERT, UPDATE, DELETE; re-read on MySQL | the database pool |
| `RateLimitFilter` (middleware/) | a deque of timestamps per client and the time of the last purge, under one mutex | doFilter, purgeStaleClients | clock |
| `SchemaIntrospector`, `ModelRegistry` (schema/, main.cpp) | the map of tables, filled once | queries for tables, columns, keys; register; look up | database |
| `RequestValidator`, `FieldGuard`, `AuditInjector`, `CodeGenerator` (schema/, protection/) | blocklists set at start | one pass over a request body | registry |
| `TypeMapper`, `JsonSerializer`, `OpenApiGenerator`, `ApiResponse` | none | conversions and layout | registry |
| `EnvConfig`, `DatabaseManager`, `HealthController` | configuration, client names | read at start; probe | files, clients |
| `JwtFilter`, `CorsMiddleware` | none | a decision per request | – |

**How they interact.** A GET handler asks `CacheManager`, then runs a SELECT
(and perhaps a COUNT), then stores the response in both tiers. A write handler
runs its statement (and on MySQL reads the row back), then calls
`invalidateTable`, which empties the L1 of *its own process* synchronously and
then sends SCAN and DEL commands to Redis. At each `co_await` any other handler
of any event loop, and any other process, may run. A coroutine that `main`
starts beside the event loops reads the schema with one query after another and
registers it table by table, while handlers already look tables up. Before a
write handler builds its statement, the body passes the validator, `FieldGuard`
(whose lists an application may change at any time), `AuditInjector` and
`CodeGenerator`.

**What is hard.** A SELECT may be overtaken by a write and stored afterwards;
a value fetched from Redis may be deleted there before it reaches L1, and is
then given a whole new TTL; the SCAN loop runs while the keys change; a
statement may have been executed although its reply is lost or a later step
fails, and the exception skips the invalidation; processes die between the
commit and the invalidation; the rate limiter reads its clock before it takes
its mutex, so that timestamps arrive out of order; the index of the LRU cache
holds iterators into a list that is spliced; `LAST_INSERT_ID()` belongs to a
connection, not to a request; a page and its total come from two statements; the
schema may change between the queries of the introspection; and five stages,
each with lists of its own, must agree on who supplies a column.

**What makes each component correct.**

- caches and handlers: an outdated response is served for a bounded time only;
  an invalidation removes everything that was there; a change is invalidated
  before its request is answered; every request is answered;
- `LruCache`: list and index agree; never more than `maxSize_` entries; what is
  in use is not given up;
- `RateLimitFilter`: a window sees no more than the maximum of admissions; no
  client is refused without having used its limit; Retry-After is enough;
  silent clients are forgotten;
- write handlers: an answer tells what the request did to the table;
- lists: page, `has_more` and `total` are those of rows that there were;
- introspection and registry: what the registry says of a table is never half of
  the truth and never taken back; a failed introspection leaves nothing; an
  introspection ends; every reference of an OpenAPI document resolves;
- request pipeline: what is accepted reaches its own column or is supplied by
  the server, what is protected is never the client's, the audit columns name
  who did what and when, and the published schema is what the validator accepts
  and what rows are answered with.

## 2. Modules

| Module | Models | Composed with |
|---|---|---|
| `TieredCache` | `CacheManager`, `ResponseCache`, `RedisCache` and the six handlers as far as they touch caches and database, in any number of processes | – |
| `LruCache` | the list and the index | implements `RecencyCache` |
| `RecencyCache` | what an LRU cache promises: a bounded map that gives up the entry used the longest ago | abstract specification |
| `RateLimiter` | `RateLimitFilter` | – |
| `CacheConstants` | the parameters of both caches | – |
| `RowWrites` | `executeInsert`, `executeUpdate`, `executeDelete` and what the four write handlers answer | – |
| `ListPages` | `parseListParams` and the SELECT and COUNT of `handleList` | extends `RowWrites`, whose writers run in between |
| `Introspection` | the advice of `main`, `SchemaIntrospector` on three engines, `ModelRegistry`, the look-ups of handlers, `OpenApiGenerator` | implements `WriteOnceMap` |
| `WriteOnceMap` | what handlers that keep a pointer into the registry rely on | abstract specification |
| `WritePipeline` | `TypeMapper`, `RequestValidator`, `FieldGuard`, `AuditInjector`, `CodeGenerator`, the placeholders of `QueryBuilder`, the types of `JsonSerializer` and `OpenApiGenerator` | – |
| `MC*` | definitions of constants for TLC | extend the module they name |
| `TieredCacheProofs`, `TieredCacheInvalidationProofs` | theorems about `TieredCache` | the second extends the first |
| `ListPagesProofs` | theorems about `RowWrites` and `ListPages` | extends `ListPages` |
| `RateLimiterProofs`, `RecencyCacheProofs`, `LruCacheProofs`, `IntrospectionProofs`, `WritePipelineProofs` | theorems | extend the module they name |

### TieredCache

One action is either the execution of one command at Redis or at the database,
or the code that a handler runs from one `co_await` to the next. `reader[r]`
and `writer[w]` are the frames of suspended handlers: `pc` names the `co_await`
at which they wait, the other fields are their locals.

- A GET: `StartGet` (L1 missed) → `L2Hit` / `L2Miss` (the GET at Redis) →
  `Backfill`, or `Select` → `Count` → `Fill` (L1) → `L2Set`. `AnswerUncached`,
  `CountFails` and `L2SetFails` are the early ends.
- A write: `StartWrite` → `Commit`, `NoEffect`, `ExecFails` or
  `CommitReplyLost` → `Requery` or `RequeryFails` (MySQL) → `ClearL1` →
  `ScanPage` and `DelKey` repeatedly → `ScanDone` or `ScanFails`. `Succeed`,
  `Fail` and `NextItem` say how a single request and a bulk request go on.
- `Crash` restarts a process; `Tick` is the clock and Redis's own expiry.

The data is abstracted to what the properties tell apart. A response is the
version of its table when it was read; a statement that changes a table makes
the next version. Keys are model values, with `TableOf` and `ItemKeys` for what
the key format says of them, and `PrefixOf` for the fact that
`invalidateByPrefix("GET:/api/v1/user")` also matches `user_log`. The order of
use that decides about evictions is nondeterministic here; it is the subject
of `LruCache`. SCAN follows Redis's guarantee: a full iteration returns every
key that was there from its beginning to its end, may return others, and may
return keys more than once. Redis's glob characters in table names and
collisions of the hash of the query string are left out. The two statements
with which MySQL reads a created row back are one step here; `RowWrites`
separates them. A command that is under way when its process dies is lost; a
command that reaches Redis after that is the crash one step later.
`commitAt`, `committed`, `cleared1`, `cleared2` and the `late` field of entries
are history: no guard reads them.

### LruCache and RecencyCache

Every operation of `LruCache` holds a unique lock throughout, so an operation
is one action. An iterator is modelled by the key of the entry it points to,
which is what `std::list::splice` and `erase` preserve. `RecencyCache` has no
list: uses are numbered, and `Put` gives up the cached key with the smallest
number. `LruCache` carries the same numbers as history, and its property
`IsRecencyCache` is `Recency!Spec` under the mapping `content <- Content`.
`WorkingSetKept` is the abstract module's property of the mapped content.

### RateLimiter

`Arrive` is the code before the lock (the client is identified, the clock is
read), `Admit` and `Refuse` are the two ways through the critical section, each
with the purge and the pruning that come first. A deque loses elements at its
front only, so it is the log `stamps[c]` of everything pushed and the index
`front[c]` of its first element. What the log keeps beyond the deque lets the
properties count admissions that the filter has forgotten. `Delay` bounds the
time between reading the clock and holding the mutex, which is short because
the critical section contains no wait; every bound below is stated in terms of
it. Note that `fccb()` runs under the mutex; what it starts is not modelled.

### RowWrites

`engine` is `"returning"` (PostgreSQL, SQLite) or `"mysql"`, fixed at start. A
row is its id. On an engine with RETURNING, `Insert`, `Update` and `Delete`
return the row; on MySQL an INSERT is followed by `LastId`, on any connection
of the pool, and `Reread`, an UPDATE that found its row by `Reread`, and a
DELETE by nothing: its handler finds no row in the result and answers 404.
`effect[r]` is history. An UPDATE of the model changes every row that it
matches; whether MySQL counts rows whose values do not change as affected
depends on flags of the client library, and is left out.

### ListPages

`StartList` is `parseListParams` (`stoul` takes a minus sign and wraps, so a
limit of -1 is the largest `size_t` and becomes the cap), `SelectPage` is
`LIMIT limit + 1 OFFSET offset` with the probe row taken off, `CountRows` the
second statement, `ListFails` the end of either by an exception. `Write` is any
step of `RowWrites`. Without ORDER BY the database may return any rows of the
right number; with it, those of the right ranks. Filters are the sets of ids
that pass them. `seen[l]` is history: the sets of matching rows there were while
`l` was in flight.

### Introspection and WriteOnceMap

One action is one query (which reads the catalogue as it is at that moment), one
`registerTable`, `getTable` or `getTableNames` (each under the registry's lock),
or the answer of a handler. `ListTables` → (`QueryAll` on MySQL and PostgreSQL,
`Relist` and a `Pragma` per table on SQLite) for columns, keys and foreign keys
→ `Register` per table → `EndScan`; `QueryFails` is the catch of `main`.
`ChangeSchema` is somebody else's DDL at any moment. `LookUp` and `Answer` are a
handler that keeps its pointer while it waits for the database; `GetCached` is
one that Redis answers before the registry is asked. `BeginPart`, `DocTable` and
`ServeDoc` are `generateSpec`: its paths and its components come from two
readings of the registry. Whether the `$ref`s of a document resolve depends on
the order of these two, since the registry only grows. `quiet` and `snapshot`
are history: whether the schema has changed since the first query, and what
there was to read then.

### WritePipeline

A case is a table (its columns as the database defines them, the engine) with
the bodies that may come. `MetaColumn` is what the introspector and `TypeMapper`
make of a column; `validateCreate`, `validateUpdate`, `sanitize`,
`injectCreateWithMeta`, `injectUpdateWithMeta`, `injectCode` and the statements'
placeholders are operators named after the functions, and `Receive`, `Sanitize`,
`Inject`, `Insert` and `Update` are the handler, between whose steps other
handlers, the clock and changes of `FieldGuard`'s lists come. A JSON value is
its type and its size, for strings in characters and in bytes: the validator
counts bytes, the database and the document mean characters. A double is printed
with six digits and loses the others. A row keeps the cells that statements have
set, and `serializeRow` gives the *set* of types that a cell may be answered with:
one for most columns, null where there is no value, and for JSON text, which is
answered as what it parses to, the type that the client sent, or any type if the
text is a default of the database or a string. `JsonTexts` is the database, which
takes nothing but JSON into such a column.
`UpdateCells` computes what the database binds to each column from the numbers
of the placeholders, not from the columns, so that a wrong number shows. The
loops that number them are `Only`, a recursive function over the members, so
that proofs can speak of them. `CasesAssumption` says what a table and a body
are to a program that reads them: three engines, columns that are among the
modelled names, and values that a JSON parser returns.
`always`, `ever`, `writer` and `written` are history.

## 3. What TLC checks

All properties are described by the comment above their definition. Each run
of the first kind passes; for every property of it there is a mutant of the
code (an operator named after the definition it replaces, such as
`FailEndsBulk` for `Fail`) that TLC finds violating the property.

| Run | Question and bounds |
|---|---|
| `TieredCacheTiming` | How long can an outdated response be served? Both tiers, MySQL, all faults, one key, two GETs, one write, a TTL of 2 and a latency of 1; the clock reaches 7, one more than the largest bound, 2·(2+1). `BoundedStaleness`: at most `Ttl + Latency` in Redis, or in L1 without Redis, and twice that in L1 with Redis, because the back-fill starts a new TTL. |
| `TieredCacheScan` | Do two SCANs of up to two pages, interleaved with fills, back-fills and DELs, leave an old entry in Redis (`ClearedStaysFresh`), answer too early (`OwnWritesCleared`) or run forever (`EveryRequestAnswered`)? Two keys, so that a page can hold none, one or all. |
| `TieredCacheBulk` | Two processes with private caches, two tables of which one's name is a prefix of the other's, room for one of two keys (so that puts evict), single and bulk writes of up to two items on MySQL, failures of single items and crashes. The same three properties and `TypeOK`. |
| `RateLimiterWindow` | Two event loops, one client, a limit of 2, a clock of two ticks per second that runs for two windows: `WindowBound` (no interval of a window less `Delay` has more than the maximum), `RefusalDeserved`, `RetryAfterSuffices` (one second more than Retry-After is enough; Retry-After itself is rounded down and is not), `TypeOK`. |
| `RateLimiterPurge` | Two clients that go silent in turn: `IdleClientsForgotten`. The clock exceeds a window, a purge interval and the delay. |
| `LruCacheList` | `Coherent` (list and index agree), `IsRecencyCache` (refinement) and `WorkingSetKept` (a wanted key is given up only after `MaxSize` others were used). Three keys for two places, two TTLs, every operation. |
| `ListPages` | Two writes of any kind and a list, on either kind of engine, bulks of two items, lost replies. For the writes `AnswerTellsEffect`, `BulkAccountsForAll`, `TypeOK`; for the list `PageShape`, `TotalWasTrue`, `QuietPagesExact`. The default limit is 1, the cap 2 and a `size_t` has eight values, so that caps, defaults and wraps all happen with three ids. |
| `IntrospectionStart` | The start of a process on MySQL, SQLite and an engine that is not supported, beside one request, one document and one change of the schema: `QuietScanExact`, `FailedScanRegistersNothing`, `RefsResolve`, `IsWriteOnce` (refinement), `EverythingEnds`, `TypeOK`. Two tables, of which one has a name that SQLite's PRAGMA is not given. |
| `WritePipeline` | Every row of `TypeMapper`'s tables on three engines, with values of every JSON type and size at its limits; three overlapping requests on a table with audit columns while the clock moves; POSTs and PUTs while the blocklists change; keys that the database does not fill, composite and missing keys; JSON columns with defaults and as codes, written and overwritten: `ProtectedColumns`, `WrittenAsAccepted`, `AuditTrail`, `AcceptedIsWritable`, `PublishedSchemaHonoured`, `RowsAsPublished`, `TypeOK`. |

Three runs are expected to find a violation; each is a disagreement between the
code and what the repository says of it, and is listed under "findings":

| Run | What TLC finds |
|---|---|
| `TieredCacheRace` | A GET selects, a write commits and invalidates, the GET stores what it had read: `NoStaleDataAtRest` fails, and the outdated response is served for a TTL with no request in flight. `CacheManager.h:21` promises that invalidation "prevents stale data"; what holds is `BoundedStaleness` and `ClearedStaysFresh`. |
| `TieredCacheMySqlRequery` | An INSERT commits on MySQL, reading the row back fails, and the exception passes over `invalidateTable`: `OwnWritesCleared` fails. |
| `RowWritesLastId` | Two POSTs on MySQL: one is answered with the row that the other one inserted, because `LAST_INSERT_ID()` ran on the other connection. |

Several properties name the exceptions that the code makes to what one would
expect, so that everything beside them is checked; a change for the worse within
them would not be noticed. Four of them are divergences from what the repository
says, all reached in the runs:

- *Lengths in bytes.* The published `maxLength` is in characters, as in the
  database; `exceedsMaxLength` compares it with bytes, and rejects a string of two
  characters and three bytes for a column of two. `PublishedSchemaHonoured` says
  exactly this: a body that is as published is rejected if, and only if, it has
  such a string (`TooManyBytes`). README.md:130 of the repository has the document
  "accurate" for "every type".
- *JSON of any type.* A JSON column is published as an object and answered as what
  its text parses to: an array, a number, a string. The validator lets nothing but
  objects through, but it looks neither at a default of the database nor at a
  column named `code`. `RowsAsPublished` leaves these out (`Unchecked`) and says
  that every other value of every row has its published type.
- *SQLite's composite keys.* Every INTEGER column of a key is taken for an
  auto-increment column, "by nature" as `SQLiteIntrospector.cpp:83` says, which in
  a composite key it is not: a POST without it is accepted, and its INSERT lacks
  the value. `AcceptedIsWritable` leaves these columns out (`Misjudged`).
- *DELETE on MySQL.* The statement returns no rows and `handleDelete` judges by
  them: it answers 404 for a row that it has deleted. The `ShownIsEffect` part of
  `AnswerTellsEffect` is about the engines with RETURNING, on MySQL `UpdateIsTold`
  holds of PUT, and what a POST shows there is the violation `RowWritesLastId`.

Of the others the repository says nothing: `Kept` (digits of a double), `Vacant`
(a null, or an empty code, of a POST), the columns that `FieldGuard` strips and no
injector fills, and a body of which nothing is left (answered with 500).

**Why the bounds are enough.** The interesting events of each property need at
most two concurrent actors and one resource (a fill overtaken by a write, two
SCANs over one set of keys, two requests around a mutex, an INSERT between two
statements of another, a change between two queries of the introspection); a
third actor, where there is one, gives the first two a past. Clocks run beyond
the largest bound that a property states. Versions are bounded by the changes
that a property compares (one, or a change per instance). `MaxVersion`,
`MaxTime`, `MaxUses`, `MaxId` and `MaxChanges` bound counters in guards; the
theorems hold for every value of them.

**Fairness.** Two properties need it. `EveryRequestAnswered` assumes weak
fairness of the steps of each handler in flight: an event loop runs a coroutine
that is ready; Redis and the database answer or fail. That last part is an
assumption about the environment: `main.cpp:68` gives the Redis client no
timeout. `EverythingEnds` assumes the same of the introspection's coroutine (its
queries are answered; a failing query needs no fairness, it only ends the
introspection sooner), of a document that was begun and of a handler that holds
its table. No client is obliged to send a request, nobody is obliged to change
the schema, and neither crashes nor the clock are fair. An iteration of SCAN
ends because Redis's cursor goes round once, which the model states by the bound
`MaxPages` on the replies of one iteration. That the introspection ends on
SQLite rests on `Pragma` asking about each listed table once, whether or not the
table is still there.

Deadlock is checked everywhere except in the runs of `ListPages`, `RowWrites` and
`WritePipeline`, where every request is made once and the system stops when all
are answered.

## 4. What is proved

TLAPS checks these for every value of the constants, under the `ASSUME`s of the
modules (finite sets where cardinalities are taken, positive limits, sizes and
TTLs), which TLC evaluates in the runs.

| Theorem | Inductive invariant, and why the property alone is not inductive |
|---|---|
| `TieredCacheProofs!TypeCorrect` | `TypeOK /\ ItemsLeft`: a bulk handler at a statement has an item left, or its counter would leave its type. |
| `TieredCacheProofs!StalenessBounded` | `StalenessInv` adds bounds on when *each entry will expire* and on the values that suspended handlers hold: an entry that is not outdated yet, and a value not stored yet, must already be known to disappear in time. |
| `TieredCacheInvalidationProofs!ClearedIsFresh` | `FreshInv`: while a SCAN runs, every leftover older than it is still to be returned (`todo`) or returned and still to be deleted (`hits`); no invalidation is ahead of its table; a handler that has not reached its SCAN has not begun it. |
| `TieredCacheInvalidationProofs!ChangesAreInvalidated` | `OwnInv` names the debtor: a change that is not cleared yet is owed by a handler that will come to its `ClearL1` (`OwesClear`; a single statement that is not executed yet does not count, since it may fail, but a bulk request does), or whose SCAN has not begun or began after the change (`OwesScan`). The theorem assumes `StatementsAnswer`: no reply is lost and no re-read on MySQL fails. The run `TieredCacheMySqlRequery` shows that it must. |
| `RateLimiterProofs!TypeCorrect`, `WindowBounded`, `RefusalsDeserved`, `RetryAfterIsEnough`, `SilentClientsForgotten` | `LimitInv`: timestamps are out of order by at most `Delay` (`NearlySorted`); what has left a deque is older than a window by now (`DroppedOld`); a deque never holds more than the maximum (`SizeBounded`); the window bound holds for intervals that begin later, too (`AllWindows`); the oldest of the last admissions explains the Retry-After of a refusal (`RefusalExplained`); fronts are about as recent as the last purge (`PurgeInv`). The window bound alone says nothing of what a deque has forgotten. |
| `RecencyCacheProofs!WorkingSetIsKept` | `CacheInv`: numbers of uses are distinct, so a key that is given up is older than all the others, and so is every key given up before it. |
| `LruCacheProofs!IndexCoherent`, `ImplementsRecency`, `WorkingSetIsKept` | `LruInv`: the list is ranked by the numbers of the entries' last uses. So its keys are distinct (which `Coherent` needs: one entry for each iterator), and the entry at the back is the least recently used one, which is what the abstract cache gives up. The loop that erases (`Without`) is a recursive function over the list; what it leaves is shown by a least counterexample. `WorkingSetIsKept` is the abstract theorem carried over by the refinement. |
| `ListPagesProofs!TypeCorrect`, `AnswersTellEffects`, `BulkIsAccountedFor` | `RowInv`: rows shown, errors and items left of a bulk request add up at every step; a PUT that reads back holds the id of the row it changed; ids grow, so a deleted row stays deleted. |
| `ListPagesProofs!ListsLeaveWritersAlone` | None of its own: a step of a list is a stutter of `RowWrites`, so the theorems above hold of the system with lists. |
| `ListPagesProofs!PagesHaveTheirShape`, `TotalsWereTrue`, `QuietPagesAreExact` | `ListInv`: `RowInv`, types, and `ListSound`, which says of a list in flight that the rows that match now are among the sets `seen`, and of one past its SELECT that its page and `has_more` are those of *one* set in `seen` (`PageOf`). The COUNT comes later and may count another one; only that every set is remembered makes its total true, and only that there is one set makes page and total agree. |
| `IntrospectionProofs!TypeCorrect`, `FailureLeavesNothing`, `ReferencesResolve`, `RegistryIsWriteOnce` | `RegistryInv`: the registry is empty before the registering stage, and what is still to be registered is not yet; what the paths of a document refer to is registered by the time the components are listed, hence written or still to be written. |
| `IntrospectionProofs!QuietScanIsExact` | `QuietInv`: as long as nothing has changed, what was found of a table is what was there at the first query, as far as the queries have come (`Known`, by stages); on SQLite, the tables that a stage has asked about are one stage ahead of the others (`AskingInv`); and what is registered already is what the snapshot has of it (`RegisteringInv`). |
| `WritePipelineProofs!TypeCorrect`, `ProtectedStayProtected`, `AcceptedIsWritten`, `RowsNameTheirAuthors`, `AcceptedCanBeWritten`, `SchemaIsHonoured`, `RowsAnsweredAsPublished` | `PipelineInv` says of each body what the stages it has passed have made of it: accepted, if it is past the validator; `Stripped` (all its fields are the client's, and what was blocked throughout or by default is gone); `Filled` (every other field is an injected one, with the user and a moment of this request, and what the database wants is there, but for what was stripped and nothing fills); `Stored` (the cells of the statement are these fields, printed). The lists that `FieldGuard` uses at its one moment lie between `always` and `ever`, which is what lets the properties speak of lists that change. A row says who made it and who changed it last (`RowSound`), and keeps saying it while other requests overwrite the columns that are not theirs. Each of its cells is `CellSound`: null only if its column may be, and an object if it is JSON that the validator has seen, which no statement of any request can undo. |

Some lemmas about the operators carry these proofs.

- *Ranks.* `Rank(S, x)` counts the rows before `x`; different rows of `S` have
  different ranks below `Cardinality(S)` (`RankGrows`, `RankBelow`). So a set of
  rows within an interval of ranks is no larger than the interval (`RanksApart`),
  and a sorted result of the right size is *all* rows of its ranks
  (`SortedResult`); taking the probe row off removes the last (`SortedPage`).
- *Placeholders.* `CountPlace`: in what a loop over the members keeps, the place
  of a member is one more than the number of those kept before it. So the number
  that `UPDATE` prints for a column is the place of its parameter
  (`UpdateCellsRight`), the number of the WHERE clause comes after all of them
  (`WhereRight`), and nulls, which print no placeholder, shift nothing.
- *Types.* `TypesAreKinds`: every row of the three tables of `TypeMapper`, the
  fall-backs included, is one of twelve pairs of an SQL and a JSON type. On each
  pair the validator takes what the schema publishes, up to the bytes of a string
  (`ConformingFits`, `ConformingAccepted`, `TooManyBytesRejected`), and on each but that of JSON the
  serializer makes one type of every value, the published one; what it makes of
  JSON depends on the value, and the validator lets objects through only
  (`JsonIsObject`).
- *Windows.* `AdmitKeepsWindows`: if an interval already had the maximum of
  admissions of a client, all of them would still be in the deque when one more
  request of that interval is judged, so it would be refused.

The theorems assume nothing but the named `ASSUME`s of the modules, except where
the table says so. `ListInv` and `PipelineInv` were found by letting TLC evaluate
them in every reachable state of the runs `ListPages` and `WritePipeline`.

**Model-checked only.** The liveness properties `EveryRequestAnswered` and
`EverythingEnds`, which are beyond the prover, and the three violations. Every
other property of a run, invariants and refinements, is stated by a theorem.

## 5. What is not modelled, and why

- `ApiResponse`, the Swagger page, and the texts, examples and formats in
  `OpenApiGenerator`: layout, without state.
- `JwtFilter`, `CorsMiddleware`: a decision per request from the request
  alone, in a library for the token. No route is given these filters, so that
  `user_id` is never set in the program as it is; `WritePipeline` gives every
  request a user of its own, which is the stronger case.
- `HealthController`, `DatabaseManager`: clients are registered once at start,
  and a probe asks one after the other within one request.
- `EnvConfig`: a parser of lines, run once before the servers start.
- The text of SQL statements: quoting, operators of filters, and the renumbering
  of a `$` followed by digits inside a quoted name. `whereIn`, `whereNull` and
  `select` of `QueryBuilder`, `ModelRegistry::clear`, `RedisCache::invalidate`
  and the injectors without a schema are called by nobody.
- `JsonSerializer::serializeRowRaw`, and values that do not convert to the type of
  their column. In particular a boolean is bound as the text `true` or `false`,
  which some databases refuse or store as it is for a column that has numbers; in
  `WritePipeline` it stays the boolean it was, or the statement is refused.
- Memory safety below the operations: a configuration with a rate limit of zero
  reaches `front()` of an empty deque; the model excludes it by assumption, and
  the hazards name it. (A cache of no entries would be the same, but the only
  instance has 10000.)
- Composite primary keys as the target of `/{id}`: the code takes the first
  column, and nothing says what is intended.

Divergences beside those of section 3, in wording or configuration:
`main.cpp:117` logs that tables are unknown until the introspection ends, while
a GET may be answered from Redis before the registry is asked (`GetCached`);
`FieldGuard.h` says that `setBlockedFields` replaces the whole blocklist, and
the defaults are merged all the same (`getBlockedFields`).

## 6. What is left

- An abstract cache with bounded staleness that `TieredCache` implements; its
  content is proved as invariants today.
- `EnvConfig` and the health check, if they come to keep state.
