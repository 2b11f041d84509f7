---------------------------- MODULE Introspection ----------------------------
(***************************************************************************)
(* The schema is read once, after the event loops have started, by a       *)
(* coroutine that waits for one query after the other, and is registered   *)
(* table by table.  Meanwhile the schema may change, and requests for      *)
(* tables and for the OpenAPI document are already served by other event   *)
(* loops from whatever is registered.                                      *)
(*                                                                         *)
(* A query is one action and reads the catalogue as it is at that moment.  *)
(* registerTable, getTable and getTableNames are one action each, since    *)
(* each holds the registry's lock; two calls of them are two actions.      *)
(***************************************************************************)
EXTENDS Integers, Sequences, FiniteSets

CONSTANTS
    Tables,       \* names of tables
    ValidNames,   \* those that SQLiteIntrospector::isValidTableName accepts
    Columns,      \* names of columns
    Definitions,  \* definitions that a table may have in the database
    Engines,      \* DB_ENGINE of the processes considered
    Requests,     \* requests for a table that may be served at the same time
    Leftover,     \* tables with a response that an earlier process left in Redis
    MaxChanges    \* bound on the changes of the schema

\* A table that is not there has no rows in any catalogue.
NoTable == [columns |-> {}, keys |-> {}, refs |-> {}]

\* Of a definition, refs stands for the foreign keys by their columns.
ASSUME SchemaAssumption ==
    /\ IsFiniteSet(Tables)
    /\ ValidNames \subseteq Tables
    /\ Definitions \subseteq [columns : SUBSET Columns, keys : SUBSET Columns,
                              refs : SUBSET Columns]
    /\ \A d \in Definitions : d.keys \subseteq d.columns
    /\ NoTable \notin Definitions
    /\ Leftover \subseteq Tables
    /\ MaxChanges \in Nat

VARIABLES
    engine,      \* DB_ENGINE
    definition,  \* definition[t]: how t is defined in the database
    changes,     \* number of changes of the schema so far
    stage,       \* what introspectSchema waits for
    listed,      \* its local tables
    relisted,    \* SQLite: the stage has read its own list of the tables
    todo,        \* tables to ask about (SQLite), or to register
    found,       \* found[t]: what the queries said of t so far
    registered,  \* the keys of tables_ of ModelRegistry
    entries,     \* its values
    request,     \* request[r]: a request for a table
    docPart,     \* the part that generateSpec is at, 0 when the document is served
    docTodo,     \* names that it still has to go through
    doc,         \* what it has written: the schemas referred to, and the schemas
    quiet,       \* history: no change since the introspection's first query
    snapshot     \* history: what there was to read at that time

catalogue == <<definition, changes, quiet>>
scanVars  == <<stage, listed, relisted, todo, found, snapshot>>
registry  == <<registered, entries>>
docVars   == <<docPart, docTodo, doc>>
vars      == <<engine, catalogue, scanVars, registry, request, docVars>>

Supported == {"mysql", "postgresql", "sqlite3"}
Queries   == {"tables", "columns", "keys", "refs"}
Stages    == Queries \cup {"start", "register", "done", "failed"}

\* TableMeta: flagged is the set of the columns with isPrimaryKey.
Meta  == [columns : SUBSET Columns, flagged : SUBSET Columns,
          keys : SUBSET Columns, refs : SUBSET Columns]
Blank == [columns |-> {}, flagged |-> {}, keys |-> {}, refs |-> {}]

\* What is to be registered of a table that is defined as d.
MetaOf(d) == [columns |-> d.columns, flagged |-> d.keys, keys |-> d.keys, refs |-> d.refs]

Idle == [pc |-> "idle"]
Held == [pc : {"held"}, table : Tables, meta : Meta]
Done == [pc : {"answered"}, table : Tables, status : {200, 404}]

SchemaNames == Tables \X {"row", "create", "update"}
Document == [{"paths", "components"} -> SUBSET SchemaNames]
EmptyDoc == [part \in {"paths", "components"} |-> {}]

Init ==
    /\ engine \in Engines
    /\ definition \in [Tables -> Definitions \cup {NoTable}]
    /\ changes = 0
    /\ stage = "start"
    /\ listed = {} /\ relisted = FALSE /\ todo = {}
    /\ found = [t \in Tables |-> Blank]
    /\ registered = {}
    /\ entries = [t \in Tables |-> Blank]
    /\ request = [r \in Requests |-> Idle]
    /\ docPart = 0 /\ docTodo = {} /\ doc = EmptyDoc
    /\ quiet = TRUE
    /\ snapshot = [t \in Tables |-> Blank]

-----------------------------------------------------------------------------
(* The introspection *)

Present == {t \in Tables : definition[t] # NoTable}

\* What the queries for columns, keys and foreign keys add to what is known of
\* t.  SQLite's PRAGMA marks the key columns already in the first of them.
ColumnsSeen(t) ==
    [found[t] EXCEPT !.columns = definition[t].columns,
                     !.flagged = IF engine = "sqlite3" THEN definition[t].keys ELSE {}]
KeysSeen(t) == [found[t] EXCEPT !.keys = definition[t].keys]
RefsSeen(t) == [found[t] EXCEPT !.refs = definition[t].refs]

Seen(t) ==
    CASE stage = "columns" -> ColumnsSeen(t)
      [] stage = "keys"    -> KeysSeen(t)
      [] stage = "refs"    -> RefsSeen(t)

\* The last query is followed by the loop that registers the tables.
EndStage ==
    /\ stage' = CASE stage = "columns" -> "keys"
                  [] stage = "keys"    -> "refs"
                  [] stage = "refs"    -> "register"
    /\ todo' = IF stage = "refs" THEN listed ELSE {}
    /\ relisted' = FALSE

\* The beginning advice of main: create throws for an engine it does not know.
StartScan ==
    /\ stage = "start"
    /\ stage' = IF engine \in Supported THEN "tables" ELSE "failed"
    /\ UNCHANGED <<engine, catalogue, listed, relisted, todo, found, snapshot,
                   registry, request, docVars>>

\* discoverTables.
ListTables ==
    /\ stage = "tables"
    /\ stage' = "columns"
    /\ listed' = Present
    /\ quiet' = TRUE
    /\ snapshot' = [t \in Tables |-> MetaOf(definition[t])]
    /\ UNCHANGED <<engine, definition, changes, relisted, todo, found,
                   registry, request, docVars>>

\* MySQL and PostgreSQL: one query for all the columns, keys or foreign keys.
QueryAll ==
    /\ stage \in {"columns", "keys", "refs"}
    /\ engine # "sqlite3"
    /\ found' = [t \in Tables |-> Seen(t)]
    /\ EndStage
    /\ UNCHANGED <<engine, catalogue, listed, snapshot, registry, request, docVars>>

\* SQLite lists the tables anew in every stage, and leaves out the names that
\* it cannot put into a PRAGMA.
Relist ==
    /\ stage \in {"columns", "keys", "refs"}
    /\ engine = "sqlite3" /\ ~relisted
    /\ IF Present \cap ValidNames = {}
       THEN EndStage
       ELSE /\ todo' = Present \cap ValidNames
            /\ relisted' = TRUE
            /\ UNCHANGED stage
    /\ UNCHANGED <<engine, catalogue, listed, found, snapshot, registry, request, docVars>>

\* Mutant of Pragma: a table that has gone in between is asked about again.
PragmaRetries(t) ==
    /\ stage \in {"columns", "keys", "refs"}
    /\ relisted /\ t \in todo
    /\ found' = [found EXCEPT ![t] = Seen(t)]
    /\ IF todo = {t} /\ t \in Present
       THEN EndStage
       ELSE /\ todo' = IF t \in Present THEN todo \ {t} ELSE todo
            /\ UNCHANGED <<stage, relisted>>
    /\ UNCHANGED <<engine, catalogue, listed, snapshot, registry, request, docVars>>

Pragma(t) ==
    /\ stage \in {"columns", "keys", "refs"}
    /\ relisted /\ t \in todo
    /\ found' = [found EXCEPT ![t] = Seen(t)]
    /\ IF todo = {t}
       THEN EndStage
       ELSE todo' = todo \ {t} /\ UNCHANGED <<stage, relisted>>
    /\ UNCHANGED <<engine, catalogue, listed, snapshot, registry, request, docVars>>

\* A query throws; main.cpp logs it, and the coroutine is at its end.
QueryFails ==
    /\ stage \in Queries
    /\ stage' = "failed"
    /\ listed' = {} /\ relisted' = FALSE /\ todo' = {}
    /\ found' = [t \in Tables |-> Blank]
    /\ UNCHANGED <<engine, catalogue, snapshot, registry, request, docVars>>

\* The loop of introspectSchema puts the answers for t together.
Assembled(t) ==
    [found[t] EXCEPT !.flagged = @ \cup (found[t].keys \cap found[t].columns)]

\* Mutant of Register: an entry is published before its flags are set.
RegisterUnflagged(t) ==
    /\ stage = "register" /\ t \in todo
    /\ registered' = registered \cup {t}
    /\ entries' = [entries EXCEPT ![t] = found[t]]
    /\ todo' = todo \ {t}
    /\ UNCHANGED <<engine, catalogue, stage, listed, relisted, found, snapshot,
                   request, docVars>>

\* Mutant of Register: a blank entry is published first and filled in later.
RegisterInTwoSteps(t) ==
    /\ stage = "register" /\ t \in todo
    /\ registered' = registered \cup {t}
    /\ entries' = [entries EXCEPT ![t] = IF t \in registered THEN Assembled(t) ELSE Blank]
    /\ todo' = IF t \in registered THEN todo \ {t} ELSE todo
    /\ UNCHANGED <<engine, catalogue, stage, listed, relisted, found, snapshot,
                   request, docVars>>

Register(t) ==
    /\ stage = "register" /\ t \in todo
    /\ registered' = registered \cup {t}
    /\ entries' = [entries EXCEPT ![t] = Assembled(t)]
    /\ todo' = todo \ {t}
    /\ UNCHANGED <<engine, catalogue, stage, listed, relisted, found, snapshot,
                   request, docVars>>

EndScan ==
    /\ stage = "register" /\ todo = {}
    /\ stage' = "done"
    /\ listed' = {}
    /\ found' = [t \in Tables |-> Blank]
    /\ UNCHANGED <<engine, catalogue, relisted, todo, snapshot, registry, request, docVars>>

-----------------------------------------------------------------------------
(* The database: others create, drop and alter tables *)

ChangeSchema(t, d) ==
    /\ changes < MaxChanges /\ d # definition[t]
    /\ changes' = changes + 1
    /\ definition' = [definition EXCEPT ![t] = d]
    /\ quiet' = (quiet /\ stage \notin {"columns", "keys", "refs"})
    /\ UNCHANGED <<engine, scanVars, registry, request, docVars>>

-----------------------------------------------------------------------------
(* Requests *)

\* A GET whose response is still in Redis is answered before getTable.
GetCached(r, t) ==
    /\ request[r].pc # "held" /\ t \in Leftover
    /\ request' = [request EXCEPT ![r] = [pc |-> "answered", table |-> t, status |-> 200]]
    /\ UNCHANGED <<engine, catalogue, scanVars, registry, docVars>>

\* Mutant of LookUp: the map is asked with [], which inserts a blank entry.
LookUpInserts(r, t) ==
    /\ request[r].pc # "held"
    /\ request' = [request EXCEPT ![r] = [pc |-> "held", table |-> t, meta |-> entries[t]]]
    /\ registered' = registered \cup {t}
    /\ UNCHANGED <<engine, catalogue, scanVars, entries, docVars>>

\* getTable: the handler keeps the pointer while it waits for the database.
LookUp(r, t) ==
    /\ request[r].pc # "held"
    /\ request' = [request EXCEPT ![r] =
          IF t \in registered
          THEN [pc |-> "held", table |-> t, meta |-> entries[t]]
          ELSE [pc |-> "answered", table |-> t, status |-> 404]]
    /\ UNCHANGED <<engine, catalogue, scanVars, registry, docVars>>

\* The row is serialized with what the pointer points to.
Answer(r) ==
    /\ request[r].pc = "held"
    /\ request' = [request EXCEPT ![r] = [pc |-> "answered", table |-> request[r].table,
                                          status |-> 200]]
    /\ UNCHANGED <<engine, catalogue, scanVars, registry, docVars>>

-----------------------------------------------------------------------------
(* generateSpec *)

\* Mutant of DocOrder: the schemas are generated before the paths.
DocOrderSwapped == <<"components", "paths">>

\* Each part reads the names of the tables for itself.
DocOrder == <<"paths", "components">>

\* The schemas that the list, item and bulk paths of t refer to.
TablePaths(t) == {<<t, "row">>, <<t, "create">>}
ItemPaths(t)  == {<<t, "row">>, <<t, "update">>}
BulkPath(t)   == {<<t, "create">>}

\* The schemas of t.
Components(t) == {<<t, "row">>, <<t, "create">>, <<t, "update">>}

Written(part, t) ==
    IF part = "paths" THEN TablePaths(t) \cup ItemPaths(t) \cup BulkPath(t)
                      ELSE Components(t)

\* Mutant of BeginPart: one part too many.
BeginPartTooMany ==
    /\ docPart <= Len(DocOrder) /\ docTodo = {}
    /\ docPart' = docPart + 1
    /\ docTodo' = registered
    /\ doc' = IF docPart = 0 THEN EmptyDoc ELSE doc
    /\ UNCHANGED <<engine, catalogue, scanVars, registry, request>>

\* getTableNames of generatePaths or of generateComponents.
BeginPart ==
    /\ docPart < Len(DocOrder) /\ docTodo = {}
    /\ docPart' = docPart + 1
    /\ docTodo' = registered
    /\ doc' = IF docPart = 0 THEN EmptyDoc ELSE doc
    /\ UNCHANGED <<engine, catalogue, scanVars, registry, request>>

\* getTable for one of the names, and what is written of it.
DocTable(t) ==
    /\ t \in docTodo
    /\ docTodo' = docTodo \ {t}
    /\ doc' = IF t \in registered
              THEN [doc EXCEPT ![DocOrder[docPart]] = @ \cup Written(DocOrder[docPart], t)]
              ELSE doc
    /\ UNCHANGED <<engine, catalogue, scanVars, registry, request, docPart>>

ServeDoc ==
    /\ docPart = Len(DocOrder) /\ docTodo = {}
    /\ docPart' = 0
    /\ UNCHANGED <<engine, catalogue, scanVars, registry, request, docTodo, doc>>

-----------------------------------------------------------------------------

Scan ==
    \/ StartScan \/ ListTables \/ QueryAll \/ Relist \/ EndScan
    \/ \E t \in Tables : Pragma(t) \/ Register(t)

Docs == BeginPart \/ ServeDoc \/ \E t \in Tables : DocTable(t)

Next ==
    \/ Scan
    \/ QueryFails
    \/ \E t \in Tables, d \in Definitions \cup {NoTable} : ChangeSchema(t, d)
    \/ \E r \in Requests :
          \/ \E t \in Tables : GetCached(r, t) \/ LookUp(r, t)
          \/ Answer(r)
    \/ Docs

Spec == Init /\ [][Next]_vars

\* The database answers the introspection's queries (or one of them fails),
\* and a handler that was begun goes on.
FairSpec ==
    /\ Spec
    /\ WF_vars(Scan)
    /\ WF_vars(docPart # 0 /\ Docs)
    /\ \A r \in Requests : WF_vars(Answer(r))

-----------------------------------------------------------------------------
(* Properties *)

\* Type invariant.
TypeOK ==
    /\ engine \in Engines
    /\ definition \in [Tables -> Definitions \cup {NoTable}]
    /\ changes \in 0..MaxChanges
    /\ stage \in Stages
    /\ listed \subseteq Tables /\ todo \subseteq Tables
    /\ relisted \in BOOLEAN
    /\ found \in [Tables -> Meta]
    /\ registered \subseteq Tables
    /\ entries \in [Tables -> Meta]
    /\ request \in [Requests -> Held \cup Done \cup {Idle}]
    /\ docPart \in 0..2 /\ docTodo \subseteq Tables
    /\ doc \in Document
    /\ quiet \in BOOLEAN
    /\ snapshot \in [Tables -> Meta]

\* Every $ref of a served document resolves in it, although the tables that
\* the paths list and those that the components list are read one after the
\* other while the registry is being filled.
RefsResolve == docPart = 0 => doc["paths"] \subseteq doc["components"]

\* An introspection of which any query fails leaves nothing behind: requests
\* see no table at all, never some tables, or tables without their keys
\* (main.cpp:166, "Application will continue but blueprint CRUD will not work").
FailedScanRegistersNothing == stage = "failed" => registered = {}

\* What the introspection registers is put together from the answers to
\* several queries.  If the schema did not change between the first of them and
\* the last, that is as good as one look at it: every table there was is
\* registered in the end, and no other, with its definition.  Of a table whose
\* name SQLite's PRAGMA is not given only the name is.
QuietScanExact ==
    quiet /\ stage = "done" =>
        /\ registered = {t \in Tables : snapshot[t] # Blank}
        /\ \A t \in registered :
              entries[t] = IF engine = "sqlite3" /\ t \notin ValidNames
                           THEN Blank ELSE snapshot[t]

\* A handler keeps the pointer that getTable returned while it waits for the
\* database.  That is sound because the registry is a map that only grows and
\* whose entries never change, whatever happens to the schema meanwhile
\* (README.md:185, "All request handling is read-only against this registry").
Registry == INSTANCE WriteOnceMap WITH Entry <- Meta

IsWriteOnce == Registry!Spec

\* The introspection comes to an end whatever happens to the schema meanwhile,
\* even if tables vanish between being listed and being asked about; every
\* request that found its table and every document that was begun is answered.
EverythingEnds ==
    /\ <>(stage \in {"done", "failed"})
    /\ \A r \in Requests : request[r].pc = "held" ~> request[r].pc = "answered"
    /\ docPart = 1 ~> docPart = 0
=============================================================================
