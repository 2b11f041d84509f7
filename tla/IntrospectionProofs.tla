-------------------------- MODULE IntrospectionProofs --------------------------
(***************************************************************************)
(* Proofs about Introspection: for any tables, definitions and engines,    *)
(* however requests, documents and changes of the schema come between the  *)
(* queries, what the registry says is whole, true of the moment if there   *)
(* was such a moment, and never taken back.                                *)
(***************************************************************************)
EXTENDS Introspection, TLAPS

\* The reference of a document that is being written: the names still to go
\* through are registered; a schema that a path refers to is that of a table
\* that is registered, and whose schemas are there or still to come.
DocInv ==
    /\ docPart = 0 => docTodo = {} /\ doc["paths"] \subseteq doc["components"]
    /\ docTodo \subseteq registered
    /\ docPart = 1 => \A s \in doc["paths"] : s[1] \in registered
    /\ docPart = 2 => \A s \in doc["paths"] : s[1] \in docTodo \/ s \in doc["components"]

\* Nothing is registered before the last query has been answered, and then
\* nothing twice.
ScanInv ==
    /\ stage \in Queries \cup {"start", "failed"} => registered = {}
    /\ stage = "register" => todo \cap registered = {}

RegistryInv == TypeOK /\ ScanInv /\ DocInv

\* What the first n of the stages columns, keys and refs find out about t, if
\* the schema does not change.
Known(t, n) ==
    IF engine = "sqlite3" /\ t \notin ValidNames THEN Blank
    ELSE [columns |-> IF n >= 1 THEN snapshot[t].columns ELSE {},
          flagged |-> IF n >= 1 /\ engine = "sqlite3" THEN snapshot[t].keys ELSE {},
          keys    |-> IF n >= 2 THEN snapshot[t].keys ELSE {},
          refs    |-> IF n >= 3 THEN snapshot[t].refs ELSE {}]

\* What is to be registered of t.
Exact(t) == IF engine = "sqlite3" /\ t \notin ValidNames THEN Blank ELSE snapshot[t]

\* The number of the stages columns, keys and refs that are over.
Round == IF stage = "columns" THEN 0 ELSE IF stage = "keys" THEN 1
         ELSE IF stage = "refs" THEN 2 ELSE 3

\* In the three stages the catalogue is as it was, and the tables that were
\* asked about are a stage ahead of the others.
AskingInv ==
    /\ \A t \in Tables : snapshot[t] = MetaOf(definition[t])
    /\ relisted => todo \subseteq ValidNames
    /\ \A t \in Tables :
          found[t] = Known(t, IF relisted /\ t \notin todo THEN Round + 1 ELSE Round)

\* While the tables are registered.
RegisteringInv ==
    /\ \A t \in Tables : found[t] = Known(t, 3)
    /\ registered \subseteq listed /\ todo = listed \ registered
    /\ \A t \in registered : entries[t] = Exact(t)

\* The inductive invariant behind QuietScanExact.
QuietInv ==
    /\ stage \in {"start", "tables"} => ~relisted /\ \A t \in Tables : found[t] = Blank
    /\ relisted => engine = "sqlite3"
    /\ \A t \in Tables : /\ snapshot[t].flagged = snapshot[t].keys
                         /\ snapshot[t].keys \subseteq snapshot[t].columns
    /\ quiet /\ stage \in {"columns", "keys", "refs", "register"} =>
          listed = {t \in Tables : snapshot[t] # Blank}
    /\ quiet /\ stage \in {"columns", "keys", "refs"} => AskingInv
    /\ quiet /\ stage = "register" => RegisteringInv
    /\ QuietScanExact

\* What remains of Next beside the introspection and the documents.
Requesting == \E r \in Requests :
    (\E t \in Tables : GetCached(r, t) \/ LookUp(r, t)) \/ Answer(r)
Others ==
    \/ QueryFails
    \/ \E t \in Tables, d \in Definitions \cup {NoTable} : ChangeSchema(t, d)
    \/ Requesting

-----------------------------------------------------------------------------
(* Types *)

\* A definition in the database has the parts of a Meta, its key among its columns.
LEMMA DefinitionType ==
    ASSUME NEW d \in Definitions \cup {NoTable}
    PROVE  /\ d \in [columns : SUBSET Columns, keys : SUBSET Columns, refs : SUBSET Columns]
           /\ d.keys \subseteq d.columns
           /\ MetaOf(d) \in Meta
           /\ MetaOf(d) = Blank <=> d = NoTable
<1>1. d \in [columns : SUBSET Columns, keys : SUBSET Columns, refs : SUBSET Columns]
    BY SchemaAssumption DEF NoTable
<1>2. d.keys \subseteq d.columns
    BY SchemaAssumption DEF NoTable
<1>3. MetaOf(d) \in Meta
    BY <1>1 DEF MetaOf, Meta
<1>4. MetaOf(d) = Blank => d = NoTable
    BY <1>1 DEF MetaOf, Blank, NoTable
<1>5. MetaOf(NoTable) = Blank
    BY DEF MetaOf, Blank, NoTable
<1> QED BY <1>1, <1>2, <1>3, <1>4, <1>5

\* What a query adds to what is known of a table leaves it a Meta.
LEMMA SeenType ==
    ASSUME TypeOK, stage \in {"columns", "keys", "refs"}, NEW t \in Tables
    PROVE  Seen(t) \in Meta
<1>1. found[t] \in Meta /\ definition[t] \in Definitions \cup {NoTable}
    BY DEF TypeOK
<1>2. definition[t] \in [columns : SUBSET Columns, keys : SUBSET Columns,
                         refs : SUBSET Columns]
    BY <1>1, DefinitionType
<1>3. ColumnsSeen(t) \in Meta
    BY <1>1, <1>2 DEF ColumnsSeen, Meta
<1>4. KeysSeen(t) \in Meta
    BY <1>1, <1>2 DEF KeysSeen, Meta
<1>5. RefsSeen(t) \in Meta
    BY <1>1, <1>2 DEF RefsSeen, Meta
<1> QED BY <1>3, <1>4, <1>5 DEF Seen

\* The blank entry is a Meta.
LEMMA BlankType == Blank \in Meta
BY DEF Blank, Meta

\* What introspectSchema puts together is a Meta.
LEMMA AssembledType ==
    ASSUME TypeOK, NEW t \in Tables
    PROVE  Assembled(t) \in Meta
<1>1. found[t] \in Meta
    BY DEF TypeOK
<1>2. found[t].flagged \cup (found[t].keys \cap found[t].columns) \in SUBSET Columns
    BY <1>1 DEF Meta
<1> QED BY <1>1, <1>2 DEF Assembled, Meta

\* The names that generateSpec writes are names of schemas.
LEMMA WrittenType ==
    ASSUME NEW t \in Tables, NEW part
    PROVE  Written(part, t) \subseteq SchemaNames
BY DEF Written, TablePaths, ItemPaths, BulkPath, Components, SchemaNames

\* The end of a stage keeps the types of the variables it sets.
LEMMA EndStageType ==
    ASSUME TypeOK, EndStage, stage \in {"columns", "keys", "refs"}
    PROVE  stage' \in Stages /\ todo' \subseteq Tables /\ relisted' \in BOOLEAN
BY DEF TypeOK, EndStage, Stages, Queries

-----------------------------------------------------------------------------
(* Type correctness *)

\* The introspection keeps the types.
LEMMA ScanTyped ==
    ASSUME TypeOK, Scan
    PROVE  TypeOK'
<1> USE DEF catalogue, scanVars, registry, docVars
<1>1. CASE StartScan
    BY <1>1 DEF StartScan, TypeOK, Stages, Queries
<1>2. CASE ListTables
    <2>1. Present \subseteq Tables
        BY DEF Present
    <2>2. \A t \in Tables : MetaOf(definition[t]) \in Meta
        BY DefinitionType DEF TypeOK
    <2>3. [t \in Tables |-> MetaOf(definition[t])] \in [Tables -> Meta]
        BY <2>2
    <2> QED BY <1>2, <2>1, <2>3 DEF ListTables, TypeOK, Stages, Queries
<1>3. CASE QueryAll
    <2>1. found' \in [Tables -> Meta]
        BY <1>3, SeenType DEF QueryAll
    <2>2. stage' \in Stages /\ todo' \subseteq Tables /\ relisted' \in BOOLEAN
        BY <1>3, EndStageType DEF QueryAll
    <2> QED BY <1>3, <2>1, <2>2 DEF QueryAll, TypeOK
<1>4. CASE Relist
    <2>1. stage' \in Stages /\ todo' \subseteq Tables /\ relisted' \in BOOLEAN
        <3>1. CASE EndStage
            BY <1>4, <3>1, EndStageType DEF Relist
        <3>2. CASE ~EndStage
            BY <1>4, <3>2 DEF Relist, Present, TypeOK
        <3> QED BY <3>1, <3>2
    <2> QED BY <1>4, <2>1 DEF Relist, TypeOK
<1>5. CASE EndScan
    BY <1>5, BlankType DEF EndScan, TypeOK, Stages
<1>6. ASSUME NEW t \in Tables, Pragma(t)
      PROVE  TypeOK'
    <2>1. found' \in [Tables -> Meta]
        BY <1>6, SeenType DEF Pragma, TypeOK
    <2>2. stage' \in Stages /\ todo' \subseteq Tables /\ relisted' \in BOOLEAN
        <3>1. CASE EndStage
            BY <1>6, <3>1, EndStageType DEF Pragma
        <3>2. CASE ~EndStage
            BY <1>6, <3>2 DEF Pragma, TypeOK
        <3> QED BY <3>1, <3>2
    <2> QED BY <1>6, <2>1, <2>2 DEF Pragma, TypeOK
<1>7. ASSUME NEW t \in Tables, Register(t)
      PROVE  TypeOK'
    <2>1. entries' \in [Tables -> Meta]
        BY <1>7, AssembledType DEF Register, TypeOK
    <2> QED BY <1>7, <2>1 DEF Register, TypeOK
<1> QED BY <1>1, <1>2, <1>3, <1>4, <1>5, <1>6, <1>7 DEF Scan

\* The documents keep the types.
LEMMA DocsTyped ==
    ASSUME TypeOK, DocInv, Docs
    PROVE  TypeOK'
<1> USE DEF catalogue, scanVars, registry, docVars
<1>1. CASE BeginPart
    <2>1. docPart' \in 0..2 /\ docTodo' \subseteq Tables
        BY <1>1 DEF BeginPart, DocOrder, TypeOK
    <2>2. doc' \in Document
        BY <1>1 DEF BeginPart, TypeOK, Document, EmptyDoc
    <2> QED BY <1>1, <2>1, <2>2 DEF BeginPart, TypeOK
<1>2. CASE ServeDoc
    BY <1>2 DEF ServeDoc, TypeOK
<1>3. ASSUME NEW t \in Tables, DocTable(t)
      PROVE  TypeOK'
    <2>1. docPart \in 1..2
        BY <1>3 DEF DocTable, DocInv, TypeOK
    <2>2. DocOrder[docPart] \in {"paths", "components"}
        BY <2>1 DEF DocOrder
    <2>3. doc' \in Document
        BY <1>3, <2>2, WrittenType DEF DocTable, TypeOK, Document
    <2> QED BY <1>3, <2>3 DEF DocTable, TypeOK
<1> QED BY <1>1, <1>2, <1>3 DEF Docs

\* A failing query, what others do to the schema, and the requests keep the types.
LEMMA OthersTyped ==
    ASSUME TypeOK, Others
    PROVE  TypeOK'
<1> USE DEF catalogue, scanVars, registry, docVars
<1>1. CASE QueryFails
    BY <1>1, BlankType DEF QueryFails, TypeOK, Stages
<1>2. ASSUME NEW t \in Tables, NEW d \in Definitions \cup {NoTable}, ChangeSchema(t, d)
      PROVE  TypeOK'
    <2>1. changes' \in 0..MaxChanges
        BY <1>2, SchemaAssumption DEF ChangeSchema, TypeOK
    <2>2. definition' \in [Tables -> Definitions \cup {NoTable}]
        BY <1>2 DEF ChangeSchema, TypeOK
    <2>3. quiet' \in BOOLEAN
        BY <1>2 DEF ChangeSchema
    <2> QED BY <1>2, <2>1, <2>2, <2>3 DEF ChangeSchema, TypeOK
<1>3. ASSUME NEW r \in Requests, NEW t \in Tables, GetCached(r, t)
      PROVE  TypeOK'
    <2>1. [pc |-> "answered", table |-> t, status |-> 200] \in Done
        BY DEF Done
    <2>2. request' \in [Requests -> Held \cup Done \cup {Idle}]
        BY <1>3, <2>1 DEF GetCached, TypeOK
    <2> QED BY <1>3, <2>2 DEF GetCached, TypeOK
<1>4. ASSUME NEW r \in Requests, NEW t \in Tables, LookUp(r, t)
      PROVE  TypeOK'
    <2>1. /\ [pc |-> "held", table |-> t, meta |-> entries[t]] \in Held
          /\ [pc |-> "answered", table |-> t, status |-> 404] \in Done
        BY DEF Done, Held, TypeOK
    <2>2. request' \in [Requests -> Held \cup Done \cup {Idle}]
        BY <1>4, <2>1 DEF LookUp, TypeOK
    <2> QED BY <1>4, <2>2 DEF LookUp, TypeOK
<1>5. ASSUME NEW r \in Requests, Answer(r)
      PROVE  TypeOK'
    <2>1. request[r].table \in Tables
        BY <1>5 DEF Answer, TypeOK, Held, Done, Idle
    <2>2. [pc |-> "answered", table |-> request[r].table, status |-> 200] \in Done
        BY <2>1 DEF Done
    <2>3. request' \in [Requests -> Held \cup Done \cup {Idle}]
        BY <1>5, <2>2 DEF Answer, TypeOK
    <2> QED BY <1>5, <2>3 DEF Answer, TypeOK
<1> QED BY <1>1, <1>2, <1>3, <1>4, <1>5 DEF Others, Requesting

-----------------------------------------------------------------------------
(* The registry and the documents *)

\* A step of the introspection registers one table that was not, or none.
LEMMA ScanRegisters ==
    ASSUME TypeOK, ScanInv, Scan
    PROVE  /\ ScanInv'
           /\ UNCHANGED docVars
           /\ \/ UNCHANGED registry
              \/ \E t \in Tables, e \in Meta : Registry!Publish(t, e)
<1> USE DEF catalogue, scanVars, registry, docVars
<1>1. CASE StartScan
    BY <1>1 DEF StartScan, ScanInv, Queries
<1>2. CASE ListTables
    BY <1>2 DEF ListTables, ScanInv, Queries
<1>3. CASE QueryAll
    BY <1>3 DEF QueryAll, EndStage, ScanInv, Queries
<1>4. CASE Relist
    BY <1>4 DEF Relist, EndStage, ScanInv, Queries
<1>5. CASE EndScan
    BY <1>5 DEF EndScan, ScanInv, Queries
<1>6. ASSUME NEW t \in Tables, Pragma(t)
      PROVE  ScanInv' /\ UNCHANGED <<docVars, registry>>
    BY <1>6 DEF Pragma, EndStage, ScanInv, Queries
<1>7. ASSUME NEW t \in Tables, Register(t)
      PROVE  /\ ScanInv' /\ UNCHANGED docVars
             /\ Registry!Publish(t, Assembled(t)) /\ Assembled(t) \in Meta
    <2>1. ScanInv' /\ UNCHANGED docVars
        BY <1>7 DEF Register, ScanInv, Queries
    <2>2. Registry!Publish(t, Assembled(t))
        BY <1>7 DEF Register, ScanInv, Registry!Publish
    <2> QED BY <2>1, <2>2, AssembledType
<1> QED BY <1>1, <1>2, <1>3, <1>4, <1>5, <1>6, <1>7 DEF Scan

\* Neither the documents nor anything else touches the registry.
LEMMA RegistryKept ==
    ASSUME TypeOK, ScanInv, Docs \/ Others \/ UNCHANGED vars
    PROVE  ScanInv' /\ UNCHANGED registry
<1> USE DEF catalogue, scanVars, registry, docVars
<1>1. CASE Docs
    BY <1>1 DEF Docs, BeginPart, ServeDoc, DocTable, ScanInv
<1>2. CASE QueryFails
    BY <1>2 DEF QueryFails, ScanInv
<1>3. CASE \E t \in Tables, d \in Definitions \cup {NoTable} : ChangeSchema(t, d)
    BY <1>3 DEF ChangeSchema, ScanInv
<1>4. CASE Requesting
    BY <1>4 DEF Requesting, GetCached, LookUp, Answer, ScanInv
<1>5. CASE UNCHANGED vars
    BY <1>5 DEF vars, ScanInv
<1> QED BY <1>1, <1>2, <1>3, <1>4, <1>5 DEF Others

\* The names and schemas that a document has been given so far are not lost
\* when a table is registered.
LEMMA RegisteringKeepsDocs ==
    ASSUME DocInv, UNCHANGED docVars, registered \subseteq registered'
    PROVE  DocInv'
BY DEF DocInv, docVars

\* Writing a document keeps its references resolvable.
LEMMA DocsResolve ==
    ASSUME TypeOK, DocInv, Docs
    PROVE  DocInv'
<1> USE DEF catalogue, scanVars, registry, docVars
<1>1. CASE BeginPart
    <2>1. CASE docPart = 0
        BY <1>1, <2>1 DEF BeginPart, DocInv, EmptyDoc
    <2>2. CASE docPart = 1
        BY <1>1, <2>2 DEF BeginPart, DocInv
    <2>3. docPart \in {0, 1}
        BY <1>1 DEF BeginPart, DocOrder, TypeOK
    <2> QED BY <2>1, <2>2, <2>3
<1>2. CASE ServeDoc
    BY <1>2 DEF ServeDoc, DocInv, DocOrder
<1>3. ASSUME NEW t \in Tables, DocTable(t)
      PROVE  DocInv'
    <2>1. docPart \in {1, 2} /\ t \in registered
        BY <1>3 DEF DocTable, DocInv, TypeOK
    <2>2. DocOrder[1] = "paths" /\ DocOrder[2] = "components"
        BY DEF DocOrder
    <2>3. doc \in Document
        BY DEF TypeOK
    <2>4. CASE docPart = 1
        <3>1. doc'["paths"] = doc["paths"] \cup Written("paths", t)
            BY <1>3, <2>1, <2>2, <2>3, <2>4 DEF DocTable, Document
        <3>2. \A s \in Written("paths", t) : s[1] = t
            BY DEF Written, TablePaths, ItemPaths, BulkPath
        <3> QED BY <1>3, <2>1, <2>4, <3>1, <3>2 DEF DocTable, DocInv
    <2>5. CASE docPart = 2
        <3>1. /\ doc'["paths"] = doc["paths"]
              /\ doc'["components"] = doc["components"] \cup Components(t)
            BY <1>3, <2>1, <2>2, <2>3, <2>5 DEF DocTable, Document, Written
        <3>2. \A s \in SchemaNames : s[1] = t => s \in Components(t)
            BY DEF SchemaNames, Components
        <3>3. doc["paths"] \subseteq SchemaNames
            BY <2>3 DEF Document
        <3>4. docTodo' = docTodo \ {t} /\ docPart' = 2 /\ registered' = registered
            BY <1>3, <2>5 DEF DocTable
        <3> QED BY <2>5, <3>1, <3>2, <3>3, <3>4 DEF DocInv
    <2> QED BY <2>1, <2>4, <2>5
<1> QED BY <1>1, <1>2, <1>3 DEF Docs

\* Nothing else touches a document.
LEMMA DocsKept ==
    ASSUME DocInv, Others \/ UNCHANGED vars
    PROVE  DocInv'
<1> USE DEF catalogue, scanVars, registry, docVars
<1>1. CASE QueryFails
    BY <1>1 DEF QueryFails, DocInv
<1>2. CASE \E t \in Tables, d \in Definitions \cup {NoTable} : ChangeSchema(t, d)
    BY <1>2 DEF ChangeSchema, DocInv
<1>3. CASE Requesting
    BY <1>3 DEF Requesting, GetCached, LookUp, Answer, DocInv
<1>4. CASE UNCHANGED vars
    BY <1>4 DEF vars, DocInv
<1> QED BY <1>1, <1>2, <1>3, <1>4 DEF Others

\* Every step is one of the introspection, of a document, or another one.
LEMMA StepCases ==
    ASSUME [Next]_vars
    PROVE  Scan \/ Docs \/ Others \/ UNCHANGED vars
BY DEF Next, Others, Requesting

\* RegistryInv holds before the introspection.
LEMMA RegistryInit == Init => RegistryInv
<1> SUFFICES ASSUME Init PROVE RegistryInv
    OBVIOUS
<1>1. TypeOK
    <2>1. /\ changes \in 0..MaxChanges /\ docPart \in 0..2
          /\ stage \in Stages /\ doc \in Document
        BY SchemaAssumption DEF Init, Stages, Document, EmptyDoc
    <2>2. /\ found \in [Tables -> Meta] /\ entries \in [Tables -> Meta]
          /\ snapshot \in [Tables -> Meta]
        BY BlankType DEF Init
    <2> QED BY <2>1, <2>2 DEF Init, TypeOK
<1>2. ScanInv /\ DocInv
    BY DEF Init, ScanInv, DocInv, EmptyDoc
<1> QED BY <1>1, <1>2 DEF RegistryInv

\* RegistryInv is inductive, and every step is one of the write-once map.
LEMMA RegistryStep ==
    ASSUME RegistryInv, [Next]_vars
    PROVE  RegistryInv' /\ [Registry!Next]_(Registry!vars)
<1> USE DEF RegistryInv
<1>1. CASE Scan
    <2>1. TypeOK' /\ ScanInv' /\ UNCHANGED docVars
        BY <1>1, ScanTyped, ScanRegisters
    <2>2. registered \subseteq registered' /\ [Registry!Next]_(Registry!vars)
        <3>1. CASE UNCHANGED registry
            BY <3>1 DEF registry, Registry!vars
        <3>2. CASE \E t \in Tables, e \in Meta : Registry!Publish(t, e)
            BY <3>2 DEF Registry!Publish, Registry!Next
        <3> QED BY <1>1, <3>1, <3>2, ScanRegisters
    <2> QED BY <2>1, <2>2, RegisteringKeepsDocs
<1>2. CASE Docs
    BY <1>2, DocsTyped, RegistryKept, DocsResolve DEF registry, Registry!vars
<1>3. CASE Others
    BY <1>3, OthersTyped, RegistryKept, DocsKept DEF registry, Registry!vars
<1>4. CASE UNCHANGED vars
    <2>1. TypeOK'
        BY <1>4 DEF vars, catalogue, scanVars, registry, docVars, TypeOK
    <2> QED BY <1>4, <2>1, RegistryKept, DocsKept DEF registry, Registry!vars
<1> QED BY <1>1, <1>2, <1>3, <1>4, StepCases

\* RegistryInv holds always.
LEMMA RegistryInvariant == Spec => []RegistryInv
BY RegistryInit, RegistryStep, PTL DEF Spec

\* The variables keep their types, for any tables, definitions and engines.
THEOREM TypeCorrect == Spec => []TypeOK
<1>1. RegistryInv => TypeOK
    BY DEF RegistryInv
<1> QED BY <1>1, RegistryInvariant, PTL

\* introspectSchema: an introspection that fails has registered nothing.
THEOREM FailureLeavesNothing == Spec => []FailedScanRegistersNothing
<1>1. RegistryInv => FailedScanRegistersNothing
    BY DEF RegistryInv, ScanInv, FailedScanRegistersNothing
<1> QED BY <1>1, RegistryInvariant, PTL

\* generateSpec: every $ref of a served document resolves in it.
THEOREM ReferencesResolve == Spec => []RefsResolve
<1>1. RegistryInv => RefsResolve
    BY DEF RegistryInv, DocInv, RefsResolve
<1> QED BY <1>1, RegistryInvariant, PTL

\* ModelRegistry as introspectSchema uses it: a map that only grows, and whose
\* entries never change, so that a pointer into it stays good.
THEOREM RegistryIsWriteOnce == Spec => IsWriteOnce
<1>1. Init => Registry!Init
    BY BlankType DEF Init, Registry!Init
<1>2. RegistryInv /\ [Next]_vars => [Registry!Next]_(Registry!vars)
    BY RegistryStep
<1> QED BY <1>1, <1>2, RegistryInvariant, PTL DEF Spec, IsWriteOnce, Registry!Spec

-----------------------------------------------------------------------------
(* What a quiet introspection registers *)

\* The answer to a query is what was to be known after it.
LEMMA KnownNext ==
    ASSUME TypeOK, stage \in {"columns", "keys", "refs"},
           NEW t \in Tables, snapshot[t] = MetaOf(definition[t]), found[t] = Known(t, Round),
           engine = "sqlite3" => t \in ValidNames
    PROVE  Seen(t) = Known(t, Round + 1)
<1>1. /\ snapshot[t].columns = definition[t].columns
      /\ snapshot[t].keys = definition[t].keys
      /\ snapshot[t].refs = definition[t].refs
    BY DEF MetaOf
<1>2. CASE stage = "columns"
    <2>1. Seen(t) = ColumnsSeen(t) /\ Round = 0
        BY <1>2 DEF Seen, Round
    <2>2. Seen(t) \in Meta /\ found[t] \in Meta
        BY <1>2, SeenType DEF TypeOK
    <2>3. /\ Seen(t).columns = definition[t].columns
          /\ Seen(t).flagged = IF engine = "sqlite3" THEN definition[t].keys ELSE {}
          /\ Seen(t).keys = found[t].keys /\ Seen(t).refs = found[t].refs
        BY <2>1, <2>2 DEF ColumnsSeen, Meta
    <2>4. /\ Known(t, 0).keys = {} /\ Known(t, 0).refs = {}
          /\ Known(t, 1) = [columns |-> definition[t].columns,
                            flagged |-> IF engine = "sqlite3" THEN definition[t].keys ELSE {},
                            keys |-> {}, refs |-> {}]
        BY <1>1 DEF Known
    <2>5. Seen(t) = Known(t, 1)
        BY <2>1, <2>2, <2>3, <2>4 DEF Meta
    <2> QED BY <2>1, <2>5
<1>3. CASE stage = "keys"
    BY <1>1, <1>3 DEF Seen, KeysSeen, Known, Round
<1>4. CASE stage = "refs"
    BY <1>1, <1>4 DEF Seen, RefsSeen, Known, Round
<1> QED BY <1>2, <1>3, <1>4

\* A table that was not there, or that cannot be asked about, has no answers.
LEMMA KnownBlank ==
    ASSUME NEW t \in Tables, NEW n \in 0..3,
           snapshot[t] = Blank \/ (engine = "sqlite3" /\ t \notin ValidNames) \/ n = 0
    PROVE  Known(t, n) = Blank
BY DEF Known, Blank

\* A table that SQLite's list of names to be asked about leaves out has no answers.
LEMMA UnaskedBlank ==
    ASSUME TypeOK, engine = "sqlite3", NEW t \in Tables, t \notin Present \cap ValidNames,
           snapshot[t] = MetaOf(definition[t]), NEW n \in 0..3
    PROVE  Known(t, n) = Blank
<1>1. definition[t] \in Definitions \cup {NoTable}
    BY DEF TypeOK
<1>2. t \notin Present => snapshot[t] = Blank
    BY <1>1, DefinitionType DEF Present
<1> QED BY <1>2, KnownBlank

\* What is put together from the answers to all stages is what there was.
LEMMA AssembledExact ==
    ASSUME TypeOK, NEW t \in Tables, found[t] = Known(t, 3),
           snapshot[t].flagged = snapshot[t].keys, snapshot[t].keys \subseteq snapshot[t].columns
    PROVE  Assembled(t) = Exact(t)
<1>1. snapshot[t] \in Meta
    BY DEF TypeOK
<1>2. CASE engine = "sqlite3" /\ t \notin ValidNames
    BY <1>2 DEF Assembled, Exact, Known, Blank
<1>3. CASE ~(engine = "sqlite3" /\ t \notin ValidNames)
    <2>1. found[t].flagged \cup (found[t].keys \cap found[t].columns) = snapshot[t].keys
        BY <1>3 DEF Known
    <2>2. Assembled(t) = [columns |-> snapshot[t].columns, flagged |-> snapshot[t].keys,
                          keys |-> snapshot[t].keys, refs |-> snapshot[t].refs]
        BY <1>3, <2>1 DEF Assembled, Known
    <2> QED BY <1>1, <1>3, <2>2 DEF Exact, Meta
<1> QED BY <1>2, <1>3

\* If the end of a stage finds every table answered, the next stage begins well.
LEMMA QuietEndStage ==
    ASSUME RegistryInv, QuietInv, stage \in {"columns", "keys", "refs"}, EndStage,
           UNCHANGED <<engine, catalogue, listed, snapshot, registry>>,
           quiet => \A t \in Tables : found'[t] = Known(t, Round + 1)
    PROVE  QuietInv'
<1> USE DEF RegistryInv
<1>1. /\ engine' = engine /\ definition' = definition /\ quiet' = quiet
      /\ listed' = listed /\ snapshot' = snapshot
      /\ registered' = registered /\ entries' = entries
    BY DEF catalogue, registry
<1>2. ~relisted' /\ stage' \in {"keys", "refs", "register"}
    BY DEF EndStage
<1>3. \A t \in Tables, n \in 0..3 : Known(t, n)' = Known(t, n)
    BY <1>1 DEF Known
<1>4. Round \in 0..2 /\ Round' = Round + 1
    BY DEF EndStage, Round
<1>5. quiet => \A t \in Tables : found'[t] = Known(t, Round)'
    BY <1>1, <1>4 DEF Known
<1>6. ASSUME quiet, stage' # "register"
      PROVE  AskingInv'
    BY <1>1, <1>2, <1>5, <1>6 DEF AskingInv, QuietInv
<1>7. ASSUME quiet, stage' = "register"
      PROVE  RegisteringInv'
    <2>1. stage = "refs" /\ registered = {} /\ todo' = listed
        BY <1>7 DEF EndStage, ScanInv, Queries
    <2>2. Round' = 3
        BY <1>7 DEF Round
    <2> QED BY <1>1, <1>5, <1>7, <2>1, <2>2 DEF RegisteringInv, Known
<1>8. QuietScanExact'
    BY <1>2 DEF QuietScanExact
<1> QED BY <1>1, <1>2, <1>6, <1>7, <1>8 DEF QuietInv

\* The list of the tables is what there is to be registered.
LEMMA QuietListTables ==
    ASSUME RegistryInv, QuietInv, ListTables
    PROVE  QuietInv'
<1> USE DEF RegistryInv
<1>1. /\ stage = "tables" /\ stage' = "columns" /\ listed' = Present /\ ~relisted'
      /\ \A t \in Tables : snapshot'[t] = MetaOf(definition[t])
      /\ \A t \in Tables : found'[t] = Blank
      /\ definition' = definition /\ engine' = engine
    BY DEF ListTables, QuietInv
<1>2. \A t \in Tables : definition[t] \in Definitions \cup {NoTable}
    BY DEF TypeOK
<1>3. listed' = {t \in Tables : snapshot'[t] # Blank}
    BY <1>1, <1>2, DefinitionType DEF Present
<1>4. ASSUME NEW t \in Tables
      PROVE  /\ snapshot'[t].flagged = snapshot'[t].keys
             /\ snapshot'[t].keys \subseteq snapshot'[t].columns
    <2>1. definition[t].keys \subseteq definition[t].columns
        BY <1>2, DefinitionType
    <2>2. /\ MetaOf(definition[t]).flagged = definition[t].keys
          /\ MetaOf(definition[t]).keys = definition[t].keys
          /\ MetaOf(definition[t]).columns = definition[t].columns
        BY DEF MetaOf
    <2> QED BY <1>1, <2>1, <2>2
<1>5. \A t \in Tables : Known(t, Round)' = Blank
    BY <1>1 DEF Known, Round, Blank
<1>6. AskingInv'
    BY <1>1, <1>5 DEF AskingInv
<1>7. QuietScanExact'
    BY <1>1 DEF QuietScanExact
<1> QED BY <1>1, <1>3, <1>4, <1>6, <1>7 DEF QuietInv

\* One query for all the tables brings every one of them a stage further.
LEMMA QuietQueryAll ==
    ASSUME RegistryInv, QuietInv, QueryAll
    PROVE  QuietInv'
<1> USE DEF RegistryInv
<1>1. ASSUME quiet, NEW t \in Tables
      PROVE  found'[t] = Known(t, Round + 1)
    <2>1. /\ stage \in {"columns", "keys", "refs"} /\ engine # "sqlite3"
          /\ found'[t] = Seen(t)
        BY DEF QueryAll
    <2>2. /\ snapshot[t] = MetaOf(definition[t])
          /\ found[t] = Known(t, Round)
        BY <1>1, <2>1 DEF QuietInv, AskingInv
    <2> QED BY <2>1, <2>2, KnownNext
<1>2. /\ stage \in {"columns", "keys", "refs"} /\ EndStage
      /\ UNCHANGED <<engine, catalogue, listed, snapshot, registry>>
    BY DEF QueryAll
<1> QED BY <1>1, <1>2, QuietEndStage

\* The names that the list of a stage leaves out have no answers in it.
LEMMA QuietRelist ==
    ASSUME RegistryInv, QuietInv, Relist
    PROVE  QuietInv'
<1> USE DEF RegistryInv
<1>1. /\ stage \in {"columns", "keys", "refs"} /\ engine = "sqlite3" /\ ~relisted
      /\ UNCHANGED <<engine, catalogue, listed, found, snapshot, registry>>
    BY DEF Relist
<1>2. Round \in 0..2
    BY <1>1 DEF Round
<1>3. ASSUME quiet, NEW t \in Tables
      PROVE  /\ snapshot[t] = MetaOf(definition[t]) /\ found[t] = Known(t, Round)
             /\ t \notin Present \cap ValidNames => found[t] = Known(t, Round + 1)
    <2>1. snapshot[t] = MetaOf(definition[t]) /\ found[t] = Known(t, Round)
        BY <1>1, <1>3 DEF QuietInv, AskingInv
    <2>2. t \notin Present \cap ValidNames => \A n \in 0..3 : Known(t, n) = Blank
        BY <1>1, <2>1, UnaskedBlank
    <2>3. Round \in 0..3 /\ Round + 1 \in 0..3
        BY <1>2
    <2> QED BY <2>1, <2>2, <2>3
<1>4. CASE Present \cap ValidNames = {}
    <2>1. quiet => \A t \in Tables : found'[t] = Known(t, Round + 1)
        BY <1>1, <1>3, <1>4
    <2>2. EndStage
        BY <1>4 DEF Relist
    <2> QED BY <1>1, <2>1, <2>2, QuietEndStage
<1>5. CASE Present \cap ValidNames # {}
    <2>1. /\ stage' = stage /\ relisted' /\ todo' = Present \cap ValidNames
          /\ engine' = engine /\ definition' = definition /\ quiet' = quiet
          /\ listed' = listed /\ snapshot' = snapshot /\ found' = found
        BY <1>1, <1>5 DEF Relist, catalogue
    <2>2. Round' = Round /\ \A t \in Tables, n \in 0..3 : Known(t, n)' = Known(t, n)
        BY <2>1 DEF Round, Known
    <2>3. ASSUME quiet, NEW t \in Tables
          PROVE  found'[t] = Known(t, IF relisted /\ t \notin todo THEN Round + 1 ELSE Round)'
        BY <1>2, <1>3, <2>1, <2>2, <2>3 DEF Known
    <2>4. quiet => AskingInv'
        BY <1>3, <2>1, <2>3 DEF AskingInv
    <2>5. QuietScanExact'
        BY <1>1, <2>1 DEF QuietScanExact
    <2> QED BY <1>1, <2>1, <2>4, <2>5 DEF QuietInv
<1> QED BY <1>4, <1>5

\* A PRAGMA brings its table a stage further, and the others stay.
LEMMA QuietPragma ==
    ASSUME RegistryInv, QuietInv, NEW p \in Tables, Pragma(p)
    PROVE  QuietInv'
<1> USE DEF RegistryInv
<1>1. /\ stage \in {"columns", "keys", "refs"} /\ relisted /\ p \in todo
      /\ found' = [found EXCEPT ![p] = Seen(p)]
      /\ UNCHANGED <<engine, catalogue, listed, snapshot, registry>>
    BY DEF Pragma
<1>2. Round \in 0..2
    BY <1>1 DEF Round
<1>3. ASSUME quiet, NEW t \in Tables
      PROVE  /\ snapshot[t] = MetaOf(definition[t])
             /\ found'[t] = Known(t, IF t \notin todo \ {p} THEN Round + 1 ELSE Round)
    <2>1. /\ snapshot[t] = MetaOf(definition[t]) /\ todo \subseteq ValidNames
          /\ found[t] = Known(t, IF t \notin todo THEN Round + 1 ELSE Round)
        BY <1>1, <1>3 DEF QuietInv, AskingInv
    <2>2. CASE t = p
        <3>1. Seen(p) = Known(p, Round + 1)
            BY <1>1, <2>1, <2>2, KnownNext
        <3> QED BY <1>1, <2>1, <2>2, <3>1 DEF TypeOK
    <2>3. CASE t # p
        BY <1>1, <2>1, <2>3 DEF TypeOK
    <2> QED BY <2>2, <2>3
<1>4. CASE todo = {p}
    <2>1. quiet => \A t \in Tables : found'[t] = Known(t, Round + 1)
        BY <1>3, <1>4
    <2>2. EndStage
        BY <1>4 DEF Pragma
    <2> QED BY <1>1, <2>1, <2>2, QuietEndStage
<1>5. CASE todo # {p}
    <2>1. /\ stage' = stage /\ relisted' = relisted /\ todo' = todo \ {p}
          /\ engine' = engine /\ definition' = definition /\ quiet' = quiet
          /\ listed' = listed /\ snapshot' = snapshot
        BY <1>1, <1>5 DEF Pragma, catalogue
    <2>2. ASSUME quiet, NEW t \in Tables
          PROVE  found'[t] = Known(t, IF relisted /\ t \notin todo THEN Round + 1 ELSE Round)'
        BY <1>1, <1>3, <2>1, <2>2 DEF Known, Round
    <2>3. quiet => AskingInv'
        BY <1>1, <1>3, <2>1, <2>2 DEF AskingInv, QuietInv
    <2>4. QuietScanExact'
        BY <1>1, <2>1 DEF QuietScanExact
    <2> QED BY <1>1, <2>1, <2>3, <2>4 DEF QuietInv
<1> QED BY <1>4, <1>5

\* Registering a table takes it from what is to come to what is registered.
LEMMA QuietRegister ==
    ASSUME RegistryInv, QuietInv, NEW p \in Tables, Register(p)
    PROVE  QuietInv'
<1> USE DEF RegistryInv
<1>1. /\ stage = "register" /\ stage' = "register" /\ p \in todo
      /\ todo' = todo \ {p} /\ registered' = registered \cup {p}
      /\ entries' = [entries EXCEPT ![p] = Assembled(p)]
      /\ engine' = engine /\ quiet' = quiet /\ listed' = listed /\ relisted' = relisted
      /\ snapshot' = snapshot /\ found' = found
    BY DEF Register, catalogue
<1>2. \A t \in Tables : Known(t, 3)' = Known(t, 3) /\ Exact(t)' = Exact(t)
    BY <1>1 DEF Known, Exact
<1>3. ASSUME quiet
      PROVE  RegisteringInv'
    <2>1. RegisteringInv
        BY <1>1, <1>3 DEF QuietInv
    <2>2. Assembled(p) = Exact(p)
        BY <2>1, AssembledExact DEF RegisteringInv, QuietInv
    <2>3. p \notin registered /\ p \in listed
        BY <1>1, <2>1 DEF RegisteringInv
    <2>4. registered \subseteq Tables
        BY DEF TypeOK
    <2>5. entries'[p] = Exact(p) /\ \A t \in Tables \ {p} : entries'[t] = entries[t]
        BY <1>1, <2>2 DEF TypeOK
    <2>6. \A t \in registered' : entries'[t] = Exact(t)'
        BY <1>1, <1>2, <2>1, <2>4, <2>5 DEF RegisteringInv
    <2>7. registered' \subseteq listed' /\ todo' = listed' \ registered'
        BY <1>1, <2>1, <2>3 DEF RegisteringInv
    <2>8. \A t \in Tables : found'[t] = Known(t, 3)'
        BY <1>1, <1>2, <2>1 DEF RegisteringInv
    <2> QED BY <2>6, <2>7, <2>8 DEF RegisteringInv
<1>4. QuietScanExact'
    BY <1>1 DEF QuietScanExact
<1> QED BY <1>1, <1>3, <1>4 DEF QuietInv

\* When nothing is left to register, what is registered is what was there.
LEMMA QuietEndScan ==
    ASSUME RegistryInv, QuietInv, EndScan
    PROVE  QuietInv'
<1>1. /\ stage = "register" /\ stage' = "done" /\ todo = {}
      /\ engine' = engine /\ quiet' = quiet /\ relisted' = relisted
      /\ snapshot' = snapshot /\ registered' = registered /\ entries' = entries
    BY DEF EndScan, catalogue, registry
<1>2. QuietScanExact'
    <2>1. SUFFICES ASSUME quiet
                   PROVE  /\ registered = {t \in Tables : snapshot[t] # Blank}
                          /\ \A t \in registered : entries[t] = Exact(t)
        BY <1>1, <2>1 DEF QuietScanExact, Exact
    <2>2. RegisteringInv /\ listed = {t \in Tables : snapshot[t] # Blank}
        BY <1>1, <2>1 DEF QuietInv
    <2>3. registered = listed
        BY <1>1, <2>2 DEF RegisteringInv
    <2> QED BY <2>2, <2>3 DEF RegisteringInv
<1> QED BY <1>1, <1>2 DEF QuietInv

\* Before the first query, and after a query that failed, nothing is known.
LEMMA QuietEnds ==
    ASSUME RegistryInv, QuietInv, StartScan \/ QueryFails
    PROVE  QuietInv'
<1>1. CASE StartScan
    <2>1. /\ stage = "start" /\ stage' \in {"tables", "failed"}
          /\ relisted' = relisted /\ found' = found /\ snapshot' = snapshot
          /\ engine' = engine
        BY <1>1 DEF StartScan
    <2> QED BY <2>1 DEF QuietInv, QuietScanExact
<1>2. CASE QueryFails
    <2>1. /\ stage' = "failed" /\ ~relisted' /\ snapshot' = snapshot
          /\ \A t \in Tables : found'[t] = Blank
        BY <1>2 DEF QueryFails
    <2> QED BY <2>1 DEF QuietInv, QuietScanExact
<1> QED BY <1>1, <1>2

\* A change while the stages run ends the quiet; later ones come too late.
LEMMA QuietChange ==
    ASSUME RegistryInv, QuietInv, NEW p \in Tables, NEW d, ChangeSchema(p, d)
    PROVE  QuietInv'
<1>1. /\ engine' = engine /\ stage' = stage /\ listed' = listed /\ relisted' = relisted
      /\ todo' = todo /\ found' = found /\ snapshot' = snapshot
      /\ registered' = registered /\ entries' = entries
      /\ quiet' = (quiet /\ stage \notin {"columns", "keys", "refs"})
    BY DEF ChangeSchema, scanVars, registry
<1>2. \A t \in Tables : Known(t, 3)' = Known(t, 3) /\ Exact(t)' = Exact(t)
    BY <1>1 DEF Known, Exact
<1>3. quiet' => quiet /\ stage' \notin {"columns", "keys", "refs"}
    BY <1>1
<1>4. quiet' /\ stage' = "register" => RegisteringInv'
    <2>1. SUFFICES ASSUME quiet', stage' = "register"
                   PROVE  RegisteringInv'
        OBVIOUS
    <2>2. RegisteringInv
        BY <1>1, <1>3, <2>1 DEF QuietInv
    <2>3. registered \subseteq Tables
        BY DEF RegistryInv, TypeOK
    <2> QED BY <1>1, <1>2, <2>2, <2>3 DEF RegisteringInv
<1>5. QuietScanExact'
    BY <1>1, <1>3 DEF QuietInv, QuietScanExact
<1>6. quiet' /\ stage' \in {"columns", "keys", "refs", "register"} =>
          listed' = {t \in Tables : snapshot'[t] # Blank}
    BY <1>1, <1>3 DEF QuietInv
<1> QED BY <1>1, <1>3, <1>4, <1>5, <1>6 DEF QuietInv

\* Requests and documents leave the introspection alone.
LEMMA QuietKept ==
    ASSUME QuietInv, UNCHANGED <<engine, catalogue, scanVars, registry>>
    PROVE  QuietInv'
BY DEF catalogue, scanVars, registry, QuietInv, AskingInv, RegisteringInv, QuietScanExact,
       Known, Exact, Round

\* QuietInv is inductive.
LEMMA QuietStep ==
    ASSUME RegistryInv, QuietInv, [Next]_vars
    PROVE  QuietInv'
<1>1. CASE Scan
    BY <1>1, QuietEnds, QuietListTables, QuietQueryAll, QuietRelist, QuietPragma,
       QuietRegister, QuietEndScan DEF Scan
<1>2. CASE Docs
    <2>1. UNCHANGED <<engine, catalogue, scanVars, registry>>
        BY <1>2 DEF Docs, BeginPart, ServeDoc, DocTable
    <2> QED BY <2>1, QuietKept
<1>3. CASE Others
    <2>1. CASE QueryFails
        BY <2>1, QuietEnds
    <2>2. CASE \E t \in Tables, d \in Definitions \cup {NoTable} : ChangeSchema(t, d)
        BY <2>2, QuietChange
    <2>3. CASE Requesting
        <3>1. UNCHANGED <<engine, catalogue, scanVars, registry>>
            BY <2>3 DEF Requesting, GetCached, LookUp, Answer
        <3> QED BY <3>1, QuietKept
    <2> QED BY <1>3, <2>1, <2>2, <2>3 DEF Others
<1>4. CASE UNCHANGED vars
    BY <1>4, QuietKept DEF vars
<1> QED BY <1>1, <1>2, <1>3, <1>4, StepCases

\* introspectSchema: if the schema stands still between its first query and its
\* last, what it registers is what one look at the catalogue would have shown.
THEOREM QuietScanIsExact == Spec => []QuietScanExact
<1>1. Init => QuietInv
    <2>1. Blank.flagged = Blank.keys /\ Blank.keys \subseteq Blank.columns
        BY DEF Blank
    <2>2. Init => \A t \in Tables : snapshot[t] = Blank /\ found[t] = Blank
        BY DEF Init
    <2>3. Init => stage = "start" /\ ~relisted
        BY DEF Init
    <2> QED BY <2>1, <2>2, <2>3 DEF QuietInv, QuietScanExact
<1>2. QuietInv => QuietScanExact
    BY DEF QuietInv
<1> QED BY <1>1, <1>2, QuietStep, RegistryInvariant, PTL DEF Spec

==============================================================================
