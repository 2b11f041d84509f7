----------------------------- MODULE WritePipeline -----------------------------
(***************************************************************************)
(* What happens to the body of a POST or PUT between the client and the    *)
(* database: RequestValidator accepts it, FieldGuard strips it,            *)
(* AuditInjector and CodeGenerator add to it, QueryBuilder makes a         *)
(* statement of it.  Each of them has lists or tables of its own that say  *)
(* which columns the server fills and what a column holds, and so has the  *)
(* OpenAPI document; TypeMapper and the introspectors feed them all.       *)
(*                                                                         *)
(* The steps of one handler are interleaved with those of others, with the *)
(* clock, and with an application that changes FieldGuard's lists.         *)
(*                                                                         *)
(* A JSON value is its type and its size: the characters and bytes of a    *)
(* string, the significant digits of a number.                             *)
(***************************************************************************)
EXTENDS Integers, Sequences, FiniteSets

CONSTANTS
    Requests,   \* write requests, each of them by a user of its own
    Names,      \* names of columns and other fields, in alphabetical order
    Cases       \* tables, with what is asked of them (see table)

VARIABLES
    table,      \* the case at hand: the engine, the columns as they are defined in
                \* the database, the bodies of the POSTs and PUTs that may come,
                \* how many requests make them, the lists for setBlockedFields, and
                \* a bound on the clock
    blocked,    \* tableBlocked_ of FieldGuard for this table
    now,        \* the system clock
    request,    \* request[r]: the handler r
    rows,       \* rows[r]: the row that r has inserted
    writer,     \* history: writer[k]: the request that wrote row k last
    always,     \* history: always[r]: columns blocked at all times of r so far
    ever,       \* history: ever[r]: columns blocked at some time of r
    written     \* history: written[r]: the cells that r's statement has set

vars == <<table, blocked, now, request, rows, writer, always, ever, written>>

Null == "null"
NoMax == -1

\* JSON values.
JsonTypes == {"null", "boolean", "integer", "number", "string", "object", "array"}
Values == [type : JsonTypes, size : Nat, bytes : Nat]
EmptyString == [type |-> "string", size |-> 0, bytes |-> 0]

\* Names has all columns in it; columns and bodies have the types that
\* information_schema and a JSON parser give them.
ASSUME CasesAssumption ==
    /\ Names \in Seq(STRING)
    /\ \A t \in Cases :
        /\ t.engine \in {"mysql", "postgresql", "sqlite3"}
        /\ t.maxTime \in Nat
        /\ DOMAIN t.columns \subseteq {Names[i] : i \in 1..Len(Names)}
        /\ \A c \in DOMAIN t.columns :
               /\ t.columns[c].nullable \in BOOLEAN /\ t.columns[c].default \in BOOLEAN
               /\ t.columns[c].key \in BOOLEAN /\ t.columns[c].auto \in BOOLEAN
               /\ t.columns[c].max \in Nat \cup {NoMax}
        /\ \A body \in t.posts \cup t.puts : \A f \in DOMAIN body : body[f] \in Values

-----------------------------------------------------------------------------
(* TypeMapper and the introspectors: from the database's column to ColumnMeta *)

Kind(sql, json) == [sql |-> sql, json |-> json]

\* A MySQL type is its DATA_TYPE and, in column, its COLUMN_TYPE.
mapMySQLType(t) ==
    CASE t.data = "TINYINT" ->
             IF t.column = "tinyint(1)" THEN Kind("Boolean", "Boolean")
                                        ELSE Kind("Integer", "Number")
      [] t.data \in {"INT", "BIGINT", "SMALLINT", "MEDIUMINT"} -> Kind("Integer", "Number")
      [] t.data \in {"FLOAT", "DOUBLE"} -> Kind("Float", "Number")
      [] t.data \in {"DECIMAL", "NUMERIC"} -> Kind("Decimal", "Number")
      [] t.data \in {"VARCHAR", "CHAR", "TEXT", "MEDIUMTEXT", "LONGTEXT", "TINYTEXT",
                     "ENUM", "SET"} -> Kind("String", "String")
      [] t.data \in {"DATETIME", "TIMESTAMP"} -> Kind("DateTime", "String")
      [] t.data = "DATE" -> Kind("Date", "String")
      [] t.data = "TIME" -> Kind("Time", "String")
      [] t.data = "JSON" -> Kind("Json", "Object")
      [] t.data \in {"BLOB", "MEDIUMBLOB", "LONGBLOB", "TINYBLOB", "BINARY", "VARBINARY"} ->
             Kind("Binary", "String")
      [] OTHER -> Kind("Unknown", "String")

\* A PostgreSQL type is its udt_name and, in data, its data_type.
mapPostgresType(t) ==
    CASE t.udt = "BOOL" -> Kind("Boolean", "Boolean")
      [] t.udt \in {"INT2", "INT4", "INT8", "SERIAL", "BIGSERIAL"} -> Kind("Integer", "Number")
      [] t.udt \in {"FLOAT4", "FLOAT8"} -> Kind("Float", "Number")
      [] t.udt = "NUMERIC" -> Kind("Decimal", "Number")
      [] t.udt = "UUID" -> Kind("Uuid", "String")
      [] t.udt \in {"JSON", "JSONB"} -> Kind("Json", "Object")
      [] t.udt \in {"TIMESTAMP", "TIMESTAMPTZ"} -> Kind("DateTime", "String")
      [] t.udt = "DATE" -> Kind("Date", "String")
      [] t.udt \in {"TIME", "TIMETZ"} -> Kind("Time", "String")
      [] t.udt = "BYTEA" -> Kind("Binary", "String")
      [] t.data \in {"CHARACTER VARYING", "CHARACTER", "TEXT"} -> Kind("String", "String")
      [] OTHER -> Kind("Unknown", "String")

\* An SQLite type is what its declared type has in it, in the order of the rules.
mapSQLiteType(t) ==
    CASE "INT" \in t.has -> Kind("Integer", "Number")
      [] t.has \cap {"CHAR", "CLOB", "TEXT"} # {} -> Kind("String", "String")
      [] "BLOB" \in t.has \/ t.declared = "" -> Kind("Binary", "String")
      [] t.has \cap {"REAL", "FLOA", "DOUB"} # {} -> Kind("Float", "Number")
      [] "BOOL" \in t.has -> Kind("Boolean", "Boolean")
      [] t.has \cap {"DATE", "TIME"} # {} -> Kind("DateTime", "String")
      [] OTHER -> Kind("Decimal", "Number")

ColumnMeta(d, kind, isAuto, maxLength) ==
    [sqlType |-> kind.sql, jsonType |-> kind.json, isNullable |-> d.nullable,
     isPrimaryKey |-> d.key, isAutoIncrement |-> isAuto, hasDefault |-> d.default,
     maxLength |-> maxLength]

\* d.auto: auto_increment, nextval() or an identity; SQLite has no word for it,
\* and the introspector takes every INTEGER column of the key for one.
MySqlColumn(d)    == ColumnMeta(d, mapMySQLType(d.type), d.auto, d.max)
PostgresColumn(d) == ColumnMeta(d, mapPostgresType(d.type), d.auto, d.max)
SqliteColumn(d)   == ColumnMeta(d, mapSQLiteType(d.type),
                                d.key /\ d.type.declared = "INTEGER", NoMax)

MetaColumn(d) == CASE table.engine = "mysql"      -> MySqlColumn(d)
                   [] table.engine = "postgresql" -> PostgresColumn(d)
                   [] table.engine = "sqlite3"    -> SqliteColumn(d)

\* TableMeta.
Columns == DOMAIN table.columns
Meta == [c \in Columns |-> MetaColumn(table.columns[c])]

hasColumn(c) == c \in Columns

-----------------------------------------------------------------------------
(* RequestValidator *)

\* Mutant of autoFields: the code is not in it.
autoFieldsWithoutCode == {"id", "created_at", "updated_at",
                          "created_by", "modified_by", "deleted_at", "deleted_by"}

autoFields == {"id", "code", "created_at", "updated_at",
               "created_by", "modified_by", "deleted_at", "deleted_by"}

IsNull(v) == v.type = "null"

\* Mutant of isTypeCompatible: a JSON column takes JSON of any type.
isTypeCompatibleAnyJson(v, col) ==
    \/ IsNull(v) /\ col.isNullable
    \/ CASE col.jsonType = "Number"  -> v.type \in {"integer", "number"}
         [] col.jsonType = "String"  -> v.type = "string"
         [] col.jsonType = "Boolean" -> v.type = "boolean"
         [] col.jsonType = "Object"  -> TRUE

isTypeCompatible(v, col) ==
    \/ IsNull(v) /\ col.isNullable
    \/ CASE col.jsonType = "Number"  -> v.type \in {"integer", "number"}
         [] col.jsonType = "String"  -> v.type = "string"
         [] col.jsonType = "Boolean" -> v.type = "boolean"
         [] col.jsonType = "Object"  -> v.type = "object"

\* length() counts bytes.
exceedsMaxLength(v, col) ==
    col.maxLength # NoMax /\ v.type = "string" /\ v.bytes > col.maxLength

Required(col) == ~col.isNullable /\ ~col.hasDefault

Fits(v, col) == isTypeCompatible(v, col) /\ ~exceedsMaxLength(v, col)

\* Mutant of validateCreate: a null is taken for a value.
validateCreateLaxNull(body) ==
    /\ \A c \in Columns :
          LET col == Meta[c]
          IN  ~col.isAutoIncrement /\ c \notin autoFields =>
                 IF c \in DOMAIN body /\ ~IsNull(body[c])
                 THEN Fits(body[c], col)
                 ELSE c \in DOMAIN body \/ ~Required(col)
    /\ \A f \in DOMAIN body : hasColumn(f)

\* No errors in the body of a POST.
validateCreate(body) ==
    /\ \A c \in Columns :
          LET col == Meta[c]
          IN  ~col.isAutoIncrement /\ c \notin autoFields =>
                 IF c \in DOMAIN body /\ ~IsNull(body[c])
                 THEN Fits(body[c], col)
                 ELSE ~Required(col)
    /\ \A f \in DOMAIN body : hasColumn(f)

\* No errors in the body of a PUT.
validateUpdate(body) ==
    \A f \in DOMAIN body :
        /\ hasColumn(f)
        /\ ~Meta[f].isPrimaryKey
        /\ IsNull(body[f]) \/ Fits(body[f], Meta[f])

-----------------------------------------------------------------------------
(* FieldGuard, AuditInjector, CodeGenerator *)

kDefaultBlocked == {"id", "created_at", "updated_at", "created_by", "modified_by",
                    "deleted_at", "deleted_by"}

getBlockedFields == kDefaultBlocked \cup blocked

Without(data, fs) == [f \in DOMAIN data \ fs |-> data[f]]

\* Mutant of sanitize: a list for the table is used instead of the defaults.
sanitizeReplacing(data) ==
    Without(data, IF blocked = {} THEN kDefaultBlocked ELSE blocked)

sanitize(data) == Without(data, getBlockedFields)

\* data with the fields of add that are columns.
Injected(data, add) ==
    [f \in DOMAIN data \cup (DOMAIN add \cap Columns) |->
        IF f \in DOMAIN add THEN add[f] ELSE data[f]]

\* Mutant of injectUpdateWithMeta: the user is left as it was at creation.
injectUpdateNoUser(data, r) == Injected(data, [updated_at |-> [clock |-> now]])

injectUpdateWithMeta(data, r) ==
    Injected(data, [updated_at |-> [clock |-> now], modified_by |-> [user |-> r]])

injectCreateWithMeta(data, r) ==
    Injected(data, [created_at |-> [clock |-> now], updated_at |-> [clock |-> now],
                    created_by |-> [user |-> r], modified_by |-> [user |-> r]])

\* A code is generated unless the client sent one that is not null or "".
injectCode(data, r) ==
    IF "code" \in DOMAIN data /\ ~IsNull(data["code"].client)
                              /\ data["code"].client # EmptyString
    THEN data
    ELSE Injected(data, [code |-> [uuid |-> r]])

-----------------------------------------------------------------------------
(* QueryBuilder: a statement and the parameters that are bound to it *)

IsNullJson(x) == "client" \in DOMAIN x /\ IsNull(x.client)

\* Mutant of jsonValueToString: a value is passed on as it is.
jsonValueToStringRaw(x) == x

\* A double is printed with six digits, a null as nothing at all.
jsonValueToString(x) ==
    IF "client" \notin DOMAIN x THEN x
    ELSE CASE IsNull(x.client) -> [client |-> EmptyString]
           [] x.client.type = "number" /\ x.client.size > 6 ->
                  [client |-> [x.client EXCEPT !.size = 6]]
           [] OTHER -> x

\* What a loop over s comes to that passes over what is not in fs.
Only(s, fs) ==
    LET kept[n \in 0..Len(s)] ==
            IF n = 0 THEN <<>>
            ELSE IF s[n] \in fs THEN Append(kept[n - 1], s[n]) ELSE kept[n - 1]
    IN  kept[Len(s)]

Members(data) == Only(Names, DOMAIN data)
NotNull(data) == {f \in DOMAIN data : ~IsNullJson(data[f])}

\* The parameters of INSERT: one for each member, in the order of the columns.
InsertParams(data) ==
    [i \in 1..Len(Members(data)) |-> jsonValueToString(data[Members(data)[i]])]

\* The members that an UPDATE sets by a parameter, not to NULL.
Bound(data) == Only(Members(data), NotNull(data))

\* Mutant of PlaceholderIdx: a member that is null counts, too.
PlaceholderIdxAll(data, i) == i

\* The placeholder of the i-th member: those before it have taken one each,
\* unless they are null.
PlaceholderIdx(data, i) ==
    1 + Cardinality({j \in 1..(i - 1) : Members(data)[j] \in NotNull(data)})

\* The WHERE clause is built with $1, and renumbered to come after the rest.
WhereIdx(data) == Len(Bound(data)) + 1

UpdateParams(data, id) ==
    [i \in 1..Len(Bound(data)) |-> jsonValueToString(data[Bound(data)[i]])] \o <<[row |-> id]>>

\* What the database puts into each column, by the placeholders.
InsertCells(data) ==
    [f \in DOMAIN data |->
        InsertParams(data)[CHOOSE i \in 1..Len(Members(data)) : Members(data)[i] = f]]

UpdateCells(data, id) ==
    [f \in DOMAIN data |->
        LET i == CHOOSE j \in 1..Len(Members(data)) : Members(data)[j] = f
        IN  IF f \notin NotNull(data) THEN [db |-> Null]
            ELSE LET n == PlaceholderIdx(data, i)
                 IN  IF n \in DOMAIN UpdateParams(data, id)
                     THEN UpdateParams(data, id)[n] ELSE [db |-> "unbound"]]

\* executeInsert and executeUpdate may throw before they ask the database.
Built(data) == IF DOMAIN data = {} THEN "empty"
               ELSE IF \A f \in DOMAIN data : hasColumn(f) THEN "none" ELSE "nocolumn"

-----------------------------------------------------------------------------
(* OpenApiGenerator: the schemas of the bodies and of the rows *)

sqlTypeToOpenApiType(t) ==
    CASE t = "Integer" -> "integer"
      [] t \in {"Float", "Decimal"} -> "number"
      [] t = "Boolean" -> "boolean"
      [] t = "Json" -> "object"
      [] OTHER -> "string"

generateColumnSchema(col) ==
    [type |-> sqlTypeToOpenApiType(col.sqlType), nullable |-> col.isNullable,
     maxLength |-> col.maxLength]

Schema(fs) == [f \in fs |-> generateColumnSchema(Meta[f])]

docAutoFields == {"id", "code", "created_at", "updated_at",
                  "created_by", "modified_by", "deleted_at", "deleted_by"}

CreateProperties == {c \in Columns \ docAutoFields : ~Meta[c].isAutoIncrement}
generateCreateSchema ==
    [properties |-> Schema(CreateProperties),
     required   |-> {c \in CreateProperties : Required(Meta[c])}]

generateUpdateSchema ==
    [properties |-> Schema({c \in Columns : ~Meta[c].isPrimaryKey}), required |-> {}]

generateTableSchema == Schema(Columns)

-----------------------------------------------------------------------------
(* JsonSerializer: the types that the value of a cell may have in an answer *)

\* The cell holds a null, set or by default.
IsNullCell(c, cell) ==
    \/ cell = [db |-> Null]
    \/ /\ cell = [db |-> "default"]
       /\ ~table.columns[c].default /\ ~table.columns[c].auto

\* JSON text is answered as what it parses to: what the client sent, or anything
\* if the text is a string of the client's or a default of the database.
serializeRow(c, cell) ==
    IF IsNullCell(c, cell) THEN {"null"}
    ELSE CASE Meta[c].sqlType = "Integer" -> {"integer"}
           [] Meta[c].sqlType \in {"Float", "Decimal"} -> {"number"}
           [] Meta[c].sqlType = "Boolean" -> {"boolean"}
           [] Meta[c].sqlType = "Json" ->
                  IF "client" \in DOMAIN cell /\ cell.client.type # "string"
                  THEN {cell.client.type} ELSE JsonTypes
           [] OTHER -> {"string"}

-----------------------------------------------------------------------------
(* The handlers *)

Idle  == [pc |-> "idle"]
NoRow == <<>>

Init ==
    /\ table \in Cases
    /\ blocked = {}
    /\ now = 0
    /\ request = [r \in Requests |-> Idle]
    /\ rows = [r \in Requests |-> NoRow]
    /\ writer = [r \in Requests |-> r]
    /\ always = [r \in Requests |-> {}]
    /\ ever = [r \in Requests |-> {}]
    /\ written = [r \in Requests |-> NoRow]

Finish(r, status) ==
    request' = [request EXCEPT ![r] = [@ EXCEPT !.pc = "done", !.status = status]]

\* What the first part of handleCreate or handleUpdate finds.
Checked(op, body) ==
    IF op = "create"
    THEN IF validateCreate(body) THEN "none" ELSE "invalid"
    ELSE IF ~(\E c \in Columns : Meta[c].isPrimaryKey) THEN "nokey"
         ELSE IF validateUpdate(body) THEN "none" ELSE "invalid"

\* A request comes in and its body is validated.  k: the row of a PUT.
Receive(r, op, body, k) ==
    /\ request[r] = Idle
    /\ Cardinality({q \in Requests : request[q] # Idle}) < table.load
    /\ request' = [request EXCEPT ![r] =
          [pc |-> IF Checked(op, body) = "none" THEN "valid" ELSE "done",
           status |-> Checked(op, body), op |-> op, body |-> body,
           row |-> k, data |-> NoRow, since |-> now, until |-> now]]
    /\ always' = [always EXCEPT ![r] = getBlockedFields]
    /\ ever' = [ever EXCEPT ![r] = getBlockedFields]
    /\ UNCHANGED <<table, blocked, now, rows, writer, written>>

Sanitize(r) ==
    /\ request[r].pc = "valid"
    /\ request' = [request EXCEPT ![r] = [@ EXCEPT !.pc = "clean",
          !.data = sanitize([f \in DOMAIN request[r].body |-> [client |-> request[r].body[f]]])]]
    /\ UNCHANGED <<table, blocked, now, rows, writer, always, ever, written>>

\* The audit columns and the code are injected, and the statement is built.
Inject(r) ==
    /\ request[r].pc = "clean"
    /\ request' = [request EXCEPT ![r] =
          LET data == IF @.op = "create"
                      THEN injectCode(injectCreateWithMeta(@.data, r), r)
                      ELSE injectUpdateWithMeta(@.data, r)
          IN  [@ EXCEPT !.data = data,
                        !.pc = IF Built(data) = "none" THEN "ready" ELSE "done",
                        !.status = Built(data)]]
    /\ UNCHANGED <<table, blocked, now, rows, writer, always, ever, written>>

\* The database wants a value for c: it has none of its own.
NeedsValue(c) ==
    LET d == table.columns[c] IN ~d.nullable /\ ~d.default /\ ~d.auto

NullsAllowed(cells) ==
    \A c \in DOMAIN cells : cells[c] = [db |-> Null] => table.columns[c].nullable

\* A JSON column takes JSON: no empty text, no time and no UUID.
JsonTexts(cells) ==
    \A c \in DOMAIN cells : Meta[c].sqlType = "Json" =>
        cells[c] # [client |-> EmptyString] /\ DOMAIN cells[c] \cap {"clock", "uuid"} = {}

Insert(r) ==
    /\ request[r].pc = "ready" /\ request[r].op = "create"
    /\ \A c \in Columns : NeedsValue(c) => c \in DOMAIN request[r].data
    /\ LET cells == InsertCells(request[r].data)
       IN  /\ JsonTexts(cells)
           /\ rows' = [rows EXCEPT ![r] =
                 [c \in Columns |-> IF c \in DOMAIN cells THEN cells[c] ELSE [db |-> "default"]]]
           /\ written' = [written EXCEPT ![r] = cells]
    /\ request' = [request EXCEPT ![r] =
                     [@ EXCEPT !.pc = "done", !.status = "ok", !.until = now]]
    /\ UNCHANGED <<table, blocked, now, writer, always, ever>>

\* An UPDATE changes the row that its WHERE clause is bound to, if it is there.
Update(r) ==
    LET data  == request[r].data
        cells == UpdateCells(data, request[r].row)
        where == UpdateParams(data, request[r].row)[WhereIdx(data)]
    IN  /\ request[r].pc = "ready" /\ request[r].op = "update"
        /\ IF "row" \in DOMAIN where /\ rows[where.row] # NoRow
           THEN /\ NullsAllowed(cells) /\ JsonTexts(cells)
                /\ rows' = [rows EXCEPT ![where.row] =
                     [c \in Columns |-> IF c \in DOMAIN cells THEN cells[c] ELSE @[c]]]
                /\ writer' = [writer EXCEPT ![where.row] = r]
                /\ written' = [written EXCEPT ![r] = cells]
                /\ request' = [request EXCEPT ![r] =
                     [@ EXCEPT !.pc = "done", !.status = "ok", !.until = now]]
           ELSE /\ Finish(r, "notfound")
                /\ UNCHANGED <<rows, writer, written>>
        /\ UNCHANGED <<table, blocked, now, always, ever>>

\* The database refuses the statement.
Refused(r) ==
    /\ request[r].pc = "ready"
    /\ Finish(r, "refused")
    /\ UNCHANGED <<table, blocked, now, rows, writer, always, ever, written>>

\* addBlockedField, setBlockedFields, resetAll.
ChangeBlocked(fs) ==
    /\ fs # blocked
    /\ blocked' = fs
    /\ always' = [r \in Requests |-> IF request[r].pc \in {"idle", "done"} THEN always[r]
                                     ELSE always[r] \cap (kDefaultBlocked \cup fs)]
    /\ ever' = [r \in Requests |-> IF request[r].pc \in {"idle", "done"} THEN ever[r]
                                   ELSE ever[r] \cup fs]
    /\ UNCHANGED <<table, now, request, rows, writer, written>>

addBlockedField(f) == ChangeBlocked(blocked \cup {f})
setBlockedFields(fs) == ChangeBlocked(fs)
resetAll == ChangeBlocked({})

Tick ==
    /\ now < table.maxTime
    /\ now' = now + 1
    /\ UNCHANGED <<table, blocked, request, rows, writer, always, ever, written>>

Next ==
    \/ \E r \in Requests :
          \/ \E body \in table.posts : Receive(r, "create", body, r)
          \/ \E body \in table.puts, k \in Requests : Receive(r, "update", body, k)
          \/ Sanitize(r) \/ Inject(r) \/ Insert(r) \/ Update(r) \/ Refused(r)
    \/ \E fs \in table.lists : setBlockedFields(fs) \/ \E f \in fs : addBlockedField(f)
    \/ table.lists # {} /\ resetAll
    \/ Tick

Spec == Init /\ [][Next]_vars

-----------------------------------------------------------------------------
(* Properties *)

Cell == [client : {v \in Values : ~IsNull(v)}] \cup [user : Requests] \cup [clock : 0..table.maxTime]
            \cup [uuid : Requests] \cup [db : {Null, "default"}]

\* Type invariant: what a statement has bound to a column is a text.
TypeOK ==
    /\ table \in Cases
    /\ now \in 0..table.maxTime
    /\ \A r \in Requests :
        /\ request[r] = Idle
           \/ /\ request[r].pc \in {"valid", "clean", "ready", "done"}
              /\ request[r].since <= request[r].until
              /\ request[r].row \in Requests
        /\ \A c \in DOMAIN rows[r] : rows[r][c] \in Cell
        /\ \A c \in DOMAIN written[r] : written[r][c] \in Cell
        /\ writer[r] \in Requests
        /\ always[r] \subseteq ever[r]

Done(r, status) == request[r].pc = "done" /\ request[r].status = status

\* FieldGuard.h:15, "Strips dangerous fields": a client's value never gets into
\* a column that was blocked, by default or for the table, all the time that its
\* request took, whoever changes the lists meanwhile.
ProtectedColumns ==
    \A r \in Requests : \A c \in DOMAIN written[r] \cap always[r] :
        "client" \notin DOMAIN written[r][c]

\* The row k says in field that user u or that time t was there.
Says(k, field, cells) == field \in Columns => rows[k][field] \in cells

WorkedBy(r)   == {[user |-> r]}
WorkedWhen(r) == {[clock |-> t] : t \in request[r].since..request[r].until}

\* AuditInjector with FieldGuard and the validator: whatever requests overlap, a
\* row names the user that created it and a moment of that request for ever, and
\* the user and a moment of the request whose statement changed it last.
AuditTrail ==
    \A k \in Requests : rows[k] # NoRow =>
        /\ Says(k, "created_by", WorkedBy(k))
        /\ Says(k, "created_at", WorkedWhen(k))
        /\ Says(k, "modified_by", WorkedBy(writer[k]))
        /\ Says(k, "updated_at", WorkedWhen(writer[k]))

\* What the statements keep of a value: printing a double loses digits.
Kept(v) == ~(v.type = "number" /\ v.size > 6)

\* The value is one that a POST takes for none.
Vacant(r, c) ==
    /\ request[r].op = "create"
    /\ IsNull(request[r].body[c]) \/ (c = "code" /\ request[r].body[c] = EmptyString)

\* QueryBuilder with its placeholders and parameters: a statement that was
\* executed has put every accepted value, and every null of a PUT, into its own
\* column, and no client's value into any other.
WrittenAsAccepted ==
    \A r \in Requests : Done(r, "ok") =>
        LET body == request[r].body
        IN  /\ \A c \in DOMAIN body \ ever[r] : ~Vacant(r, c) /\ Kept(body[c]) =>
                  written[r][c] = IF IsNull(body[c]) THEN [db |-> Null]
                                  ELSE [client |-> body[c]]
            /\ \A c \in DOMAIN written[r] : "client" \in DOMAIN written[r][c] =>
                  c \in DOMAIN body

\* Every INTEGER column of a composite key is an auto-increment column to
\* SQLiteIntrospector, which it is not to SQLite.
Misjudged(c) == Meta[c].isAutoIncrement # table.columns[c].auto

\* The INSERT of r has a value for c, or lacks it since FieldGuard stripped the
\* column and no injector fills it.
Supplied(r, c) ==
    \/ c \in DOMAIN request[r].data /\ ~IsNullJson(request[r].data[c])
    \/ c \in ever[r] \ {"created_at", "updated_at", "created_by", "modified_by"}

Creating(r) == request[r].pc = "ready" /\ request[r].op = "create"

\* The validator, FieldGuard, the injectors and the query builder agree on who
\* supplies a column.  What was accepted is never refused by the query builder
\* unless all of it was stripped and there is nothing to inject; and an INSERT
\* lacks a value that the database wants only where FieldGuard stripped the
\* column and no injector fills it.
AcceptedIsWritable ==
    \A r \in Requests :
        /\ ~Done(r, "nocolumn")
        /\ Done(r, "empty") => DOMAIN request[r].body \subseteq ever[r]
        /\ Creating(r) => \A c \in Columns : NeedsValue(c) /\ ~Misjudged(c) => Supplied(r, c)

\* A schema has values of this type among its instances.
Allows(s, type) ==
    \/ type = s.type \/ (type = "integer" /\ s.type = "number")
    \/ type = "null" /\ s.nullable

\* v is an instance of a schema, whose maxLength is in characters.
Conforms(v, s) ==
    /\ Allows(s, v.type)
    /\ v.type = "string" /\ s.maxLength # NoMax => v.size <= s.maxLength

ConformsAll(body, schema) ==
    /\ schema.required \subseteq DOMAIN body
    /\ \A f \in DOMAIN body : f \in DOMAIN schema.properties
                              /\ Conforms(body[f], schema.properties[f])

\* The body of r is made of the published properties as published.
AsPublished(r) ==
    ConformsAll(request[r].body, IF request[r].op = "create" THEN generateCreateSchema
                                 ELSE generateUpdateSchema)

\* A string has room in its column, but more bytes than the column has characters.
TooManyBytes(body) ==
    \E f \in DOMAIN body \cap Columns :
        /\ body[f].type = "string"
        /\ body[f].size <= Meta[f].maxLength /\ Meta[f].maxLength < body[f].bytes

\* OpenApiGenerator and RequestValidator, each with lists of automatic fields and
\* tables of types of its own: a body that is as published is rejected exactly if
\* it has a string that takes more bytes than its column has characters.
PublishedSchemaHonoured ==
    \A r \in Requests :
        request[r].pc # "idle" /\ AsPublished(r) /\ ~Done(r, "nokey") =>
            (Done(r, "invalid") <=> TooManyBytes(request[r].body))

\* Row k is answered, in column c, with a value of the published type.
AnsweredAsPublished(k, c) ==
    \A type \in serializeRow(c, rows[k][c]) : Allows(generateTableSchema[c], type)

\* The cell holds JSON that no validator has looked at: a default of the database,
\* or a value for a column that the validator leaves to the server.
Unchecked(c, cell) ==
    /\ Meta[c].sqlType = "Json" /\ ~IsNullCell(c, cell)
    /\ "client" \notin DOMAIN cell \/ c \in autoFields \/ Meta[c].isAutoIncrement

\* JsonSerializer answers with what is in the row, whoever wrote it and over what;
\* the document says what the column may hold.  That a value has the published
\* type, null only if that is published, takes the validator, the injectors, the
\* null handling of the statements and the database.  The only exception to
\* README.md:130, "every type - accurate", is JSON that no validator has looked at,
\* which is published as an object and answered as anything.
RowsAsPublished ==
    \A k \in Requests : rows[k] # NoRow =>
        \A c \in Columns : AnsweredAsPublished(k, c) \/ Unchecked(c, rows[k][c])
=============================================================================
