---------------------------- MODULE MCWritePipeline ----------------------------
(* A small instance of WritePipeline for TLC. *)
EXTENDS WritePipeline, TLC

MCSymmetry == Permutations(Requests)

MCNames == <<"a", "b", "bogus", "code", "created_at", "created_by", "deleted_at", "id",
             "modified_by", "name", "note", "updated_at">>

Value(type, size, bytes) == [type |-> type, size |-> size, bytes |-> bytes]
null == Value("null", 0, 0)
ab   == Value("string", 2, 2)
int  == Value("integer", 1, 1)

\* A value of every JSON type; strings of two and three characters, one with a
\* character of two bytes; a number of nine digits.
AnyValue ==
    {null, ab, int, EmptyString, Value("string", 3, 3), Value("string", 2, 3),
     Value("boolean", 1, 1), Value("number", 2, 2), Value("number", 9, 9),
     Value("object", 1, 1), Value("array", 1, 1)}

\* Definitions of columns.
Column(type, nullable, default) ==
    [type |-> type, nullable |-> nullable, default |-> default,
     key |-> FALSE, auto |-> FALSE, max |-> NoMax]
Auto(type) == [Column(type, FALSE, FALSE) EXCEPT !.key = TRUE, !.auto = TRUE]

MySql(data)       == [data |-> data, column |-> data]
Postgres(udt)     == [udt |-> udt, data |-> udt]
SQLite(decl, has) == [declared |-> decl, has |-> has]

IntOf == [mysql |-> MySql("INT"), postgresql |-> Postgres("INT4"),
          sqlite3 |-> SQLite("INTEGER", {"INT"})]
TextOf == [mysql |-> MySql("TEXT"), postgresql |-> Postgres("TEXT"),
           sqlite3 |-> SQLite("TEXT", {"TEXT"})]

\* A type for every row of TypeMapper's tables.
TypesOf ==
    [mysql |-> {MySql(t) : t \in {"TINYINT", "INT", "DOUBLE", "DECIMAL", "VARCHAR", "ENUM",
                                  "DATETIME", "DATE", "TIME", "JSON", "BLOB", "YEAR"}}
               \cup {[data |-> "TINYINT", column |-> "tinyint(1)"]},
     postgresql |-> {Postgres(t) : t \in {"BOOL", "INT8", "FLOAT8", "NUMERIC", "UUID", "JSONB",
                                          "TIMESTAMPTZ", "DATE", "TIME", "BYTEA", "CITEXT"}}
                    \cup {[udt |-> "VARCHAR", data |-> "CHARACTER VARYING"]},
     sqlite3 |-> {SQLite("INTEGER", {"INT"}), SQLite("VARCHAR(2)", {"CHAR"}),
                  SQLite("BLOB", {"BLOB"}), SQLite("", {}), SQLite("DOUBLE", {"DOUB"}),
                  SQLite("BOOLEAN", {"BOOL"}), SQLite("DATETIME", {"DATE", "TIME"}),
                  SQLite("DECIMAL", {}), SQLite("POINT", {"INT"}),
                  SQLite("CHARINT", {"CHAR", "INT"})}]

Engines == DOMAIN IntOf

Bodies(fs, vs) == UNION {[d -> vs] : d \in SUBSET fs}

\* One request for a table with a key and one other column of any type.
TypeCases == UNION {
    {[engine |-> e, load |-> 1, lists |-> {}, maxTime |-> 0,
      columns |-> [id |-> Auto(IntOf[e]), name |-> [Column(t, n, d) EXCEPT !.max = m]],
      posts |-> Bodies({"name"}, AnyValue) \cup {[bogus |-> ab]},
      puts  |-> Bodies({"name"}, AnyValue) \cup {[bogus |-> ab]}] :
          t \in TypesOf[e], n \in BOOLEAN, d \in BOOLEAN, m \in {NoMax, 2}} : e \in Engines}

\* Three requests for a table with audit columns.
AuditCases ==
    {[engine |-> e, load |-> 3, lists |-> {}, maxTime |-> 1,
      columns |-> [id |-> Auto(IntOf[e]), name |-> Column(TextOf[e], TRUE, FALSE),
                   note |-> Column(TextOf[e], TRUE, FALSE),
                   created_at |-> Column(TextOf[e], FALSE, FALSE),
                   created_by |-> Column(TextOf[e], FALSE, FALSE),
                   modified_by |-> Column(TextOf[e], FALSE, FALSE),
                   updated_at |-> Column(TextOf[e], FALSE, FALSE)],
      posts |-> {[name |-> ab, created_by |-> ab]},
      puts  |-> {[name |-> null, note |-> ab], [created_by |-> ab]}] : e \in {"sqlite3"}}

\* Requests while FieldGuard's lists are changed: one POST of anything, or a POST
\* and a PUT.
ListColumns(e) ==
    [id |-> Auto(IntOf[e]), name |-> Column(TextOf[e], FALSE, FALSE),
     note |-> Column(TextOf[e], TRUE, FALSE), deleted_at |-> Column(TextOf[e], TRUE, FALSE),
     code |-> Column(TextOf[e], FALSE, FALSE)]

ListCases ==
    {[engine |-> "postgresql", load |-> 1, lists |-> {{"name"}, {"note", "code"}},
      maxTime |-> 0, columns |-> ListColumns("postgresql"),
      posts |-> Bodies({"name", "note", "deleted_at"}, {null, ab})
                  \cup {[name |-> ab, code |-> v] : v \in {null, EmptyString, ab, int}},
      puts |-> {}],
     [engine |-> "mysql", load |-> 2, lists |-> {{"note"}}, maxTime |-> 0,
      columns |-> ListColumns("mysql"),
      posts |-> {[name |-> ab, id |-> int]},
      puts |-> {[name |-> ab, note |-> null], [note |-> ab, deleted_at |-> ab],
                [deleted_at |-> ab], [id |-> int]}]}

\* Keys that the database does not fill: one named id, one of two INTEGER columns.
KeyCases ==
    {[engine |-> "postgresql", load |-> 2, lists |-> {}, maxTime |-> 0,
      columns |-> [id |-> [Column(TextOf["postgresql"], FALSE, FALSE) EXCEPT !.key = TRUE],
                   a |-> Column(TextOf["postgresql"], TRUE, FALSE)],
      posts |-> Bodies({"a", "id"}, {null, ab}), puts |-> Bodies({"a", "id"}, {ab})],
     [engine |-> "sqlite3", load |-> 1, lists |-> {}, maxTime |-> 0,
      columns |-> [c \in {"a", "b"} |->
                      [Column(IntOf["sqlite3"], FALSE, FALSE) EXCEPT !.key = TRUE]],
      posts |-> Bodies({"a", "b"}, {null, int}), puts |-> {}],
     [engine |-> "mysql", load |-> 1, lists |-> {}, maxTime |-> 0,
      columns |-> [a |-> Column(TextOf["mysql"], TRUE, FALSE)],
      posts |-> Bodies({"a"}, {null, ab}), puts |-> Bodies({"a"}, {ab})]}

\* JSON columns: one with a default, one that the validator leaves to the server.
JsonOf == [mysql |-> MySql("JSON"), postgresql |-> Postgres("JSONB")]
JsonValues == {null, ab, Value("object", 1, 1), Value("array", 1, 1)}
JsonCases ==
    {[engine |-> e, load |-> 2, lists |-> {}, maxTime |-> 0,
      columns |-> [id |-> Auto(IntOf[e]), a |-> Column(TextOf[e], TRUE, FALSE),
                   name |-> Column(JsonOf[e], n, TRUE), code |-> Column(JsonOf[e], TRUE, FALSE)],
      posts |-> {[a |-> ab] @@ body : body \in Bodies({"code", "name"}, JsonValues)},
      puts  |-> {[code |-> v] : v \in JsonValues} \cup {[name |-> v] : v \in JsonValues}] :
          e \in DOMAIN JsonOf, n \in BOOLEAN}

MCCases == TypeCases \cup JsonCases \cup AuditCases \cup ListCases \cup KeyCases
=============================================================================
