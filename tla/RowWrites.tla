------------------------------ MODULE RowWrites ------------------------------
(***************************************************************************)
(* What POST, bulk POST, PUT and DELETE do to the rows of one table, and   *)
(* what they answer (QueryBuilder::executeInsert, executeUpdate,           *)
(* executeDelete and the handlers that call them).                         *)
(*                                                                         *)
(* PostgreSQL and SQLite return the changed row with the statement itself. *)
(* MySQL cannot: the row is read back in further statements, each of them  *)
(* executed on whichever connection of the pool is free, with statements   *)
(* of other requests in between.  LAST_INSERT_ID() is a value of the       *)
(* connection, not of the request.                                         *)
(*                                                                         *)
(* The table has an auto-increment primary key, and a row is its id.       *)
(* Every request of the model is made once.                                *)
(***************************************************************************)
EXTENDS Integers, FiniteSets

CONSTANTS
    Requests,     \* write requests
    Connections,  \* connections of the pool
    Engines,      \* values of DB_ENGINE: "returning" (PostgreSQL, SQLite), "mysql"
    Faults,       \* what may go wrong: "reply" (that of an executed statement is lost)
    BulkSize,     \* items of the largest bulk request
    MaxId         \* bound on the ids given to rows

ASSUME RowsAssumption ==
    /\ IsFiniteSet(Requests)
    /\ Engines \subseteq {"returning", "mysql"}
    /\ Faults \subseteq {"reply"}
    /\ BulkSize \in Nat \ {0}
    /\ MaxId \in Nat

VARIABLES
    engine,   \* the engine, read from the environment once
    rows,     \* ids of the rows of the table
    nextId,   \* the next value of the auto-increment column
    lastId,   \* lastId[c]: LAST_INSERT_ID() on connection c, 0 for none
    request,  \* request[r]: the handler r
    effect    \* history: effect[r]: ids of the rows r has inserted, updated or deleted

vars == <<engine, rows, nextId, lastId, request, effect>>

Ids  == 1..MaxId
NoId == 0

\* id: the row of a PUT or DELETE, or the row to be read back; left: items
\* that are still to be inserted; size: items of the request; shown: rows of
\* the answer; errors: items that failed.
Job == [pc : {"exec", "lastid", "reread", "ok", "notfound", "error"},
        op : {"create", "bulk", "update", "delete"},
        id : Ids \cup {NoId}, left : 0..BulkSize, size : 1..BulkSize,
        shown : SUBSET Ids, errors : 0..BulkSize]
Idle == [pc |-> "idle"]

Init ==
    /\ engine \in Engines
    /\ rows = {}
    /\ nextId = 1
    /\ lastId = [c \in Connections |-> NoId]
    /\ request = [r \in Requests |-> Idle]
    /\ effect = [r \in Requests |-> {}]

-----------------------------------------------------------------------------
(* How a handler goes on when its statements have returned, or thrown *)

\* Mutant of NextItem: the loop runs once too often.
NextItemOverruns(job) == [job EXCEPT !.left = @ - 1,
                                     !.pc = IF job.left > 0 THEN "exec" ELSE "ok"]

\* The next item of a bulk request, or its answer.
NextItem(job) == [job EXCEPT !.left = @ - 1,
                             !.pc = IF job.left > 1 THEN "exec" ELSE "ok"]

\* The statements of a request have returned the rows in found: a bulk request
\* adds them to its results, a POST answers with or without a row, a PUT or a
\* DELETE without a row answers that there is none.
Returned(job, found) ==
    IF job.op = "bulk" THEN NextItem([job EXCEPT !.shown = @ \cup found])
    ELSE [job EXCEPT !.shown = found,
                     !.pc = IF job.op # "create" /\ found = {} THEN "notfound" ELSE "ok"]

\* A statement has thrown: an item of a bulk request is counted as an error,
\* any other request is answered with one.
Threw(job) ==
    IF job.op = "bulk" THEN NextItem([job EXCEPT !.errors = @ + 1])
                       ELSE [job EXCEPT !.pc = "error"]

-----------------------------------------------------------------------------
(* Actions *)

\* A request comes in, for a registered table with a primary key.
Start(r, op, id, n) ==
    /\ request[r] = Idle
    /\ op \in {"update", "delete"} <=> id # NoId
    /\ op # "bulk" => n = 1
    /\ request' = [request EXCEPT ![r] =
                     [pc |-> "exec", op |-> op, id |-> id, left |-> n, size |-> n,
                      shown |-> {}, errors |-> 0]]
    /\ UNCHANGED <<engine, rows, nextId, lastId, effect>>

\* The INSERT of handler r is executed on connection c.
InsertRow(r, c) ==
    /\ request[r].pc = "exec" /\ request[r].op \in {"create", "bulk"}
    /\ nextId \in Ids
    /\ rows' = rows \cup {nextId}
    /\ nextId' = nextId + 1
    /\ lastId' = [lastId EXCEPT ![c] = nextId]
    /\ effect' = [effect EXCEPT ![r] = @ \cup {nextId}]

\* It has returned: the row itself, or nothing on MySQL.
Insert(r, c) ==
    /\ InsertRow(r, c)
    /\ request' = [request EXCEPT ![r] =
                     IF engine = "mysql" THEN [@ EXCEPT !.pc = "lastid"]
                                         ELSE Returned(@, {nextId})]
    /\ UNCHANGED engine

InsertReplyLost(r, c) ==
    /\ "reply" \in Faults
    /\ InsertRow(r, c)
    /\ request' = [request EXCEPT ![r] = Threw(@)]
    /\ UNCHANGED engine

\* Mutant of Refused: the loop goes on with a bulk item it has reported.
RefusedGoesOn(r) ==
    /\ request[r].pc = "exec"
    /\ request' = [request EXCEPT ![r] =
                     IF @.op = "bulk" THEN [@ EXCEPT !.errors = @ + 1] ELSE Threw(@)]
    /\ UNCHANGED <<engine, rows, nextId, lastId, effect>>

\* The validator rejects an item, a constraint refuses the statement, or the
\* connection is lost before it is sent.
Refused(r) ==
    /\ request[r].pc = "exec"
    /\ request' = [request EXCEPT ![r] = Threw(@)]
    /\ UNCHANGED <<engine, rows, nextId, lastId, effect>>

\* SELECT LAST_INSERT_ID() is executed on connection c.
LastId(r, c) ==
    /\ request[r].pc = "lastid"
    /\ request' = [request EXCEPT ![r].pc = "reread", ![r].id = lastId[c]]
    /\ UNCHANGED <<engine, rows, nextId, lastId, effect>>

\* The row with the id found is selected, if it is still there.
Reread(r) ==
    /\ request[r].pc = "reread"
    /\ request' = [request EXCEPT ![r] = Returned(@, rows \cap {request[r].id})]
    /\ UNCHANGED <<engine, rows, nextId, lastId, effect>>

RereadFails(r) ==
    /\ request[r].pc \in {"lastid", "reread"}
    /\ request' = [request EXCEPT ![r] = Threw(@)]
    /\ UNCHANGED <<engine, rows, nextId, lastId, effect>>

\* The row of a PUT or a DELETE, if it is there.
Found(r) == rows \cap {request[r].id}

\* An UPDATE that finds its row changes it; without one it affects no row, and
\* nothing is read back.
Update(r) ==
    /\ request[r].pc = "exec" /\ request[r].op = "update"
    /\ effect' = [effect EXCEPT ![r] = Found(r)]
    /\ request' = [request EXCEPT ![r] =
                     IF engine = "mysql" /\ Found(r) # {} THEN [@ EXCEPT !.pc = "reread"]
                                                          ELSE Returned(@, Found(r))]
    /\ UNCHANGED <<engine, rows, nextId, lastId>>

\* Mutant of Delete: no engine returns the deleted row.
DeleteReturnsNothing(r) ==
    /\ request[r].pc = "exec" /\ request[r].op = "delete"
    /\ rows' = rows \ Found(r)
    /\ effect' = [effect EXCEPT ![r] = Found(r)]
    /\ request' = [request EXCEPT ![r] = Returned(@, {})]
    /\ UNCHANGED <<engine, nextId, lastId>>

\* A DELETE removes its row; MySQL returns no row whatever it removes.
Delete(r) ==
    /\ request[r].pc = "exec" /\ request[r].op = "delete"
    /\ rows' = rows \ Found(r)
    /\ effect' = [effect EXCEPT ![r] = Found(r)]
    /\ request' = [request EXCEPT ![r] =
                     Returned(@, IF engine = "mysql" THEN {} ELSE Found(r))]
    /\ UNCHANGED <<engine, nextId, lastId>>

\* A PUT or a DELETE has been executed, and its reply is lost.
ChangeReplyLost(r) ==
    /\ "reply" \in Faults
    /\ request[r].pc = "exec" /\ request[r].op \in {"update", "delete"}
    /\ rows' = IF request[r].op = "delete" THEN rows \ Found(r) ELSE rows
    /\ effect' = [effect EXCEPT ![r] = Found(r)]
    /\ request' = [request EXCEPT ![r] = Threw(@)]
    /\ UNCHANGED <<engine, nextId, lastId>>

Next == \E r \in Requests :
    \/ \E op \in {"create", "bulk", "update", "delete"}, id \in Ids \cup {NoId},
          n \in 1..BulkSize : Start(r, op, id, n)
    \/ \E c \in Connections : Insert(r, c) \/ InsertReplyLost(r, c) \/ LastId(r, c)
    \/ Refused(r) \/ Reread(r) \/ RereadFails(r)
    \/ Update(r) \/ Delete(r) \/ ChangeReplyLost(r)

Spec == Init /\ [][Next]_vars

-----------------------------------------------------------------------------
(* Properties *)

\* Types of the variables; a handler that is idle has no other fields.
TypeOK ==
    /\ engine \in Engines
    /\ rows \in SUBSET Ids
    /\ nextId \in 1..MaxId + 1
    /\ lastId \in [Connections -> Ids \cup {NoId}]
    /\ request \in [Requests -> Job \cup {Idle}]
    /\ effect \in [Requests -> SUBSET Ids]

Answered(r, op, status) == request[r].pc = status /\ request[r].op = op

\* With RETURNING, whatever happens in between, an answer shows the rows its
\* request has changed and no others (a bulk answer may lack those of the
\* items it reports as errors).
ShownIsEffect ==
    engine = "returning" => \A r \in Requests :
        /\ \A op \in {"create", "update", "delete"}, status \in {"ok", "notfound"} :
               Answered(r, op, status) => request[r].shown = effect[r]
        /\ Answered(r, "bulk", "ok") =>
               /\ request[r].shown \subseteq effect[r]
               /\ Cardinality(effect[r] \ request[r].shown) <= request[r].errors

\* On any engine, a PUT that answers with a row shows the row it has updated,
\* and one that has updated its row and then answers 404 has lost it to a
\* DELETE: the re-read on MySQL invents nothing.
UpdateIsTold ==
    \A r \in Requests :
        /\ Answered(r, "update", "ok") => request[r].shown = effect[r]
        /\ Answered(r, "update", "notfound") => effect[r] \cap rows = {}

\* executeUpdate, executeDelete, executeInsert: the answer tells what the
\* statement has done to the table.
AnswerTellsEffect == ShownIsEffect /\ UpdateIsTold

\* handleBulkCreate with RETURNING: every item of a bulk request that is
\* answered is accounted for once, as a row or as an error.
BulkAccountsForAll ==
    engine = "returning" => \A r \in Requests :
        Answered(r, "bulk", "ok") =>
            Cardinality(request[r].shown) + request[r].errors = request[r].size

\* QueryBuilder.cpp:198, "query the inserted row": the row that a POST answers
\* with is the one it has inserted.  Not so on MySQL, whose LAST_INSERT_ID()
\* is that of the connection the second statement happens to run on.
CreatedRowIsOwn ==
    \A r \in Requests : Answered(r, "create", "ok") => request[r].shown \subseteq effect[r]

=============================================================================
