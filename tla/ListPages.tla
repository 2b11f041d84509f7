------------------------------- MODULE ListPages -------------------------------
(***************************************************************************)
(* GET of a list, beside the writers of RowWrites: parseListParams, the    *)
(* SELECT that asks for one row more than the page has, and the COUNT that *)
(* is a second statement, with statements of other requests in between.    *)
(*                                                                         *)
(* A row is its id; what a filter or an order makes of it is given by the  *)
(* id.  Every list request is made once, and answered from the database    *)
(* (TieredCache has the cache).                                            *)
(***************************************************************************)
EXTENDS RowWrites, Sequences, FiniteSetsExt

CONSTANTS
    Lists,         \* list requests
    Numbers,       \* numbers that may be given for limit and offset
    Filters,       \* sets of ids that pass a filter
    DefaultLimit,  \* 20 in the code
    MaxLimit,      \* 50000 in the code
    Word           \* number of values of size_t

ASSUME ListAssumption ==
    /\ DefaultLimit \in 1..MaxLimit /\ MaxLimit \in 1..(Word - 2) /\ Word \in Nat
    /\ Numbers \subseteq Int
    /\ \A f \in Filters : f \subseteq Ids

VARIABLES
    list,    \* list[l]: the handler l
    seen     \* history: seen[l]: the sets of matching rows there were during l

listVars == <<list, seen>>

Unknown == -1

\* What is read of a parameter, <<>> if it is missing or no number: std::stoul
\* takes a minus sign, and wraps.
stoul(param, default) == IF param = <<>> THEN default ELSE param[1] % Word

\* Mutant of Limit: there is no cap.
LimitUncapped(param) ==
    LET n == stoul(param, DefaultLimit) IN IF n = 0 THEN DefaultLimit ELSE n

Limit(param) ==
    LET n == stoul(param, DefaultLimit)
    IN  IF n > MaxLimit THEN MaxLimit ELSE IF n = 0 THEN DefaultLimit ELSE n

Offset(param) == stoul(param, 0)

ListInit ==
    /\ Init
    /\ list = [l \in Lists |-> Idle]
    /\ seen = [l \in Lists |-> {}]

\* A list request that missed the cache, for a table that is registered.
\* sorted: by a column in which no two rows agree; match: what passes the filters.
StartList(l, limit, offset, sorted, match, count) ==
    /\ list[l] = Idle
    /\ list' = [list EXCEPT ![l] =
                  [pc |-> "select", limit |-> Limit(limit), offset |-> Offset(offset),
                   sorted |-> sorted, match |-> match, wantCount |-> Offset(offset) > 0 \/ count,
                   page |-> {}, hasMore |-> FALSE, total |-> Unknown]]
    /\ seen' = [seen EXCEPT ![l] = {rows \cap match}]
    /\ UNCHANGED vars

Matching(l) == rows \cap list[l].match

\* The place of x among the rows in S, when they are sorted.
Rank(S, x) == Cardinality({y \in S : y < x})

\* How many rows LIMIT limit + 1 OFFSET offset leaves of those in S.
ResultSize(job, S) == Max({0, Min({job.limit + 1, Cardinality(S) - job.offset})})

\* The rows that it may leave: without ORDER BY any of that number, with it
\* those at their places.
Results(job, S) ==
    {R \in SUBSET S : /\ Cardinality(R) = ResultSize(job, S)
                      /\ job.sorted => \A x \in R :
                            Rank(S, x) \in job.offset..(job.offset + ResultSize(job, S) - 1)}

\* Mutant of Shown: the probe row is taken to be the first one.
ShownLast(job, R) ==
    {P \in SUBSET R : /\ Cardinality(P) = Min({job.limit, Cardinality(R)})
                      /\ job.sorted => \A x \in P, y \in R \ P : x > y}

\* The pages that the rows in R may be cut down to: without the last of them.
Shown(job, R) ==
    {P \in SUBSET R : /\ Cardinality(P) = Min({job.limit, Cardinality(R)})
                      /\ job.sorted => \A x \in P, y \in R \ P : x < y}

\* The total when no COUNT is asked for: that of the only page, or none.
Total(job, R) ==
    IF Cardinality(R) > job.limit THEN Unknown ELSE job.offset + Cardinality(R)

\* The SELECT of l.
SelectPage(l) ==
    /\ list[l].pc = "select"
    /\ LET job == list[l]
       IN  \E R \in Results(job, Matching(l)) : \E P \in Shown(job, R) :
              list' = [list EXCEPT ![l] =
                 [job EXCEPT !.page = P, !.hasMore = Cardinality(R) > job.limit,
                             !.pc = IF job.wantCount THEN "count" ELSE "ok",
                             !.total = IF job.wantCount THEN Unknown ELSE Total(job, R)]]
    /\ UNCHANGED <<vars, seen>>

\* Mutant of CountRows: the filters are forgotten.
CountAllRows(l) ==
    /\ list[l].pc = "count"
    /\ list' = [list EXCEPT ![l].pc = "ok", ![l].total = Cardinality(rows)]
    /\ UNCHANGED <<vars, seen>>

\* The COUNT of l, with the same filters.
CountRows(l) ==
    /\ list[l].pc = "count"
    /\ list' = [list EXCEPT ![l].pc = "ok", ![l].total = Cardinality(Matching(l))]
    /\ UNCHANGED <<vars, seen>>

\* A statement of l throws (for an offset that has wrapped, on some engines).
ListFails(l) ==
    /\ list[l].pc \in {"select", "count"}
    /\ list' = [list EXCEPT ![l] = [pc |-> "error"]]
    /\ seen' = [seen EXCEPT ![l] = {}]
    /\ UNCHANGED vars

\* A writer takes a step, of which seen keeps the outcome.
Write ==
    /\ Next
    /\ seen' = [l \in Lists |-> IF list[l].pc \in {"select", "count"}
                                THEN seen[l] \cup {rows' \cap list[l].match} ELSE seen[l]]
    /\ UNCHANGED list

Params == {<<>>} \cup {<<n>> : n \in Numbers}

ListNext ==
    \/ Write
    \/ \E l \in Lists :
          \/ \E limit, offset \in Params, sorted, count \in BOOLEAN, match \in Filters :
                StartList(l, limit, offset, sorted, match, count)
          \/ SelectPage(l) \/ CountRows(l) \/ ListFails(l)

ListSpec == ListInit /\ [][ListNext]_<<vars, listVars>>

-----------------------------------------------------------------------------
(* Properties *)

\* parseListParams, handleList: whatever numbers are given, a page has at most
\* limit rows, and as many if there are more; all of them were there, and match.
PageShape ==
    \A l \in Lists : list[l].pc \in {"count", "ok"} =>
        /\ list[l].limit \in 1..MaxLimit
        /\ Cardinality(list[l].page) <= list[l].limit
        /\ list[l].hasMore => Cardinality(list[l].page) = list[l].limit
        /\ \E S \in seen[l] : list[l].page \subseteq S

\* BlueprintController.cpp:148, "exact total is known": a total that is told was
\* the number of matching rows at some moment of the request, even if rows come
\* and go between the SELECT and the COUNT; it is withheld only for a first page
\* that is not the last, when nobody asked.
TotalWasTrue ==
    \A l \in Lists : list[l].pc = "ok" =>
        IF list[l].total = Unknown
        THEN list[l].offset = 0 /\ list[l].hasMore /\ ~list[l].wantCount
        ELSE \E S \in seen[l] : list[l].total = Cardinality(S)

\* While the matching rows do not change, the pages of a sorted list follow on
\* each other: page, has_more and total are those of the same rows, the page
\* has the rows ranked from offset up, and has_more says if there are others.
QuietPagesExact ==
    \A l \in Lists : list[l].pc = "ok" /\ Cardinality(seen[l]) = 1 =>
        LET S == CHOOSE s \in seen[l] : TRUE
        IN  /\ list[l].total \in {Unknown, Cardinality(S)}
            /\ list[l].hasMore <=> list[l].offset + Cardinality(list[l].page) < Cardinality(S)
            /\ list[l].sorted =>
                  list[l].page = {x \in S : Rank(S, x)
                                      \in list[l].offset..(list[l].offset + list[l].limit - 1)}
=============================================================================
