---------------------------- MODULE MCTieredCache ----------------------------
(***************************************************************************)
(* Small instances of TieredCache for TLC.                                 *)
(***************************************************************************)
EXTENDS TieredCache, TLC

CONSTANTS user, userLog,      \* two tables
          listUser, itemUser, \* GET /api/v1/user and GET /api/v1/user/{id}
          listLog             \* GET /api/v1/user_log

\* The name of the second table starts with the name of the first.
MCPrefixOf == [t \in Tables |-> IF t = user THEN Tables ELSE {t}]
MCTableOf  == [k \in Keys |-> IF k = listLog THEN userLog ELSE user]

\* Requests are interchangeable, and so are server processes.
MCSymmetry == Permutations(Readers) \cup Permutations(Writers)
                \cup Permutations(Instances)
=============================================================================
