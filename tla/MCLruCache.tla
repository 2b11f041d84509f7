----------------------------- MODULE MCLruCache -----------------------------
(* A small instance of LruCache for TLC. *)
EXTENDS LruCache

CONSTANTS listUser, itemUser, listLog

\* The keys of table user_log have the prefix of table user too.
MCPrefixSets == {{listLog}, {listUser, itemUser, listLog}}
=============================================================================
