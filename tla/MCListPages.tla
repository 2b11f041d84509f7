------------------------------ MODULE MCListPages ------------------------------
(* A small instance of ListPages for TLC. *)
EXTENDS ListPages, TLC

\* Requests and connections are interchangeable.
MCSymmetry == Permutations(Requests) \cup Permutations(Connections)

\* All rows, or those with an odd id.
MCFilters == {Ids, {id \in Ids : id % 2 = 1}}

\* -1 wraps, and is then over the cap; 0 is no limit.
MCNumbers == {-1, 0, 1}
=============================================================================
