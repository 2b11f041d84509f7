---------------------------- MODULE MCRowWrites ----------------------------
(* A small instance of RowWrites for TLC. *)
EXTENDS RowWrites, TLC

\* Requests and connections are interchangeable.
MCSymmetry == Permutations(Requests) \cup Permutations(Connections)
=============================================================================
