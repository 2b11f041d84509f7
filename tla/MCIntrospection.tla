--------------------------- MODULE MCIntrospection ---------------------------
(* A small instance of Introspection for TLC. *)
EXTENDS Introspection

CONSTANTS user, userLog, id, name

\* Two definitions that differ in their columns and in their key.
MCDefinitions ==
    {[columns |-> {id, name}, keys |-> {id}, refs |-> {}],
     [columns |-> {name}, keys |-> {name}, refs |-> {name}]}
=============================================================================
