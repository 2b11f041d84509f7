----------------------------- MODULE WriteOnceMap -----------------------------
(***************************************************************************)
(* What the handlers rely on when they keep a pointer that getTable        *)
(* returned: the registry is a map that only grows, and what it says of a  *)
(* table never changes.                                                    *)
(***************************************************************************)
CONSTANTS
    Tables,     \* names of tables
    Entry       \* what may be registered under a name

VARIABLES
    registered, \* the names that are registered
    entries     \* entries[t]: what is registered under t, if t is registered

vars == <<registered, entries>>

Init == registered = {} /\ entries \in [Tables -> Entry]

Publish(t, e) ==
    /\ t \notin registered
    /\ registered' = registered \cup {t}
    /\ entries' = [entries EXCEPT ![t] = e]

Next == \E t \in Tables, e \in Entry : Publish(t, e)

Spec == Init /\ [][Next]_vars
=============================================================================
