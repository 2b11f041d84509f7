---------------------------- MODULE CacheConstants ----------------------------
(* What RecencyCache and LruCache have in common: their parameters. *)
EXTENDS Integers, FiniteSets

CONSTANTS
    Keys,       \* keys of the cache
    Values,     \* cached values
    PrefixSets, \* the sets of keys that share a prefix
    MaxSize,    \* maxSize_
    Ttls,       \* times-to-live passed to put
    MaxTime,    \* bound on the clock
    MaxUses     \* bound on the puts and hits

ASSUME CacheAssumption ==
    /\ IsFiniteSet(Keys)
    /\ PrefixSets \subseteq SUBSET Keys
    /\ MaxSize \in Nat \ {0}
    /\ Ttls \subseteq Nat
    /\ MaxTime \in Nat
    /\ MaxUses \in Nat
=============================================================================
