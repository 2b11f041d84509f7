---------------------------- MODULE RecencyCache ----------------------------
(***************************************************************************)
(* What LruCache promises: a bounded map with expiring entries that makes  *)
(* room by giving up the entry whose latest use is the longest ago.  There *)
(* is no list and no index here: a use is numbered, and the numbers say    *)
(* which entry goes.                                                       *)
(***************************************************************************)
EXTENDS CacheConstants

VARIABLES
    now,        \* the steady clock
    content,    \* content[k]: what is cached under k
    uses,       \* number of puts and hits so far
    used,       \* used[k]: number of the latest put or hit of k, 0 for none
    wanted      \* the keys put, and neither invalidated nor found expired since

vars == <<now, content, uses, used, wanted>>

Item == [value : Values, expiresAt : Nat]
Gone == [expiresAt |-> 0]

Cached == {k \in Keys : content[k] # Gone}

Init ==
    /\ now = 0
    /\ content = [k \in Keys |-> Gone]
    /\ uses = 0
    /\ used = [k \in Keys |-> 0]
    /\ wanted = {}

Use(k) ==
    /\ uses < MaxUses
    /\ uses' = uses + 1
    /\ used' = [used EXCEPT ![k] = uses + 1]

\* k is cached; the least recently used entry makes room if it has to.
Put(k, v, ttl) ==
    LET item == [value |-> v, expiresAt |-> now + ttl]
    IN  /\ IF k \in Cached \/ Cardinality(Cached) < MaxSize
           THEN content' = [content EXCEPT ![k] = item]
           ELSE \E x \in Cached :
                   /\ \A y \in Cached : used[x] <= used[y]
                   /\ content' = [content EXCEPT ![x] = Gone, ![k] = item]
        /\ Use(k)
        /\ wanted' = wanted \cup {k}
        /\ UNCHANGED now

Hit(k) ==
    /\ k \in Cached /\ now < content[k].expiresAt
    /\ Use(k)
    /\ UNCHANGED <<now, content, wanted>>

\* Some keys are invalidated, or their entries are found expired.
Drop(ks) ==
    /\ content' = [k \in Keys |-> IF k \in ks THEN Gone ELSE content[k]]
    /\ wanted' = wanted \ ks
    /\ UNCHANGED <<now, uses, used>>

Expired == {k \in Cached : now >= content[k].expiresAt}

DropSome ==
    \/ \E k \in Keys : Drop({k})
    \/ \E ks \in PrefixSets : Drop(ks)
    \/ Drop(Keys)
    \/ Drop(Expired)

Tick == now < MaxTime /\ now' = now + 1 /\ UNCHANGED <<content, uses, used, wanted>>

Next ==
    \/ \E k \in Keys :
          \/ \E v \in Values, ttl \in Ttls : Put(k, v, ttl)
          \/ Hit(k)
    \/ DropSome
    \/ Tick

Spec == Init /\ [][Next]_vars

-----------------------------------------------------------------------------

\* Type invariant.
TypeOK ==
    /\ now \in Nat
    /\ content \in [Keys -> Item \cup {Gone}]
    /\ uses \in Nat
    /\ used \in [Keys -> Nat]
    /\ wanted \subseteq Keys

UsedSince(k) == {x \in Keys : used[x] > used[k]}

\* LruCache keeps what is in use: it gives up a key that is still wanted only
\* when at least MaxSize other keys were put or hit since that key was, and
\* never holds more than MaxSize entries.
WorkingSetKept ==
    /\ Cardinality(Cached) <= MaxSize
    /\ \A k \in wanted \ Cached : Cardinality(UsedSince(k)) >= MaxSize
=============================================================================
