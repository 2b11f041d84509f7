------------------------------- MODULE LruCache -------------------------------
(***************************************************************************)
(* LruCache, the store of the L1 cache: a list of entries, the most        *)
(* recently used one first, and an index from keys to places in the list.  *)
(* Every operation holds a unique lock from its first to its last step, so *)
(* an operation is one action, whatever the number of threads.             *)
(*                                                                         *)
(* An iterator of the index stays on its entry while the list is spliced,  *)
(* so it is modelled by the entry's key: index is the set of the keys that *)
(* have an iterator, and an iterator is good as long as the list has one   *)
(* entry with its key.                                                     *)
(***************************************************************************)
EXTENDS CacheConstants, Sequences, SequencesExt

VARIABLES
    now,        \* the steady clock
    entries,    \* entries_: front first
    index,      \* index_: the keys with an iterator into entries
    uses,       \* history: number of puts and hits so far
    used,       \* history: used[k] is the number of the latest use of k
    wanted      \* history: keys put, neither invalidated nor found expired since

vars == <<now, entries, index, uses, used, wanted>>

CacheEntry == [key : Keys, value : Values, expiresAt : Nat]

Init ==
    /\ now = 0
    /\ entries = <<>>
    /\ index = {}
    /\ uses = 0
    /\ used = [k \in Keys |-> 0]
    /\ wanted = {}

-----------------------------------------------------------------------------

EntryAt(k) == CHOOSE i \in 1..Len(entries) : entries[i].key = k

Fresh(k, v, ttl) == [key |-> k, value |-> v, expiresAt |-> now + ttl]

\* Mutant of ToFront: the entry is updated where it is.
UpdatedInPlace(i, e) == [entries EXCEPT ![i] = e]

\* The i-th entry is spliced to the front, as e.
ToFront(i, e) == <<e>> \o RemoveAt(entries, i)

Use(k) ==
    /\ uses < MaxUses
    /\ uses' = uses + 1
    /\ used' = [used EXCEPT ![k] = uses + 1]

PutExisting(k, v, ttl) ==
    /\ k \in index
    /\ entries' = ToFront(EntryAt(k), Fresh(k, v, ttl))
    /\ Use(k)
    /\ wanted' = wanted \cup {k}
    /\ UNCHANGED <<now, index>>

\* Mutant of PutNew: the evicted entry keeps its iterator.
PutNewLeavesIterator(k, v, ttl) ==
    /\ k \notin index
    /\ entries' = <<Fresh(k, v, ttl)>> \o
          (IF Len(entries) >= MaxSize THEN Front(entries) ELSE entries)
    /\ index' = index \cup {k}
    /\ Use(k)
    /\ wanted' = wanted \cup {k}
    /\ UNCHANGED now

\* A new key; at capacity the entry at the back is evicted, expired or not.
PutNew(k, v, ttl) ==
    /\ k \notin index
    /\ IF Len(entries) >= MaxSize
       THEN /\ entries' = <<Fresh(k, v, ttl)>> \o Front(entries)
            /\ index' = (index \ {Last(entries).key}) \cup {k}
       ELSE /\ entries' = <<Fresh(k, v, ttl)>> \o entries
            /\ index' = index \cup {k}
    /\ Use(k)
    /\ wanted' = wanted \cup {k}
    /\ UNCHANGED now

\* Mutant of Hit: an entry is live at the moment that it expires.
HitAtExpiry(k) ==
    LET i == EntryAt(k)
    IN  /\ k \in index /\ now <= entries[i].expiresAt
        /\ entries' = ToFront(i, entries[i])
        /\ Use(k)
        /\ UNCHANGED <<now, index, wanted>>

\* get finds a live entry and promotes it.
Hit(k) ==
    LET i == EntryAt(k)
    IN  /\ k \in index /\ now < entries[i].expiresAt
        /\ entries' = ToFront(i, entries[i])
        /\ Use(k)
        /\ UNCHANGED <<now, index, wanted>>

\* What is left of the list s when a loop has erased the entries of the keys in ks.
Without(s, ks) ==
    LET kept[n \in 0..Len(s)] ==
            IF n = 0 THEN <<>>
            ELSE IF s[n].key \in ks THEN kept[n - 1] ELSE Append(kept[n - 1], s[n])
    IN  kept[Len(s)]

\* The entries of the keys in ks, and their iterators, are erased.
Erase(ks) ==
    /\ entries' = Without(entries, ks)
    /\ index' = index \ ks
    /\ wanted' = wanted \ ks
    /\ UNCHANGED <<now, uses, used>>

\* get finds an expired entry and removes it.
GetExpired(k) ==
    /\ k \in index /\ now >= entries[EntryAt(k)].expiresAt
    /\ Erase({k})

Invalidate(k) == k \in index /\ Erase({k})

InvalidateByPrefix(ks) == Erase(ks)

Clear == Erase(Keys)

EvictExpired ==
    Erase({e.key : e \in {x \in ToSet(entries) : now >= x.expiresAt}})

Tick == now < MaxTime /\ now' = now + 1 /\ UNCHANGED <<entries, index, uses, used, wanted>>

Next ==
    \/ \E k \in Keys :
          \/ \E v \in Values, ttl \in Ttls : PutExisting(k, v, ttl) \/ PutNew(k, v, ttl)
          \/ Hit(k) \/ GetExpired(k) \/ Invalidate(k)
    \/ \E ks \in PrefixSets : InvalidateByPrefix(ks)
    \/ Clear
    \/ EvictExpired
    \/ Tick

Spec == Init /\ [][Next]_vars

-----------------------------------------------------------------------------

\* The list and the index agree: every iterator is on exactly one entry, every
\* entry has an iterator, and there are at most MaxSize of them, whatever
\* sequence of puts, hits, evictions and removals came before.
Coherent ==
    /\ entries \in Seq(CacheEntry)
    /\ index = {e.key : e \in ToSet(entries)}
    /\ Len(entries) = Cardinality(index)
    /\ Len(entries) <= MaxSize

Content == [k \in Keys |->
    IF k \in {e.key : e \in ToSet(entries)}
    THEN [value |-> entries[EntryAt(k)].value, expiresAt |-> entries[EntryAt(k)].expiresAt]
    ELSE [expiresAt |-> 0]]

Recency == INSTANCE RecencyCache WITH content <- Content

\* LruCache keeps what is in use: it gives up a key that is still wanted only
\* when at least MaxSize other keys were put or hit since that key was, and
\* never holds more than MaxSize entries.
WorkingSetKept == Recency!WorkingSetKept

\* The list at work is the map of RecencyCache: what the back of the list
\* gives up is the entry whose latest put or hit is the longest ago.
IsRecencyCache == Recency!Spec
=============================================================================
