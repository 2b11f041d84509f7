-------------------------- MODULE RecencyCacheProofs --------------------------
(***************************************************************************)
(* Proof, for every set of keys and every capacity, that an LRU cache      *)
(* keeps what is in use.                                                   *)
(***************************************************************************)
EXTENDS RecencyCache, FiniteSetTheorems, TLAPS

\* Every use has a number of its own, and what is cached or wanted was used.
Numbered ==
    /\ \A k \in Keys : used[k] <= uses
    /\ \A k \in Cached \cup wanted : used[k] > 0
    /\ \A j, k \in Keys : j # k /\ used[j] = used[k] => used[j] = 0

CacheInv == TypeOK /\ Numbered /\ WorkingSetKept

\* All sets of keys are finite.
LEMMA KeysFinite ==
    ASSUME NEW S, S \subseteq Keys
    PROVE  IsFiniteSet(S) /\ Cardinality(S) \in Nat
BY CacheAssumption, FS_Subset, FS_CardinalityType

LEMMA SubsetSize ==
    ASSUME NEW S, NEW T, S \subseteq T, T \subseteq Keys
    PROVE  Cardinality(S) <= Cardinality(T)
BY KeysFinite, FS_Subset

LEMMA InitCacheInv == Init => CacheInv
<1>. SUFFICES ASSUME Init PROVE CacheInv
     OBVIOUS
<1>1. Cached = {}  BY DEF Init, Cached
<1>2. TypeOK  BY DEF Init, TypeOK
<1>3. Numbered  BY <1>1 DEF Init, Numbered
<1>4. WorkingSetKept  BY <1>1, FS_EmptySet, CacheAssumption DEF Init, WorkingSetKept
<1>. QED  BY <1>2, <1>3, <1>4 DEF CacheInv

\* A use numbers its key above all others.
LEMMA UseEffect ==
    ASSUME CacheInv, NEW k \in Keys, Use(k)
    PROVE  /\ uses' = uses + 1 /\ uses' \in Nat
           /\ used' \in [Keys -> Nat]
           /\ used'[k] = uses + 1
           /\ \A x \in Keys : x # k => used'[x] = used[x]
           /\ \A x \in Keys : used'[x] <= uses' /\ used[x] <= used'[x]
           /\ \A x, y \in Keys : x # y /\ used'[x] = used'[y] => used'[x] = 0
           /\ \A x \in Keys : x # k => UsedSince(x) \subseteq UsedSince(x)'
<1>1. /\ uses \in Nat /\ used \in [Keys -> Nat] /\ uses' = uses + 1
      /\ used' = [used EXCEPT ![k] = uses + 1]
      BY DEF CacheInv, TypeOK, Use
<1>2. /\ \A x \in Keys : used[x] <= uses
      /\ \A x, y \in Keys : x # y /\ used[x] = used[y] => used[x] = 0
      BY DEF CacheInv, Numbered
<1>3. \A x \in Keys : used[x] \in Nat /\ used[x] <= used'[x]  BY <1>1, <1>2
<1>4. ASSUME NEW x \in Keys, x # k  PROVE UsedSince(x) \subseteq UsedSince(x)'
  <2>1. used'[x] = used[x]  BY <1>1, <1>4
  <2>2. \A y \in Keys : used[y] > used[x] => used'[y] > used'[x]
        BY <1>1, <1>3, <2>1
  <2>. QED  BY <2>2 DEF UsedSince
<1>5. ASSUME NEW x \in Keys, NEW y \in Keys, x # y, used'[x] = used'[y]
      PROVE  used'[x] = 0
  <2>1. x # k /\ y # k  BY <1>1, <1>2, <1>3, <1>5
  <2>. QED  BY <1>1, <1>2, <1>5, <2>1
<1>. QED  BY <1>1, <1>2, <1>3, <1>4, <1>5

\* A key that was given up stays as long ago as it was.
LEMMA StillLongAgo ==
    ASSUME CacheInv, NEW k \in Keys, Use(k), NEW x \in wanted \ Cached, x # k
    PROVE  Cardinality(UsedSince(x)') >= MaxSize
<1>. DEFINE old == UsedSince(x)
            new == UsedSince(x)'
<1>1. x \in Keys  BY DEF CacheInv, TypeOK
<1>2. old \subseteq new  BY <1>1, UseEffect
<1>3. old \subseteq Keys /\ new \subseteq Keys  BY DEF UsedSince
<1>4. Cardinality(old) >= MaxSize  BY DEF CacheInv, WorkingSetKept
<1>. HIDE DEF old, new
<1>5. Cardinality(old) \in Nat /\ Cardinality(new) \in Nat
         /\ Cardinality(old) <= Cardinality(new)
      BY <1>2, <1>3, KeysFinite, SubsetSize
<1>6. MaxSize \in Nat  BY CacheAssumption
<1>7. Cardinality(new) >= MaxSize  BY <1>4, <1>5, <1>6
<1>. QED  BY <1>7 DEF new

LEMMA PutStep ==
    ASSUME CacheInv, NEW k \in Keys, NEW v \in Values, NEW ttl \in Ttls, Put(k, v, ttl)
    PROVE  CacheInv'
<1>. DEFINE item == [value |-> v, expiresAt |-> now + ttl]
<1>1. /\ content \in [Keys -> Item \cup {Gone}] /\ now \in Nat /\ now' = now
      /\ wanted \subseteq Keys /\ wanted' = wanted \cup {k} /\ Use(k)
      /\ used \in [Keys -> Nat]
      BY DEF CacheInv, TypeOK, Put
<1>2. item \in Item /\ item # Gone
  <2>1. now + ttl \in Nat  BY <1>1, CacheAssumption
  <2>2. "value" \in DOMAIN item /\ "value" \notin DOMAIN Gone  BY DEF Gone
  <2>. QED  BY <2>1, <2>2 DEF Item
<1>3. Cached \subseteq Keys /\ IsFiniteSet(Cached) /\ Cardinality(Cached) \in Nat
         /\ Cardinality(Cached) <= MaxSize
  <2>1. Cached \subseteq Keys  BY DEF Cached
  <2>. QED  BY <2>1, KeysFinite DEF CacheInv, WorkingSetKept
<1>4. MaxSize \in Nat  BY CacheAssumption
<1>. HIDE DEF item
<1>5. ASSUME content' \in [Keys -> Item \cup {Gone}],
             Cached' \subseteq Cached \cup {k}, WorkingSetKept'
      PROVE  CacheInv'
  <2>1. TypeOK'  BY <1>1, <1>5, UseEffect DEF TypeOK
  <2>2. Numbered'
    <3>1. \A x \in Cached' \cup wanted' : used'[x] > 0
      <4>. SUFFICES ASSUME NEW x \in Cached' \cup wanted' PROVE used'[x] > 0
           OBVIOUS
      <4>1. x = k \/ (x \in Keys /\ used[x] > 0)
            BY <1>1, <1>3, <1>5 DEF CacheInv, Numbered
      <4>2. used'[k] > 0
        <5>1. uses \in Nat  BY DEF CacheInv, TypeOK
        <5>. QED  BY <1>1, <5>1, UseEffect
      <4>3. x # k => used'[x] = used[x]  BY <1>1, <4>1, UseEffect
      <4>. QED  BY <4>1, <4>2, <4>3
    <3>. QED  BY <1>1, <3>1, UseEffect DEF Numbered
  <2>. QED  BY <1>5, <2>1, <2>2 DEF CacheInv
<1>6. CASE k \in Cached \/ Cardinality(Cached) < MaxSize
  <2>1. content' = [content EXCEPT ![k] = item]  BY <1>6 DEF Put, item
  <2>2. content' \in [Keys -> Item \cup {Gone}]  BY <1>1, <1>2, <2>1
  <2>3. Cached' = Cached \cup {k}  BY <1>1, <1>2, <2>1 DEF Cached
  <2>4. Cardinality(Cached \cup {k}) <= MaxSize
    <3>1. Cardinality(Cached \cup {k})
             = IF k \in Cached THEN Cardinality(Cached) ELSE Cardinality(Cached) + 1
          BY <1>3, FS_AddElement
    <3>. QED  BY <1>3, <1>4, <1>6, <3>1
  <2>5. ASSUME NEW x \in wanted' \ Cached'  PROVE Cardinality(UsedSince(x)') >= MaxSize
    <3>1. x \in wanted \ Cached /\ x # k  BY <1>1, <2>3
    <3>. QED  BY <1>1, <3>1, StillLongAgo
  <2>6. WorkingSetKept'  BY <2>3, <2>4, <2>5 DEF WorkingSetKept
  <2>. QED  BY <1>5, <2>2, <2>3, <2>6
<1>7. CASE ~(k \in Cached \/ Cardinality(Cached) < MaxSize)
  <2>1. PICK x \in Cached :
           /\ \A y \in Cached : used[x] <= used[y]
           /\ content' = [content EXCEPT ![x] = Gone, ![k] = item]
        BY <1>7 DEF Put, item
  <2>2. x \in Keys /\ x # k /\ k \notin Cached  BY <1>3, <1>7
  <2>3. content' \in [Keys -> Item \cup {Gone}]  BY <1>1, <1>2, <2>1
  <2>4. \A y \in Keys : content'[y] = IF y = k THEN item
                                      ELSE IF y = x THEN Gone ELSE content[y]
        BY <1>1, <2>1, <2>2
  <2>. DEFINE rest == Cached \ {x}
              kept == rest \cup {k}
  <2>5. Cached' = kept  BY <1>2, <1>3, <2>2, <2>4 DEF Cached
  <2>6. Cardinality(Cached) = MaxSize  BY <1>3, <1>4, <1>7
  <2>7. IsFiniteSet(rest) /\ Cardinality(rest) = MaxSize - 1
        BY <1>3, <2>1, <2>6, FS_RemoveElement
  <2>8. k \notin rest  BY <2>2
  <2>9. Cardinality(kept) = MaxSize
    <3>. HIDE DEF rest
    <3>1. Cardinality(kept) = Cardinality(rest) + 1  BY <2>7, <2>8, FS_AddElement
    <3>. QED  BY <1>4, <2>7, <3>1
  <2>10. kept \subseteq UsedSince(x)'
    <3>. SUFFICES ASSUME NEW y \in kept PROVE y \in Keys /\ used'[y] > used'[x]
         BY DEF UsedSince
    <3>1. used'[x] = used[x] /\ used[x] \in Nat /\ used[x] <= uses /\ uses \in Nat
          BY <1>1, <2>2, UseEffect DEF CacheInv, Numbered, TypeOK
    <3>2. CASE y = k
      <4>1. used'[k] = uses + 1  BY <1>1, UseEffect
      <4>. QED  BY <3>1, <3>2, <4>1
    <3>3. CASE y # k
      <4>1. y \in Cached /\ y # x /\ y \in Keys  BY <1>3, <3>3
      <4>2. used[y] > 0 /\ used[y] \in Nat /\ (used[y] = used[x] => used[y] = 0)
            BY <1>1, <2>2, <4>1 DEF CacheInv, Numbered
      <4>3. used[x] <= used[y]  BY <2>1, <4>1
      <4>4. used'[y] = used[y]  BY <1>1, <3>3, <4>1, UseEffect
      <4>. QED  BY <3>1, <4>1, <4>2, <4>3, <4>4
    <3>. QED  BY <3>2, <3>3
  <2>. HIDE DEF kept, rest
  <2>11. Cardinality(UsedSince(x)') >= MaxSize
    <3>1. UsedSince(x)' \subseteq Keys  BY DEF UsedSince
    <3>2. Cardinality(kept) <= Cardinality(UsedSince(x)')  BY <2>10, <3>1, SubsetSize
    <3>3. Cardinality(UsedSince(x)') \in Nat  BY <3>1, KeysFinite
    <3>. QED  BY <1>4, <2>9, <3>2, <3>3
  <2>12. ASSUME NEW y \in wanted' \ Cached'  PROVE Cardinality(UsedSince(y)') >= MaxSize
    <3>1. CASE y = x  BY <2>11, <3>1
    <3>2. CASE y # x
      <4>1. y \in wanted \ Cached /\ y # k  BY <1>1, <2>5, <3>2, <2>8 DEF kept, rest
      <4>. QED  BY <1>1, <4>1, StillLongAgo
    <3>. QED  BY <3>1, <3>2
  <2>13. WorkingSetKept'
    <3>1. Cardinality(Cached') <= MaxSize  BY <1>4, <2>5, <2>9
    <3>. QED  BY <2>12, <3>1 DEF WorkingSetKept
  <2>14. Cached' \subseteq Cached \cup {k}  BY <2>5 DEF kept, rest
  <2>. QED  BY <1>5, <2>3, <2>13, <2>14
<1>. QED  BY <1>6, <1>7

LEMMA HitStep ==
    ASSUME CacheInv, NEW k \in Keys, Hit(k)
    PROVE  CacheInv'
<1>1. /\ k \in Cached /\ Use(k) /\ UNCHANGED <<now, content, wanted>>
      BY DEF Hit
<1>2. Cached' = Cached /\ Cached \subseteq Keys /\ wanted \subseteq Keys
      BY <1>1 DEF Cached, CacheInv, TypeOK
<1>3. TypeOK'  BY <1>1, UseEffect DEF CacheInv, TypeOK
<1>4. Numbered'
  <2>1. \A x \in Cached \cup wanted : used'[x] > 0
    <3>. SUFFICES ASSUME NEW x \in Cached \cup wanted PROVE used'[x] > 0
         OBVIOUS
    <3>1. x \in Keys /\ used[x] > 0  BY <1>2 DEF CacheInv, Numbered
    <3>2. used[x] <= used'[x] /\ used[x] \in Nat /\ used'[x] \in Nat
          BY <1>1, <3>1, UseEffect DEF CacheInv, TypeOK
    <3>. QED  BY <3>1, <3>2
  <2>. QED  BY <1>1, <1>2, <2>1, UseEffect DEF Numbered
<1>5. WorkingSetKept'
  <2>1. ASSUME NEW x \in wanted \ Cached  PROVE Cardinality(UsedSince(x)') >= MaxSize
        BY <1>1, <2>1, StillLongAgo
  <2>. QED  BY <1>1, <1>2, <2>1 DEF CacheInv, WorkingSetKept
<1>. QED  BY <1>3, <1>4, <1>5 DEF CacheInv

LEMMA DropStep ==
    ASSUME CacheInv, NEW ks, Drop(ks)
    PROVE  CacheInv'
<1>1. /\ content' = [k \in Keys |-> IF k \in ks THEN Gone ELSE content[k]]
      /\ wanted' = wanted \ ks /\ UNCHANGED <<now, uses, used>>
      BY DEF Drop
<1>2. Cached' = Cached \ ks  BY <1>1 DEF Cached
<1>3. TypeOK'  BY <1>1 DEF CacheInv, TypeOK
<1>4. Numbered'  BY <1>1, <1>2 DEF CacheInv, Numbered
<1>5. WorkingSetKept'
  <2>1. Cached \subseteq Keys /\ Cached \ ks \subseteq Cached  BY DEF Cached
  <2>2. Cardinality(Cached \ ks) <= Cardinality(Cached)  BY <2>1, SubsetSize
  <2>3. Cardinality(Cached \ ks) \in Nat /\ Cardinality(Cached) \in Nat
        BY <2>1, KeysFinite
  <2>4. Cardinality(Cached) <= MaxSize /\ MaxSize \in Nat
        BY CacheAssumption DEF CacheInv, WorkingSetKept
  <2>5. \A x : UsedSince(x)' = UsedSince(x)  BY <1>1 DEF UsedSince
  <2>6. \A x \in wanted' \ Cached' : x \in wanted \ Cached  BY <1>1, <1>2
  <2>7. Cardinality(Cached') <= MaxSize  BY <1>2, <2>2, <2>3, <2>4
  <2>. QED  BY <2>5, <2>6, <2>7 DEF CacheInv, WorkingSetKept
<1>. QED  BY <1>3, <1>4, <1>5 DEF CacheInv

LEMMA CacheInvStep == CacheInv /\ [Next]_vars => CacheInv'
<1>. SUFFICES ASSUME CacheInv, [Next]_vars PROVE CacheInv'
     OBVIOUS
<1>1. ASSUME NEW k \in Keys, NEW v \in Values, NEW ttl \in Ttls, Put(k, v, ttl)
      PROVE  CacheInv'
      BY <1>1, PutStep
<1>2. ASSUME NEW k \in Keys, Hit(k)  PROVE CacheInv'
      BY <1>2, HitStep
<1>3. CASE DropSome
  <2>1. ASSUME NEW ks, Drop(ks)  PROVE CacheInv'  BY <2>1, DropStep
  <2>. QED  BY <1>3, <2>1 DEF DropSome
<1>4. CASE Tick
  <2>1. UNCHANGED <<content, uses, used, wanted>> /\ now' = now + 1  BY <1>4 DEF Tick
  <2>. QED  BY <2>1 DEF CacheInv, TypeOK, Numbered, WorkingSetKept, Cached, UsedSince
<1>5. CASE UNCHANGED vars
      BY <1>5 DEF vars, CacheInv, TypeOK, Numbered, WorkingSetKept, Cached, UsedSince
<1>. QED  BY <1>1, <1>2, <1>3, <1>4, <1>5 DEF Next

\* Whatever the keys, the capacity and the times-to-live, a key that was put
\* and is still wanted is given up only when at least MaxSize other keys were
\* used since, and the capacity is never exceeded.
THEOREM WorkingSetIsKept == Spec => []WorkingSetKept
<1>1. CacheInv => WorkingSetKept  BY DEF CacheInv
<1>. QED  BY <1>1, InitCacheInv, CacheInvStep, PTL DEF Spec
=============================================================================
