---------------------------- MODULE LruCacheProofs ----------------------------
(***************************************************************************)
(* Proofs about LruCache for all keys, capacities and times-to-live: the   *)
(* list and its index stay coherent, and they implement RecencyCache.      *)
(***************************************************************************)
EXTENDS LruCache, SequenceTheorems, FiniteSetTheorems, WellFoundedInduction, TLAPS

\* The keys of the entries of a list.
KeysIn(s) == {e.key : e \in ToSet(s)}

\* A list is in the order of use, the latest first, by the numbers of uses u.
Ranked(s, u) == \A i, j \in 1..Len(s) : i < j => u[s[i].key] > u[s[j].key]

\* Such numbers.
Numbers == [Keys -> Nat]

\* The inductive invariant.  The order of the list says that its keys differ.
LruInv ==
    /\ now \in Nat /\ uses \in Nat /\ used \in Numbers
    /\ \A k \in Keys : used[k] <= uses
    /\ entries \in Seq(CacheEntry) /\ Len(entries) <= MaxSize
    /\ index = KeysIn(entries)
    /\ Ranked(entries, used)

-----------------------------------------------------------------------------
(* Lists of entries *)

\* An entry of a list has a place in it, and a key.
LEMMA Places ==
    ASSUME NEW s \in Seq(CacheEntry)
    PROVE  /\ ToSet(s) = {s[i] : i \in 1..Len(s)}
           /\ \A i \in 1..Len(s) : s[i] \in CacheEntry /\ s[i].key \in Keys
           /\ KeysIn(s) = {s[i].key : i \in 1..Len(s)}
           /\ KeysIn(s) \subseteq Keys
<1>1. ToSet(s) = {s[i] : i \in 1..Len(s)}
    BY LenProperties DEF ToSet
<1>2. ASSUME NEW i \in 1..Len(s)
      PROVE  s[i] \in CacheEntry /\ s[i].key \in Keys
    <2>1. s[i] \in CacheEntry
        OBVIOUS
    <2> QED BY <2>1 DEF CacheEntry
<1>3. KeysIn(s) = {s[i].key : i \in 1..Len(s)}
    BY <1>1 DEF KeysIn
<1> QED BY <1>1, <1>2, <1>3

\* A ranked list has no key twice.
LEMMA RankedDistinct ==
    ASSUME NEW s \in Seq(CacheEntry), NEW u \in Numbers, Ranked(s, u),
           NEW i \in 1..Len(s), NEW j \in 1..Len(s), s[i].key = s[j].key
    PROVE  i = j
<1>1. u[s[i].key] \in Nat /\ u[s[j].key] \in Nat
    BY Places DEF Numbers
<1>2. ~(i < j) /\ ~(j < i)
    BY <1>1 DEF Ranked
<1> QED BY <1>2

\* The place that the index leads to.
LEMMA PlaceOf ==
    ASSUME NEW s \in Seq(CacheEntry), NEW u \in Numbers, Ranked(s, u), NEW k \in KeysIn(s)
    PROVE  LET i == CHOOSE i \in 1..Len(s) : s[i].key = k
           IN  /\ i \in 1..Len(s) /\ s[i].key = k
               /\ \A j \in 1..Len(s) : s[j].key = k => j = i
<1>1. \E i \in 1..Len(s) : s[i].key = k
    BY Places
<1> QED BY <1>1, RankedDistinct

\* A list has as many entries as keys.
LEMMA RankedSize ==
    ASSUME NEW s \in Seq(CacheEntry), NEW u \in Numbers, Ranked(s, u)
    PROVE  Cardinality(KeysIn(s)) = Len(s)
<1> DEFINE f == [i \in 1..Len(s) |-> s[i].key]
<1>1. f \in [1..Len(s) -> KeysIn(s)]
    BY Places
<1>2. \A k \in KeysIn(s) : \E i \in 1..Len(s) : f[i] = k
    BY Places
<1>3. \A i, j \in 1..Len(s) : f[i] = f[j] => i = j
    BY RankedDistinct
<1>4. f \in Bijection(1..Len(s), KeysIn(s))
    BY <1>1, <1>2, <1>3 DEF Bijection, Injection, Surjection, IsInjective
<1>5. ExistsBijection(1..Len(s), KeysIn(s))
    BY <1>4 DEF ExistsBijection
<1> QED BY <1>5, FS_CountingElements

\* An entry is pushed in front of a list with other keys.
LEMMA Pushed ==
    ASSUME NEW s \in Seq(CacheEntry), NEW u \in Numbers, Ranked(s, u),
           NEW e \in CacheEntry, e.key \notin KeysIn(s), NEW w \in Numbers,
           \A k \in Keys : k # e.key => w[k] = u[k] /\ w[k] < w[e.key]
    PROVE  LET t == <<e>> \o s
           IN  /\ t \in Seq(CacheEntry) /\ Len(t) = Len(s) + 1
               /\ Ranked(t, w)
               /\ ToSet(t) = ToSet(s) \cup {e} /\ KeysIn(t) = KeysIn(s) \cup {e.key}
<1> DEFINE t == <<e>> \o s
<1>1. <<e>> \in Seq(CacheEntry) /\ Len(<<e>>) = 1 /\ <<e>>[1] = e
    OBVIOUS
<1>2. /\ t \in Seq(CacheEntry) /\ Len(t) = Len(s) + 1
      /\ \A i \in 1..(1 + Len(s)) : t[i] = IF i <= 1 THEN <<e>>[i] ELSE s[i - 1]
    BY <1>1, ConcatProperties
<1>3. t[1] = e /\ \A i \in 1..Len(s) : t[i + 1] = s[i]
    <2>1. Len(s) \in Nat
        OBVIOUS
    <2> HIDE DEF t
    <2> QED BY <1>1, <1>2, <2>1
<1> HIDE DEF t
<1>4. \A i \in 1..Len(t) : i # 1 => i - 1 \in 1..Len(s) /\ t[i] = s[i - 1]
    BY <1>2, <1>3
<1>5. ToSet(t) = ToSet(s) \cup {e}
    <2>1. /\ \A x : x \in ToSet(t) <=> \E i \in 1..Len(t) : x = t[i]
          /\ \A x : x \in ToSet(s) <=> \E i \in 1..Len(s) : x = s[i]
        BY <1>2, Places
    <2>2. 1 \in 1..Len(t) /\ \A i \in 1..Len(s) : i + 1 \in 1..Len(t)
        BY <1>2
    <2>3. ASSUME NEW x \in ToSet(t)
          PROVE  x \in ToSet(s) \cup {e}
        <3>1. PICK i \in 1..Len(t) : x = t[i]
            BY <2>1
        <3>2. CASE i = 1
            BY <1>3, <3>1, <3>2
        <3>3. CASE i # 1
            <4>1. i - 1 \in 1..Len(s) /\ x = s[i - 1]
                BY <1>4, <3>1, <3>3
            <4> QED BY <2>1, <4>1
        <3> QED BY <3>2, <3>3
    <2>4. \A x \in ToSet(s) \cup {e} : x \in ToSet(t)
        BY <1>3, <2>1, <2>2
    <2> QED BY <2>3, <2>4
<1>6. KeysIn(t) = KeysIn(s) \cup {e.key}
    BY <1>5 DEF KeysIn
<1>7. Ranked(t, w)
    <2>1. SUFFICES ASSUME NEW i \in 1..Len(t), NEW j \in 1..Len(t), i < j
                   PROVE  w[t[i].key] > w[t[j].key]
        BY DEF Ranked
    <2>2. j - 1 \in 1..Len(s) /\ t[j] = s[j - 1]
        BY <1>4, <2>1
    <2>3. t[j].key \in Keys /\ t[j].key # e.key
        BY <2>2, Places
    <2>4. CASE i = 1
        BY <1>3, <2>3, <2>4 DEF Numbers
    <2>5. CASE i # 1
        <3>1. i - 1 \in 1..Len(s) /\ t[i] = s[i - 1] /\ i - 1 < j - 1
            BY <1>4, <2>1, <2>5
        <3>2. t[i].key \in Keys /\ t[i].key # e.key
            BY <3>1, Places
        <3>3. u[t[i].key] > u[t[j].key]
            BY <2>2, <3>1 DEF Ranked
        <3> QED BY <2>3, <3>2, <3>3
    <2> QED BY <2>4, <2>5
<1> QED BY <1>2, <1>5, <1>6, <1>7 DEF t

\* The entry at one place is taken out of a list.
LEMMA TakenOut ==
    ASSUME NEW s \in Seq(CacheEntry), NEW u \in Numbers, Ranked(s, u), NEW i \in 1..Len(s)
    PROVE  LET t == RemoveAt(s, i)
           IN  /\ t \in Seq(CacheEntry) /\ Len(t) = Len(s) - 1
               /\ Ranked(t, u)
               /\ ToSet(t) = ToSet(s) \ {s[i]} /\ KeysIn(t) = KeysIn(s) \ {s[i].key}
<1> DEFINE a == SubSeq(s, 1, i - 1)
           b == SubSeq(s, i + 1, Len(s))
           t == RemoveAt(s, i)
<1>1. /\ a \in Seq(CacheEntry) /\ Len(a) = i - 1
      /\ \A j \in 1..(i - 1) : a[j] = s[j]
    <2>1. \A j \in 1..(i - 1) : s[j] \in CacheEntry
        OBVIOUS
    <2>2. /\ a \in Seq(CacheEntry) /\ Len(a) = IF 1 <= i - 1 THEN i - 1 - 1 + 1 ELSE 0
          /\ \A j \in 1..(i - 1 - 1 + 1) : a[j] = s[1 + j - 1]
        BY <2>1, SubSeqProperties
    <2> HIDE DEF a
    <2> QED BY <2>2
<1>2. /\ b \in Seq(CacheEntry) /\ Len(b) = Len(s) - i
      /\ \A j \in 1..(Len(s) - i) : b[j] = s[i + j]
    <2>1. /\ \A j \in (i + 1)..Len(s) : s[j] \in CacheEntry
          /\ i + 1 \in Int /\ Len(s) \in Int
        OBVIOUS
    <2>2. /\ b \in Seq(CacheEntry)
          /\ Len(b) = IF i + 1 <= Len(s) THEN Len(s) - (i + 1) + 1 ELSE 0
          /\ \A j \in 1..(Len(s) - (i + 1) + 1) : b[j] = s[i + 1 + j - 1]
        BY <2>1, SubSeqProperties
    <2> HIDE DEF b
    <2> QED BY <2>1, <2>2
<1>3. t = a \o b
    BY DEF RemoveAt
<1> HIDE DEF a, b, t
<1>4. t \in Seq(CacheEntry) /\ Len(t) = Len(s) - 1
    BY <1>1, <1>2, <1>3, ConcatProperties
<1> DEFINE place(j) == IF j < i THEN j ELSE j + 1
<1>5. ASSUME NEW j \in 1..Len(t)
      PROVE  t[j] = s[place(j)] /\ place(j) \in 1..Len(s) \ {i}
    <2>1. t[j] = IF j <= Len(a) THEN a[j] ELSE b[j - Len(a)]
        BY <1>1, <1>2, <1>3, <1>4, ConcatProperties
    <2>2. Len(s) \in Nat
        OBVIOUS
    <2>3. CASE j < i
        BY <1>1, <1>4, <2>1, <2>2, <2>3
    <2>4. CASE j >= i
        <3>1. ~(j <= Len(a)) /\ j - Len(a) = j - i + 1 /\ j - i + 1 \in 1..(Len(s) - i)
            BY <1>1, <1>4, <2>2, <2>4
        <3>2. b[j - i + 1] = s[i + (j - i + 1)] /\ i + (j - i + 1) = j + 1
            BY <1>2, <2>2, <3>1
        <3> QED BY <1>4, <2>1, <2>2, <2>4, <3>1, <3>2
    <2> QED BY <2>3, <2>4
<1>6. \A j \in 1..Len(s) \ {i} : \E n \in 1..Len(t) : place(n) = j
    <2>1. SUFFICES ASSUME NEW j \in 1..Len(s) \ {i}
                   PROVE  \E n \in 1..Len(t) : place(n) = j
        OBVIOUS
    <2>2. CASE j < i
        <3>1. j \in 1..Len(t) /\ place(j) = j
            BY <1>4, <2>2
        <3> QED BY <3>1
    <2>3. CASE j > i
        <3>1. j - 1 \in 1..Len(t) /\ place(j - 1) = j
            BY <1>4, <2>3
        <3> QED BY <3>1
    <2> QED BY <2>2, <2>3
<1>7. \A j, n \in 1..Len(t) : j < n => place(j) < place(n)
    BY <1>4
<1> HIDE DEF place
<1>8. ToSet(t) = {s[j] : j \in 1..Len(s) \ {i}}
    <2>1. \A x : x \in ToSet(t) <=> \E n \in 1..Len(t) : x = t[n]
        BY <1>4, Places
    <2>2. \A x \in ToSet(t) : \E j \in 1..Len(s) \ {i} : x = s[j]
        BY <1>5, <2>1
    <2>3. \A j \in 1..Len(s) \ {i} : s[j] \in ToSet(t)
        BY <1>5, <1>6, <2>1
    <2> QED BY <2>2, <2>3
<1>9. ToSet(t) = ToSet(s) \ {s[i]}
    BY <1>8, Places, RankedDistinct
<1>10. KeysIn(t) = KeysIn(s) \ {s[i].key}
    <2>1. KeysIn(t) = {s[j].key : j \in 1..Len(s) \ {i}}
        BY <1>8 DEF KeysIn
    <2> QED BY <2>1, Places, RankedDistinct
<1>11. Ranked(t, u)
    BY <1>5, <1>7 DEF Ranked
<1> QED BY <1>4, <1>9, <1>10, <1>11 DEF t

\* What PutNew makes of a full list is without its last entry.
LEMMA FrontTakesOut ==
    ASSUME NEW s \in Seq(CacheEntry), Len(s) > 0
    PROVE  Front(s) = RemoveAt(s, Len(s)) /\ Last(s) = s[Len(s)]
<1>1. SubSeq(s, Len(s) + 1, Len(s)) = <<>>
    BY SubSeqEmpty
<1>2. SubSeq(s, 1, Len(s) - 1) \in Seq(CacheEntry)
    <2>1. \A i \in 1..(Len(s) - 1) : s[i] \in CacheEntry
        OBVIOUS
    <2>2. 1 \in Int /\ Len(s) - 1 \in Int
        OBVIOUS
    <2> QED BY <2>1, <2>2, SubSeqProperties
<1> QED BY <1>1, <1>2, ConcatEmptySeq DEF Front, RemoveAt, Last

-----------------------------------------------------------------------------
(* The loops that erase *)

\* A nonempty set of naturals has a smallest element.
LEMMA SmallestNumber ==
    ASSUME NEW S \in SUBSET Nat, S # {}
    PROVE  \E n \in S : \A m \in S : n <= m
<1>1. PICK n \in S : \A m \in S : ~(<<m, n>> \in OpToRel(<, Nat))
    BY NatLessThanWellFounded, WFMin
<1>2. \A m \in S : <<m, n>> \in OpToRel(<, Nat) <=> m < n
    BY DEF OpToRel
<1>3. \A m \in S : ~(m < n)
    BY <1>1, <1>2, Zenon
<1>4. \A m \in S : n <= m
    BY <1>3
<1> QED BY <1>4

\* The list after one turn of the loop, at entry e, when it was t before.
Turn(t, e, ks) == IF e.key \in ks THEN t ELSE Append(t, e)

\* f gives the list after each of the first n turns of the loop on s.
Loops(f, n, s, ks) ==
    /\ DOMAIN f = 0..n
    /\ f[0] = <<>>
    /\ \A m \in 1..n : f[m] = Turn(f[m - 1], s[m], ks)

\* The loop can be run.
LEMMA LoopRuns ==
    ASSUME NEW s \in Seq(CacheEntry), NEW ks
    PROVE  \A n \in 0..Len(s) : \E f : Loops(f, n, s, ks)
<1> DEFINE bad == {n \in 0..Len(s) : ~\E f : Loops(f, n, s, ks)}
<1>1. SUFFICES ASSUME bad # {}
               PROVE  FALSE
    OBVIOUS
<1>2. PICK n \in bad : \A m \in bad : n <= m
    <2>1. bad \in SUBSET Nat
        OBVIOUS
    <2> HIDE DEF bad
    <2> QED BY <1>1, <2>1, SmallestNumber
<1>3. n # 0
    <2>1. Loops([m \in 0..0 |-> <<>>], 0, s, ks)
        BY DEF Loops
    <2> QED BY <1>2, <2>1
<1>4. n \in Nat /\ n - 1 \in 0..Len(s) /\ n - 1 \notin bad
    BY <1>2, <1>3
<1>5. PICK f : Loops(f, n - 1, s, ks)
    BY <1>4
<1> DEFINE g == [m \in 0..n |-> IF m = n THEN Turn(f[n - 1], s[n], ks) ELSE f[m]]
<1>6. Loops(g, n, s, ks)
    <2>1. DOMAIN g = 0..n /\ g[0] = f[0] /\ f[0] = <<>>
        BY <1>3, <1>4, <1>5 DEF Loops
    <2>2. ASSUME NEW m \in 1..n
          PROVE  g[m] = Turn(g[m - 1], s[m], ks)
        <3>1. g[m - 1] = f[m - 1]
            BY <1>4
        <3>2. CASE m = n
            BY <1>4, <3>1, <3>2
        <3>3. CASE m # n
            <4>1. m \in 1..(n - 1)
                BY <1>4, <3>3
            <4>2. f[m] = Turn(f[m - 1], s[m], ks)
                BY <1>5, <4>1 DEF Loops
            <4> QED BY <1>4, <3>1, <3>3, <4>2
        <3> QED BY <3>2, <3>3
    <2> HIDE DEF g
    <2> QED BY <2>1, <2>2 DEF Loops
<1> QED BY <1>2, <1>6

\* Without is the list after the last turn.
LEMMA WithoutLoops ==
    ASSUME NEW s \in Seq(CacheEntry), NEW ks
    PROVE  \E f : Loops(f, Len(s), s, ks) /\ Without(s, ks) = f[Len(s)]
<1> DEFINE Step(f) == [n \in 0..Len(s) |->
                          IF n = 0 THEN <<>>
                          ELSE IF s[n].key \in ks THEN f[n - 1] ELSE Append(f[n - 1], s[n])]
           kept == CHOOSE f : f = Step(f)
<1>1. Without(s, ks) = kept[Len(s)]
    BY DEF Without
<1>2. PICK f : Loops(f, Len(s), s, ks) /\ f = [n \in DOMAIN f |-> f[n]]
    <2>1. PICK f : Loops(f, Len(s), s, ks)
        <3>1. Len(s) \in 0..Len(s)
            OBVIOUS
        <3> QED BY <3>1, LoopRuns
    <2> DEFINE g == [n \in 0..Len(s) |-> f[n]]
    <2>2. Loops(g, Len(s), s, ks)
        BY <2>1 DEF Loops
    <2> QED BY <2>2
<1>3. f = Step(f)
    <2>1. ASSUME NEW n \in 0..Len(s)
          PROVE  f[n] = Step(f)[n]
        <3>1. CASE n = 0
            BY <1>2, <3>1 DEF Loops
        <3>2. CASE n # 0
            <4>1. n \in 1..Len(s)
                BY <3>2
            <4>2. f[n] = Turn(f[n - 1], s[n], ks)
                BY <1>2, <4>1 DEF Loops
            <4> QED BY <3>2, <4>2, Zenon DEF Turn
        <3> QED BY <3>1, <3>2
    <2>2. DOMAIN f = 0..Len(s) /\ DOMAIN Step(f) = 0..Len(s)
        BY <1>2 DEF Loops
    <2>3. Step(f) = [n \in 0..Len(s) |-> Step(f)[n]]
        OBVIOUS
    <2> HIDE DEF Step
    <2> QED BY <1>2, <2>1, <2>2, <2>3
<1>4. kept = Step(kept)
    BY <1>3
<1>5. Loops(kept, Len(s), s, ks)
    <2> HIDE DEF kept
    <2>1. DOMAIN kept = 0..Len(s) /\ kept[0] = <<>>
        BY <1>4
    <2>2. ASSUME NEW m \in 1..Len(s)
          PROVE  kept[m] = Turn(kept[m - 1], s[m], ks)
        <3>1. m \in 0..Len(s) /\ m # 0
            OBVIOUS
        <3>2. kept[m] = Step(kept)[m]
            BY <1>4
        <3> QED BY <3>1, <3>2, Zenon DEF Turn
    <2> QED BY <2>1, <2>2 DEF Loops
<1> QED BY <1>1, <1>5

\* An entry is appended to a list of entries that were all used later.
LEMMA Appended ==
    ASSUME NEW t \in Seq(CacheEntry), NEW u \in Numbers, Ranked(t, u), NEW e \in CacheEntry,
           \A x \in ToSet(t) : u[x.key] > u[e.key]
    PROVE  /\ Append(t, e) \in Seq(CacheEntry) /\ Len(Append(t, e)) = Len(t) + 1
           /\ Ranked(Append(t, e), u)
           /\ ToSet(Append(t, e)) = ToSet(t) \cup {e}
<1> DEFINE a == Append(t, e)
<1>1. /\ a \in Seq(CacheEntry) /\ Len(a) = Len(t) + 1
      /\ \A i \in 1..Len(t) : a[i] = t[i]
      /\ a[Len(t) + 1] = e /\ Len(t) \in Nat
    BY AppendProperties
<1> HIDE DEF a
<1>2. ASSUME NEW i \in 1..Len(a), i # Len(t) + 1
      PROVE  i \in 1..Len(t) /\ a[i] = t[i] /\ t[i] \in ToSet(t)
    <2>1. i \in 1..Len(t)
        BY <1>1, <1>2
    <2> QED BY <1>1, <2>1, Places
<1>3. Ranked(a, u)
    <2>1. SUFFICES ASSUME NEW i \in 1..Len(a), NEW j \in 1..Len(a), i < j
                   PROVE  u[a[i].key] > u[a[j].key]
        BY DEF Ranked
    <2>2. i \in 1..Len(t) /\ a[i] = t[i] /\ t[i] \in ToSet(t)
        <3>1. i # Len(t) + 1
            BY <1>1, <2>1
        <3> QED BY <1>2, <3>1
    <2>3. CASE j = Len(t) + 1
        BY <1>1, <2>2, <2>3
    <2>4. CASE j # Len(t) + 1
        <3>1. j \in 1..Len(t) /\ a[j] = t[j]
            BY <1>2, <2>4
        <3> QED BY <2>1, <2>2, <3>1 DEF Ranked
    <2> QED BY <2>3, <2>4
<1>4. ToSet(a) = ToSet(t) \cup {e}
    <2>1. /\ \A x : x \in ToSet(a) <=> \E i \in 1..Len(a) : x = a[i]
          /\ \A x : x \in ToSet(t) <=> \E i \in 1..Len(t) : x = t[i]
        BY <1>1, Places
    <2>2. \A x \in ToSet(a) : x \in ToSet(t) \cup {e}
        BY <1>1, <1>2, <2>1
    <2>3. Len(t) + 1 \in 1..Len(a) /\ \A i \in 1..Len(t) : i \in 1..Len(a)
        BY <1>1
    <2>4. \A x \in ToSet(t) \cup {e} : x \in ToSet(a)
        BY <1>1, <2>1, <2>3
    <2> QED BY <2>2, <2>4
<1> QED BY <1>1, <1>3, <1>4 DEF a

\* t is what the first n turns of the loop on s leave.
Left(t, n, s, ks, u) ==
    /\ t \in Seq(CacheEntry) /\ Len(t) <= n
    /\ Ranked(t, u)
    /\ \A x : x \in ToSet(t) <=> \E i \in 1..n : x = s[i] /\ s[i].key \notin ks

\* A turn leaves what it is to leave.
LEMMA TurnLeaves ==
    ASSUME NEW s \in Seq(CacheEntry), NEW u \in Numbers, Ranked(s, u), NEW ks,
           NEW n \in 1..Len(s), NEW t, Left(t, n - 1, s, ks, u)
    PROVE  Left(Turn(t, s[n], ks), n, s, ks, u)
<1>1. /\ t \in Seq(CacheEntry) /\ Len(t) <= n - 1 /\ Ranked(t, u)
      /\ \A x : x \in ToSet(t) <=> \E i \in 1..(n - 1) : x = s[i] /\ s[i].key \notin ks
    BY DEF Left
<1>2. /\ s[n] \in CacheEntry /\ n \in Nat /\ Len(t) \in Nat
      /\ \A i \in 1..n : i \in 1..(n - 1) \/ i = n
      /\ \A i \in 1..(n - 1) : i \in 1..n
    BY <1>1
<1>3. CASE s[n].key \in ks
    <2>1. Turn(t, s[n], ks) = t
        BY <1>3 DEF Turn
    <2>2. Len(t) <= n
        BY <1>1, <1>2
    <2>3. \A x : x \in ToSet(t) <=> \E i \in 1..n : x = s[i] /\ s[i].key \notin ks
        BY <1>1, <1>2, <1>3
    <2> QED BY <1>1, <2>1, <2>2, <2>3 DEF Left
<1>4. CASE s[n].key \notin ks
    <2>1. Turn(t, s[n], ks) = Append(t, s[n])
        BY <1>4 DEF Turn
    <2>2. ASSUME NEW x \in ToSet(t)
          PROVE  u[x.key] > u[s[n].key]
        <3>1. PICK i \in 1..(n - 1) : x = s[i]
            BY <1>1
        <3>2. i \in 1..Len(s) /\ i < n
            OBVIOUS
        <3> QED BY <3>1, <3>2 DEF Ranked
    <2>3. /\ Append(t, s[n]) \in Seq(CacheEntry) /\ Len(Append(t, s[n])) = Len(t) + 1
          /\ Ranked(Append(t, s[n]), u)
          /\ ToSet(Append(t, s[n])) = ToSet(t) \cup {s[n]}
        BY <1>1, <1>2, <2>2, Appended
    <2>4. Len(Append(t, s[n])) <= n
        BY <1>1, <1>2, <2>3
    <2>5. \A x : x \in ToSet(t) \cup {s[n]} <=> \E i \in 1..n : x = s[i] /\ s[i].key \notin ks
        BY <1>1, <1>2, <1>4
    <2> QED BY <2>1, <2>3, <2>4, <2>5 DEF Left
<1> QED BY <1>3, <1>4

\* Erasing keeps the order, and all other entries.
LEMMA Erased ==
    ASSUME NEW s \in Seq(CacheEntry), NEW u \in Numbers, Ranked(s, u), NEW ks
    PROVE  LET t == Without(s, ks)
           IN  /\ t \in Seq(CacheEntry) /\ Len(t) <= Len(s)
               /\ Ranked(t, u)
               /\ ToSet(t) = {x \in ToSet(s) : x.key \notin ks}
               /\ KeysIn(t) = KeysIn(s) \ ks
<1>1. PICK f : Loops(f, Len(s), s, ks) /\ Without(s, ks) = f[Len(s)]
    BY WithoutLoops
<1>2. \A n \in 0..Len(s) : Left(f[n], n, s, ks, u)
    <2> DEFINE bad == {n \in 0..Len(s) : ~Left(f[n], n, s, ks, u)}
    <2>1. SUFFICES ASSUME bad # {}
                   PROVE  FALSE
        OBVIOUS
    <2>2. PICK n \in bad : \A m \in bad : n <= m
        <3>1. bad \in SUBSET Nat
            OBVIOUS
        <3> HIDE DEF bad
        <3> QED BY <2>1, <3>1, SmallestNumber
    <2>3. Left(f[0], 0, s, ks, u)
        <3>1. f[0] = <<>> /\ <<>> \in Seq(CacheEntry) /\ Len(<<>>) = 0
            BY <1>1, EmptySeq DEF Loops
        <3>2. Ranked(<<>>, u)
            BY DEF Ranked
        <3>3. ToSet(<<>>) = {}
            <4>1. ToSet(<<>>) = {<<>>[i] : i \in 1..Len(<<>>)}
                BY <3>1, Places
            <4>2. 1..Len(<<>>) = {}
                BY <3>1
            <4> QED BY <4>1, <4>2
        <3> QED BY <3>1, <3>2, <3>3 DEF Left
    <2>4. n # 0 /\ n \in 1..Len(s) /\ n - 1 \in 0..Len(s) /\ n - 1 \notin bad
        BY <2>2, <2>3
    <2>5. Left(f[n - 1], n - 1, s, ks, u)
        BY <2>4
    <2>6. f[n] = Turn(f[n - 1], s[n], ks)
        BY <1>1, <2>4 DEF Loops
    <2> QED BY <2>2, <2>4, <2>5, <2>6, TurnLeaves
<1>3. Left(Without(s, ks), Len(s), s, ks, u)
    <2>1. Len(s) \in 0..Len(s)
        OBVIOUS
    <2> QED BY <1>1, <1>2, <2>1
<1> DEFINE t == Without(s, ks)
<1> HIDE DEF t
<1>4. t \in Seq(CacheEntry) /\ Len(t) <= Len(s) /\ Ranked(t, u)
    BY <1>3 DEF Left, t
<1>5. \A x : x \in ToSet(t) <=> \E i \in 1..Len(s) : x = s[i] /\ s[i].key \notin ks
    BY <1>3 DEF Left, t
<1>6. \A x : x \in ToSet(s) <=> \E i \in 1..Len(s) : x = s[i]
    BY Places
<1>7. ToSet(t) = {x \in ToSet(s) : x.key \notin ks}
    BY <1>5, <1>6
<1>8. KeysIn(t) = KeysIn(s) \ ks
    BY <1>7 DEF KeysIn
<1> QED BY <1>4, <1>7, <1>8 DEF t

-----------------------------------------------------------------------------
(* What a list stores *)

\* What the entry e says to a reader.
ItemOf(e) == [value |-> e.value, expiresAt |-> e.expiresAt]

\* Content, of any list.
PlaceIn(s, k) == CHOOSE i \in 1..Len(s) : s[i].key = k
Stored(s) == [k \in Keys |-> IF k \in KeysIn(s) THEN ItemOf(s[PlaceIn(s, k)])
                                                ELSE Recency!Gone]

\* Content is what the list stores, before and after a step.
LEMMA ContentIsStored == Content = Stored(entries) /\ Content' = Stored(entries')
BY DEF Content, Stored, EntryAt, KeysIn, PlaceIn, ItemOf, Recency!Gone

\* No entry is Gone.
LEMMA ItemType ==
    ASSUME NEW e \in CacheEntry
    PROVE  ItemOf(e) # Recency!Gone
<1>1. "value" \in DOMAIN ItemOf(e) /\ "value" \notin DOMAIN Recency!Gone
    BY DEF ItemOf, Recency!Gone
<1> QED BY <1>1

\* A ranked list stores its entries under their keys, and nothing else.
LEMMA StoredEntries ==
    ASSUME NEW s \in Seq(CacheEntry), NEW u \in Numbers, Ranked(s, u)
    PROVE  /\ \A e \in ToSet(s) : e.key \in KeysIn(s) /\ Stored(s)[e.key] = ItemOf(e)
           /\ \A k \in Keys \ KeysIn(s) : Stored(s)[k] = Recency!Gone
           /\ {k \in Keys : Stored(s)[k] # Recency!Gone} = KeysIn(s)
<1>1. ASSUME NEW e \in ToSet(s)
      PROVE  e.key \in KeysIn(s) /\ Stored(s)[e.key] = ItemOf(e) /\ e \in CacheEntry
    <2>1. PICK j \in 1..Len(s) : e = s[j]
        BY Places
    <2>2. e.key \in KeysIn(s) /\ e.key \in Keys /\ e \in CacheEntry
        BY <2>1, Places
    <2>3. PlaceIn(s, e.key) = j
        BY <2>1, <2>2, PlaceOf DEF PlaceIn
    <2> QED BY <2>1, <2>2, <2>3 DEF Stored
<1>2. \A k \in Keys \ KeysIn(s) : Stored(s)[k] = Recency!Gone
    BY DEF Stored
<1>3. \A k \in KeysIn(s) : k \in Keys /\ \E e \in ToSet(s) : k = e.key
    BY Places DEF KeysIn
<1> QED BY <1>1, <1>2, <1>3, ItemType

\* The keys of the list are those that RecencyCache has cached.
LEMMA CachedIsIndex ==
    ASSUME LruInv
    PROVE  Recency!Cached = index
<1>1. entries \in Seq(CacheEntry) /\ used \in Numbers /\ Ranked(entries, used)
      /\ index = KeysIn(entries)
    BY DEF LruInv
<1> QED BY <1>1, StoredEntries, ContentIsStored DEF Recency!Cached

-----------------------------------------------------------------------------
(* Steps *)

\* A use numbers its key above all others.
LEMMA UseRanks ==
    ASSUME LruInv, NEW k \in Keys, Use(k)
    PROVE  /\ uses' \in Nat /\ used' \in Numbers
           /\ \A x \in Keys : used'[x] <= uses'
           /\ \A x \in Keys : x # k => used'[x] = used[x] /\ used'[x] < used'[k]
<1>1. /\ uses \in Nat /\ used \in [Keys -> Nat] /\ \A x \in Keys : used[x] <= uses
      /\ uses' = uses + 1 /\ used' = [used EXCEPT ![k] = uses + 1]
    BY DEF LruInv, Numbers, Use
<1>2. used' \in [Keys -> Nat]
    BY <1>1
<1>3. \A x \in Keys : used[x] \in Nat /\ used'[x] = IF x = k THEN uses + 1 ELSE used[x]
    BY <1>1
<1> QED BY <1>1, <1>2, <1>3 DEF Numbers

\* The entry e is put in front of the list r, which is what is kept of entries.
LEMMA PushStep ==
    ASSUME LruInv, NEW r \in Seq(CacheEntry), Ranked(r, used), ToSet(r) \subseteq ToSet(entries),
           Len(r) < MaxSize, NEW e \in CacheEntry, e.key \notin KeysIn(r),
           Use(e.key), now' = now,
           entries' = <<e>> \o r, index' = KeysIn(r) \cup {e.key}
    PROVE  /\ LruInv'
           /\ Content' = [x \in Keys |-> IF x = e.key THEN ItemOf(e)
                                         ELSE IF x \in KeysIn(r) THEN Content[x]
                                         ELSE Recency!Gone]
<1>1. /\ entries \in Seq(CacheEntry) /\ used \in Numbers /\ Ranked(entries, used)
      /\ now \in Nat /\ MaxSize \in Nat
    BY CacheAssumption DEF LruInv
<1>2. e.key \in Keys
    BY DEF CacheEntry
<1>3. /\ uses' \in Nat /\ used' \in Numbers
      /\ \A x \in Keys : used'[x] <= uses'
      /\ \A x \in Keys : x # e.key => used'[x] = used[x] /\ used'[x] < used'[e.key]
    BY <1>2, UseRanks
<1>4. /\ entries' \in Seq(CacheEntry) /\ Len(entries') = Len(r) + 1
      /\ Ranked(entries', used')
      /\ ToSet(entries') = ToSet(r) \cup {e} /\ KeysIn(entries') = KeysIn(r) \cup {e.key}
    <2>. DEFINE t == <<e>> \o r
    <2>1. PICK u, w : u = used /\ w = used'
        OBVIOUS
    <2>2. /\ u \in Numbers /\ w \in Numbers /\ Ranked(r, u)
          /\ \A k \in Keys : k # e.key => w[k] = u[k] /\ w[k] < w[e.key]
        BY <1>1, <1>3, <2>1
    <2>3. /\ t \in Seq(CacheEntry) /\ Len(t) = Len(r) + 1 /\ Ranked(t, w)
          /\ ToSet(t) = ToSet(r) \cup {e} /\ KeysIn(t) = KeysIn(r) \cup {e.key}
        BY <2>2, Pushed
    <2> QED BY <2>1, <2>3
<1>5. LruInv'
    <2>1. Len(entries') <= MaxSize
        BY <1>1, <1>4
    <2> QED BY <1>1, <1>3, <1>4, <2>1 DEF LruInv
<1>6. ASSUME NEW x \in Keys
      PROVE  Content'[x] = IF x = e.key THEN ItemOf(e)
                           ELSE IF x \in KeysIn(r) THEN Content[x] ELSE Recency!Gone
    <2>1. CASE x = e.key
        BY <1>3, <1>4, <2>1, StoredEntries, ContentIsStored
    <2>2. CASE x # e.key /\ x \in KeysIn(r)
        <3>1. PICK d \in ToSet(r) : d.key = x
            BY <2>2 DEF KeysIn
        <3>2. Content'[x] = ItemOf(d)
            BY <1>3, <1>4, <3>1, StoredEntries, ContentIsStored
        <3>3. Content[x] = ItemOf(d)
            BY <1>1, <3>1, StoredEntries, ContentIsStored
        <3> QED BY <2>2, <3>2, <3>3
    <2>3. CASE x # e.key /\ x \notin KeysIn(r)
        BY <1>3, <1>4, <2>3, StoredEntries, ContentIsStored
    <2> QED BY <2>1, <2>2, <2>3
<1>7. Content' = [x \in Keys |-> Content'[x]]
    BY ContentIsStored DEF Stored
<1> QED BY <1>5, <1>6, <1>7

\* What holds of the place of an indexed key, and of the rest of the list.
LEMMA AtPlace ==
    ASSUME LruInv, NEW k \in index
    PROVE  /\ k \in Keys
           /\ EntryAt(k) \in 1..Len(entries) /\ entries[EntryAt(k)].key = k
           /\ entries[EntryAt(k)] \in CacheEntry
           /\ Content[k] = ItemOf(entries[EntryAt(k)])
           /\ LET r == RemoveAt(entries, EntryAt(k))
              IN  /\ r \in Seq(CacheEntry) /\ Len(r) < MaxSize /\ Ranked(r, used)
                  /\ ToSet(r) \subseteq ToSet(entries) /\ KeysIn(r) = index \ {k}
<1>1. /\ entries \in Seq(CacheEntry) /\ used \in Numbers /\ Ranked(entries, used)
      /\ index = KeysIn(entries) /\ Len(entries) <= MaxSize /\ MaxSize \in Nat
    BY CacheAssumption DEF LruInv
<1>2. EntryAt(k) \in 1..Len(entries) /\ entries[EntryAt(k)].key = k
    BY <1>1, PlaceOf DEF EntryAt
<1>3. k \in Keys /\ entries[EntryAt(k)] \in CacheEntry
      /\ entries[EntryAt(k)] \in ToSet(entries)
    BY <1>1, <1>2, Places
<1>4. Content[k] = ItemOf(entries[EntryAt(k)])
    BY <1>1, <1>2, <1>3, StoredEntries, ContentIsStored
<1>5. LET r == RemoveAt(entries, EntryAt(k))
      IN  /\ r \in Seq(CacheEntry) /\ Len(r) = Len(entries) - 1 /\ Ranked(r, used)
          /\ ToSet(r) = ToSet(entries) \ {entries[EntryAt(k)]}
          /\ KeysIn(r) = KeysIn(entries) \ {entries[EntryAt(k)].key}
    BY <1>1, <1>2, TakenOut
<1>6. Len(entries) \in Nat
    BY <1>1
<1> QED BY <1>1, <1>2, <1>3, <1>4, <1>5, <1>6

\* RecencyCache counts with the same Cardinality.
LEMMA SameCardinality == \A S : Recency!Cardinality(S) = Cardinality(S)
BY DEF Recency!Cardinality, Cardinality

\* What Put of RecencyCache is, with or without room.
LEMMA PutMeans ==
    ASSUME NEW k, NEW v, NEW ttl,
           Recency!Use(k), wanted' = wanted \cup {k}, UNCHANGED now,
           \/ /\ k \in Recency!Cached \/ Cardinality(Recency!Cached) < MaxSize
              /\ Content' = [Content EXCEPT ![k] = [value |-> v, expiresAt |-> now + ttl]]
           \/ /\ ~(k \in Recency!Cached \/ Cardinality(Recency!Cached) < MaxSize)
              /\ \E x \in Recency!Cached :
                    /\ \A y \in Recency!Cached : used[x] <= used[y]
                    /\ Content' = [Content EXCEPT ![x] = Recency!Gone,
                                    ![k] = [value |-> v, expiresAt |-> now + ttl]]
    PROVE  Recency!Put(k, v, ttl)
BY SameCardinality, Zenon DEF Recency!Put

\* put of a key that is there.
LEMMA PutExistingStep ==
    ASSUME LruInv, NEW k \in Keys, NEW v \in Values, NEW ttl \in Ttls, PutExisting(k, v, ttl)
    PROVE  LruInv' /\ Recency!Put(k, v, ttl)
<1>1. PICK r, e : r = RemoveAt(entries, EntryAt(k)) /\ e = Fresh(k, v, ttl)
    OBVIOUS
<1>2. /\ k \in index /\ entries' = <<e>> \o r /\ Use(k) /\ index' = index
      /\ wanted' = wanted \cup {k} /\ now' = now
    BY <1>1 DEF PutExisting, ToFront
<1>3. e \in CacheEntry /\ e.key = k /\ ItemOf(e) = [value |-> v, expiresAt |-> now + ttl]
    <2>1. now + ttl \in Nat
        BY CacheAssumption DEF LruInv
    <2> QED BY <1>1, <2>1 DEF Fresh, CacheEntry, ItemOf
<1>4. /\ r \in Seq(CacheEntry) /\ Len(r) < MaxSize /\ Ranked(r, used)
      /\ ToSet(r) \subseteq ToSet(entries) /\ KeysIn(r) = index \ {k}
    BY <1>1, <1>2, AtPlace
<1>5. k \notin KeysIn(r) /\ index' = KeysIn(r) \cup {k}
    BY <1>2, <1>4
<1>6. LruInv' /\ Content' = [x \in Keys |-> IF x = e.key THEN ItemOf(e)
                                            ELSE IF x \in KeysIn(r) THEN Content[x]
                                            ELSE Recency!Gone]
    BY <1>2, <1>3, <1>4, <1>5, PushStep
<1>7. Content' = [Content EXCEPT ![k] = ItemOf(e)]
    <2>1. Content = [x \in Keys |-> Content[x]]
        BY ContentIsStored DEF Stored
    <2>2. \A x \in Keys : x \notin index => Content[x] = Recency!Gone
        BY CachedIsIndex DEF Recency!Cached
    <2> QED BY <1>3, <1>4, <1>6, <2>1, <2>2
<1>8. k \in Recency!Cached
    BY <1>2, CachedIsIndex
<1> QED BY <1>2, <1>3, <1>6, <1>7, <1>8 DEF Recency!Put, Recency!Use, Use

\* put of a new key while there is room.
LEMMA PutInRoomStep ==
    ASSUME LruInv, NEW k \in Keys, NEW v \in Values, NEW ttl \in Ttls, PutNew(k, v, ttl),
           Len(entries) < MaxSize
    PROVE  LruInv' /\ Recency!Put(k, v, ttl)
<1>1. PICK r, e : r = entries /\ e = Fresh(k, v, ttl)
    OBVIOUS
<1>2. Len(entries) \in Nat /\ MaxSize \in Nat
    BY CacheAssumption DEF LruInv
<1>3. /\ k \notin index /\ entries' = <<e>> \o r /\ Use(k) /\ index' = index \cup {k}
      /\ wanted' = wanted \cup {k} /\ now' = now
    BY <1>1, <1>2 DEF PutNew
<1>4. e \in CacheEntry /\ e.key = k /\ ItemOf(e) = [value |-> v, expiresAt |-> now + ttl]
    <2>1. now + ttl \in Nat
        BY CacheAssumption DEF LruInv
    <2> QED BY <1>1, <2>1 DEF Fresh, CacheEntry, ItemOf
<1>5. /\ r \in Seq(CacheEntry) /\ Len(r) < MaxSize /\ Ranked(r, used)
      /\ ToSet(r) \subseteq ToSet(entries) /\ KeysIn(r) = index
    BY <1>1 DEF LruInv
<1>6. LruInv' /\ Content' = [x \in Keys |-> IF x = e.key THEN ItemOf(e)
                                            ELSE IF x \in KeysIn(r) THEN Content[x]
                                            ELSE Recency!Gone]
    BY <1>3, <1>4, <1>5, PushStep
<1>7. Content' = [Content EXCEPT ![k] = ItemOf(e)]
    <2>1. Content = [x \in Keys |-> Content[x]]
        BY ContentIsStored DEF Stored
    <2>2. \A x \in Keys : x \notin index => Content[x] = Recency!Gone
        BY CachedIsIndex DEF Recency!Cached
    <2> QED BY <1>4, <1>5, <1>6, <2>1, <2>2
<1>8. Cardinality(Recency!Cached) < MaxSize
    BY <1>1, <1>5, CachedIsIndex, RankedSize DEF LruInv
<1>9. Content' = [Content EXCEPT ![k] = [value |-> v, expiresAt |-> now + ttl]]
    BY <1>4, <1>7
<1>10. Recency!Use(k) /\ wanted' = wanted \cup {k} /\ UNCHANGED now
    BY <1>3 DEF Recency!Use, Use
<1>11. Recency!Put(k, v, ttl)
    BY <1>8, <1>9, <1>10, PutMeans
<1> QED BY <1>6, <1>11

\* put of a new key at capacity: what is at the back was used the longest ago.
LEMMA PutEvictingStep ==
    ASSUME LruInv, NEW k \in Keys, NEW v \in Values, NEW ttl \in Ttls, PutNew(k, v, ttl),
           Len(entries) >= MaxSize
    PROVE  LruInv' /\ Recency!Put(k, v, ttl)
<1>1. PICK r, e, last : /\ r = Front(entries) /\ e = Fresh(k, v, ttl)
                        /\ last = Last(entries).key
    OBVIOUS
<1>2. /\ entries \in Seq(CacheEntry) /\ used \in Numbers /\ Ranked(entries, used)
      /\ index = KeysIn(entries) /\ Len(entries) \in Nat /\ Len(entries) > 0
      /\ Len(entries) = MaxSize
    BY CacheAssumption DEF LruInv
<1>3. /\ k \notin index /\ entries' = <<e>> \o r /\ Use(k)
      /\ index' = (index \ {last}) \cup {k}
      /\ wanted' = wanted \cup {k} /\ now' = now
    BY <1>1 DEF PutNew
<1>4. e \in CacheEntry /\ e.key = k /\ ItemOf(e) = [value |-> v, expiresAt |-> now + ttl]
    <2>1. now + ttl \in Nat
        BY CacheAssumption DEF LruInv
    <2> QED BY <1>1, <2>1 DEF Fresh, CacheEntry, ItemOf
<1>5. /\ r = RemoveAt(entries, Len(entries)) /\ last = entries[Len(entries)].key
      /\ Len(entries) \in 1..Len(entries)
    BY <1>1, <1>2, FrontTakesOut
<1>6. /\ r \in Seq(CacheEntry) /\ Len(r) < MaxSize /\ Ranked(r, used)
      /\ ToSet(r) \subseteq ToSet(entries) /\ KeysIn(r) = index \ {last}
    <2>1. /\ r \in Seq(CacheEntry) /\ Len(r) = Len(entries) - 1 /\ Ranked(r, used)
          /\ ToSet(r) = ToSet(entries) \ {entries[Len(entries)]}
          /\ KeysIn(r) = KeysIn(entries) \ {entries[Len(entries)].key}
        BY <1>2, <1>5, TakenOut
    <2> QED BY <1>2, <1>5, <2>1
<1>7. k \notin KeysIn(r) /\ index' = KeysIn(r) \cup {k}
    BY <1>3, <1>6
<1>8. LruInv' /\ Content' = [x \in Keys |-> IF x = e.key THEN ItemOf(e)
                                            ELSE IF x \in KeysIn(r) THEN Content[x]
                                            ELSE Recency!Gone]
    BY <1>3, <1>4, <1>6, <1>7, PushStep
<1>9. last \in Keys /\ last \in index /\ last # k
    BY <1>2, <1>3, <1>5, Places
<1>10. Content' = [Content EXCEPT ![last] = Recency!Gone, ![k] = ItemOf(e)]
    <2>1. Content = [x \in Keys |-> Content[x]]
        BY ContentIsStored DEF Stored
    <2>2. \A x \in Keys : x \notin index => Content[x] = Recency!Gone
        BY CachedIsIndex DEF Recency!Cached
    <2>3. \A x \in Keys : x \in KeysIn(r) <=> x \in index /\ x # last
        BY <1>6
    <2>4. \A x \in Keys : Content'[x] = [Content EXCEPT ![last] = Recency!Gone,
                                                        ![k] = ItemOf(e)][x]
        BY <1>4, <1>8, <1>9, <2>1, <2>2, <2>3
    <2>5. /\ Content' = [x \in Keys |-> Content'[x]]
          /\ [Content EXCEPT ![last] = Recency!Gone, ![k] = ItemOf(e)] =
             [x \in Keys |-> [Content EXCEPT ![last] = Recency!Gone, ![k] = ItemOf(e)][x]]
        BY <1>8, <2>1
    <2> QED BY <2>4, <2>5
<1>11. \A y \in index : used[last] <= used[y]
    <2>1. SUFFICES ASSUME NEW y \in index
                   PROVE  used[last] <= used[y]
        OBVIOUS
    <2>2. PICK j \in 1..Len(entries) : y = entries[j].key
        BY <1>2, Places
    <2>3. y \in Keys /\ used[y] \in Nat /\ used[last] \in Nat
        BY <1>2, <1>9, <2>2, Places DEF Numbers
    <2>4. CASE j = Len(entries)
        BY <1>5, <2>2, <2>3, <2>4
    <2>5. CASE j # Len(entries)
        <3>1. j < Len(entries)
            BY <1>2, <2>5
        <3>2. used[y] > used[last]
            BY <1>2, <1>5, <2>2, <3>1 DEF Ranked
        <3> QED BY <2>3, <3>2
    <2> QED BY <2>4, <2>5
<1>12. Recency!Cached = index /\ Cardinality(index) = MaxSize
    BY <1>2, CachedIsIndex, RankedSize
<1>13. Content' = [Content EXCEPT ![last] = Recency!Gone,
                                  ![k] = [value |-> v, expiresAt |-> now + ttl]]
    BY <1>4, <1>10
<1>14. ~(k \in Recency!Cached \/ Cardinality(Recency!Cached) < MaxSize)
    BY <1>2, <1>3, <1>12
<1>15. Recency!Use(k) /\ wanted' = wanted \cup {k} /\ UNCHANGED now
    BY <1>3 DEF Recency!Use, Use
<1>16. last \in Recency!Cached /\ \A y \in Recency!Cached : used[last] <= used[y]
    BY <1>9, <1>11, <1>12
<1>17. Recency!Put(k, v, ttl)
    BY <1>13, <1>14, <1>15, <1>16, PutMeans
<1> QED BY <1>8, <1>17

\* get of a live entry.
LEMMA HitStep ==
    ASSUME LruInv, NEW k \in Keys, Hit(k)
    PROVE  LruInv' /\ Recency!Hit(k)
<1>1. PICK r, e : r = RemoveAt(entries, EntryAt(k)) /\ e = entries[EntryAt(k)]
    OBVIOUS
<1>2. /\ k \in index /\ now < e.expiresAt /\ entries' = <<e>> \o r /\ Use(k)
      /\ index' = index /\ wanted' = wanted /\ now' = now
    BY <1>1 DEF Hit, ToFront
<1>3. e \in CacheEntry /\ e.key = k /\ Content[k] = ItemOf(e)
    BY <1>1, <1>2, AtPlace
<1>4. /\ r \in Seq(CacheEntry) /\ Len(r) < MaxSize /\ Ranked(r, used)
      /\ ToSet(r) \subseteq ToSet(entries) /\ KeysIn(r) = index \ {k}
    BY <1>1, <1>2, AtPlace
<1>5. k \notin KeysIn(r) /\ index' = KeysIn(r) \cup {k}
    BY <1>2, <1>4
<1>6. LruInv' /\ Content' = [x \in Keys |-> IF x = e.key THEN ItemOf(e)
                                            ELSE IF x \in KeysIn(r) THEN Content[x]
                                            ELSE Recency!Gone]
    BY <1>2, <1>3, <1>4, <1>5, PushStep
<1>7. Content' = Content
    <2>1. Content = [x \in Keys |-> Content[x]]
        BY ContentIsStored DEF Stored
    <2>2. \A x \in Keys : x \notin index => Content[x] = Recency!Gone
        BY CachedIsIndex DEF Recency!Cached
    <2> QED BY <1>3, <1>4, <1>6, <2>1, <2>2
<1>8. k \in Recency!Cached /\ Content[k].expiresAt = e.expiresAt
    BY <1>2, <1>3, CachedIsIndex DEF ItemOf
<1> QED BY <1>2, <1>6, <1>7, <1>8 DEF Recency!Hit, Recency!Use, Use

\* invalidate, invalidateByPrefix, clear, evictExpired and the get that finds
\* an expired entry.
LEMMA EraseStep ==
    ASSUME LruInv, NEW ks, Erase(ks)
    PROVE  LruInv' /\ Recency!Drop(ks)
<1>1. PICK t : t = Without(entries, ks)
    OBVIOUS
<1>2. /\ entries \in Seq(CacheEntry) /\ used \in Numbers /\ Ranked(entries, used)
      /\ index = KeysIn(entries) /\ Len(entries) \in Nat
      /\ Len(entries) <= MaxSize /\ MaxSize \in Nat
    BY CacheAssumption DEF LruInv
<1>3. /\ entries' = t /\ index' = index \ ks /\ wanted' = wanted \ ks
      /\ now' = now /\ uses' = uses /\ used' = used
    BY <1>1 DEF Erase
<1>4. /\ t \in Seq(CacheEntry) /\ Len(t) <= Len(entries) /\ Ranked(t, used)
      /\ ToSet(t) = {x \in ToSet(entries) : x.key \notin ks}
      /\ KeysIn(t) = KeysIn(entries) \ ks
    BY <1>1, <1>2, Erased
<1>5. LruInv'
    <2>1. Len(t) <= MaxSize
        BY <1>2, <1>4
    <2> QED BY <1>2, <1>3, <1>4, <2>1 DEF LruInv
<1>6. ASSUME NEW k \in Keys
      PROVE  Content'[k] = IF k \in ks THEN Recency!Gone ELSE Content[k]
    <2>1. CASE k \in KeysIn(t)
        <3>1. PICK x \in ToSet(t) : x.key = k
            BY <2>1 DEF KeysIn
        <3>2. Stored(t)[k] = ItemOf(x)
            BY <1>2, <1>4, <3>1, StoredEntries
        <3>3. Stored(entries)[k] = ItemOf(x) /\ k \notin ks
            BY <1>2, <1>4, <3>1, StoredEntries
        <3> QED BY <1>3, <3>2, <3>3, ContentIsStored
    <2>2. CASE k \notin KeysIn(t)
        <3>1. Stored(t)[k] = Recency!Gone
            BY <1>2, <1>4, <2>2, StoredEntries
        <3>2. k \notin ks => Stored(entries)[k] = Recency!Gone
            BY <1>2, <1>4, <2>2, StoredEntries
        <3> QED BY <1>3, <3>1, <3>2, ContentIsStored
    <2> QED BY <2>1, <2>2
<1>7. Content' = [k \in Keys |-> Content'[k]]
    BY ContentIsStored DEF Stored
<1>8. Content' = [k \in Keys |-> IF k \in ks THEN Recency!Gone ELSE Content[k]]
    BY <1>6, <1>7
<1> QED BY <1>3, <1>5, <1>8 DEF Recency!Drop

\* evictExpired erases the keys that RecencyCache says are expired.
LEMMA ExpiredKeys ==
    ASSUME LruInv
    PROVE  {e.key : e \in {x \in ToSet(entries) : now >= x.expiresAt}} = Recency!Expired
<1>1. /\ entries \in Seq(CacheEntry) /\ used \in Numbers /\ Ranked(entries, used)
      /\ index = KeysIn(entries)
    BY DEF LruInv
<1>2. ASSUME NEW x \in ToSet(entries)
      PROVE  x.key \in KeysIn(entries) /\ Content[x.key].expiresAt = x.expiresAt
    <2>1. x.key \in KeysIn(entries) /\ Content[x.key] = ItemOf(x)
        BY <1>1, StoredEntries, ContentIsStored
    <2>2. ItemOf(x).expiresAt = x.expiresAt
        BY DEF ItemOf
    <2> QED BY <2>1, <2>2
<1>3. \A k \in KeysIn(entries) : \E x \in ToSet(entries) : x.key = k
    BY DEF KeysIn
<1>4. Recency!Cached = KeysIn(entries)
    BY <1>1, CachedIsIndex
<1> QED BY <1>2, <1>3, <1>4 DEF Recency!Expired

\* LruInv is inductive, and every step is one of RecencyCache.
LEMMA LruStep ==
    ASSUME LruInv, [Next]_vars
    PROVE  LruInv' /\ [Recency!Next]_(Recency!vars)
<1>1. ASSUME NEW k \in Keys, NEW v \in Values, NEW ttl \in Ttls,
             PutExisting(k, v, ttl) \/ PutNew(k, v, ttl)
      PROVE  LruInv' /\ Recency!Next
    <2>1. Len(entries) < MaxSize \/ Len(entries) >= MaxSize
        BY CacheAssumption DEF LruInv
    <2>2. LruInv' /\ Recency!Put(k, v, ttl)
        BY <1>1, <2>1, PutExistingStep, PutInRoomStep, PutEvictingStep
    <2> QED BY <2>2 DEF Recency!Next
<1>2. ASSUME NEW k \in Keys, Hit(k)
      PROVE  LruInv' /\ Recency!Next
    BY <1>2, HitStep DEF Recency!Next
<1>3. ASSUME NEW k \in Keys, GetExpired(k) \/ Invalidate(k)
      PROVE  LruInv' /\ Recency!Next
    <2>1. LruInv' /\ Recency!Drop({k})
        BY <1>3, EraseStep DEF GetExpired, Invalidate
    <2> QED BY <2>1 DEF Recency!Next, Recency!DropSome
<1>4. ASSUME NEW ks \in PrefixSets, InvalidateByPrefix(ks)
      PROVE  LruInv' /\ Recency!Next
    BY <1>4, EraseStep DEF InvalidateByPrefix, Recency!Next, Recency!DropSome
<1>5. CASE Clear
    BY <1>5, EraseStep DEF Clear, Recency!Next, Recency!DropSome
<1>6. CASE EvictExpired
    <2>1. PICK ks : ks = Recency!Expired
        OBVIOUS
    <2>2. Erase(ks)
        BY <1>6, <2>1, ExpiredKeys DEF EvictExpired
    <2>3. LruInv' /\ Recency!Drop(ks)
        BY <2>2, EraseStep
    <2>4. Recency!Drop(Recency!Expired)
        BY <2>1, <2>3
    <2> QED BY <2>3, <2>4 DEF Recency!Next, Recency!DropSome
<1>7. CASE Tick
    <2>1. /\ now < MaxTime /\ now' = now + 1 /\ entries' = entries /\ index' = index
          /\ uses' = uses /\ used' = used /\ wanted' = wanted
        BY <1>7 DEF Tick
    <2>2. LruInv'
        BY <2>1 DEF LruInv
    <2>3. Content' = Content
        BY <2>1, ContentIsStored
    <2> QED BY <2>1, <2>2, <2>3 DEF Recency!Next, Recency!Tick
<1>8. CASE UNCHANGED vars
    <2>1. /\ now' = now /\ entries' = entries /\ index' = index
          /\ uses' = uses /\ used' = used /\ wanted' = wanted
        BY <1>8 DEF vars
    <2>2. LruInv'
        BY <2>1 DEF LruInv
    <2>3. Content' = Content
        BY <2>1, ContentIsStored
    <2> QED BY <2>1, <2>2, <2>3 DEF Recency!vars
<1> QED BY <1>1, <1>2, <1>3, <1>4, <1>5, <1>6, <1>7, <1>8 DEF Next

\* The empty cache is coherent, and it is the empty RecencyCache.
LEMMA LruInit == Init => LruInv /\ Recency!Init
<1> SUFFICES ASSUME Init
             PROVE  LruInv /\ Recency!Init
    OBVIOUS
<1>1. /\ now = 0 /\ entries = <<>> /\ index = {} /\ uses = 0
      /\ used = [k \in Keys |-> 0] /\ wanted = {}
    BY DEF Init
<1>2. entries \in Seq(CacheEntry) /\ Len(entries) = 0
    BY <1>1
<1>3. KeysIn(entries) = {}
    <2>1. 1..Len(entries) = {}
        BY <1>2
    <2> QED BY <1>2, <2>1, Places
<1>4. LruInv
    <2>1. Ranked(entries, used)
        BY <1>1 DEF Ranked
    <2> QED BY <1>1, <1>2, <1>3, <2>1, CacheAssumption DEF LruInv, Numbers
<1>5. Content = [k \in Keys |-> Recency!Gone]
    BY <1>3, ContentIsStored DEF Stored
<1> QED BY <1>1, <1>4, <1>5 DEF Recency!Init

\* LruInv holds always.
LEMMA LruInvariant == Spec => []LruInv
BY LruInit, LruStep, PTL DEF Spec

\* LruCache: whatever the operations, every iterator of the index is on exactly
\* one entry, every entry has an iterator, and the capacity is kept.
THEOREM IndexCoherent == Spec => []Coherent
<1>1. LruInv => Coherent
    <2> SUFFICES ASSUME LruInv
                 PROVE  Coherent
        OBVIOUS
    <2>1. /\ entries \in Seq(CacheEntry) /\ used \in Numbers /\ Ranked(entries, used)
          /\ index = KeysIn(entries) /\ Len(entries) <= MaxSize
        BY DEF LruInv
    <2>2. Cardinality(index) = Len(entries)
        BY <2>1, RankedSize
    <2> QED BY <2>1, <2>2 DEF Coherent, KeysIn
<1> QED BY <1>1, LruInvariant, PTL

\* LruCache implements RecencyCache: the back of the list is the entry whose
\* latest put or hit is the longest ago.
THEOREM ImplementsRecency == Spec => IsRecencyCache
BY LruInit, LruStep, LruInvariant, PTL DEF Spec, IsRecencyCache, Recency!Spec

\* What is proved about RecencyCache, of the contents of the list.
Abstract == INSTANCE RecencyCacheProofs WITH content <- Content

\* LruCache gives up a key that is still wanted only when at least MaxSize other
\* keys were used since that key was.
THEOREM WorkingSetIsKept == Spec => []WorkingSetKept
<1>1. Recency!Init => Abstract!Init
    BY DEF Recency!Init, Abstract!Init, Recency!Gone, Abstract!Gone
<1>2. [Recency!Next]_(Recency!vars) => [Abstract!Next]_(Abstract!vars)
    BY DEF Recency!vars, Abstract!vars, Recency!Next, Abstract!Next,
       Recency!Put, Abstract!Put, Recency!Hit, Abstract!Hit,
       Recency!DropSome, Abstract!DropSome, Recency!Drop, Abstract!Drop,
       Recency!Expired, Abstract!Expired, Recency!Tick, Abstract!Tick,
       Recency!Use, Abstract!Use, Recency!Cached, Abstract!Cached,
       Recency!Gone, Abstract!Gone, Recency!Cardinality, Abstract!Cardinality
<1>3. Abstract!WorkingSetKept => WorkingSetKept
    BY DEF WorkingSetKept, Recency!WorkingSetKept, Abstract!WorkingSetKept,
       Recency!UsedSince, Abstract!UsedSince, Recency!Cached, Abstract!Cached,
       Recency!Gone, Abstract!Gone, Recency!Cardinality, Abstract!Cardinality
<1>4. Recency!Spec => Abstract!Spec
    BY <1>1, <1>2, PTL DEF Recency!Spec, Abstract!Spec
<1>5. Abstract!Spec => []Abstract!WorkingSetKept
    <2>1. /\ Abstract!IsFiniteSet(Keys)
          /\ PrefixSets \subseteq SUBSET Keys
          /\ MaxSize \in Nat \ {0} /\ Ttls \subseteq Nat
          /\ MaxTime \in Nat /\ MaxUses \in Nat
        BY CacheAssumption DEF IsFiniteSet, Abstract!IsFiniteSet
    <2>2. Abstract!Init => Abstract!CacheInv
        BY <2>1, Abstract!InitCacheInv
    <2>3. Abstract!CacheInv /\ [Abstract!Next]_(Abstract!vars) => Abstract!CacheInv'
        BY <2>1, Abstract!CacheInvStep
    <2>4. Abstract!CacheInv => Abstract!WorkingSetKept
        BY DEF Abstract!CacheInv
    <2> QED BY <2>2, <2>3, <2>4, PTL DEF Abstract!Spec
<1> QED BY <1>3, <1>4, <1>5, ImplementsRecency, PTL DEF IsRecencyCache

=============================================================================
