-------------------------- MODULE RateLimiterProofs --------------------------
(***************************************************************************)
(* Proofs about RateLimiter for every number of clients and requests, every *)
(* limit, window, clock resolution and waiting time.                       *)
(***************************************************************************)
EXTENDS RateLimiter, FiniteSetTheorems, WellFoundedInduction, TLAPS

-----------------------------------------------------------------------------
(* Operators *)

\* A nonempty set of naturals has a smallest element.
LEMMA SmallestElement ==
    ASSUME NEW S \in SUBSET Nat, S # {}
    PROVE  \E x \in S : \A y \in S : x <= y
<1>1. PICK x \in S : \A y \in S : ~ (<<y, x>> \in OpToRel(<, Nat))
      BY NatLessThanWellFounded, WFMin
<1>2. ASSUME NEW y \in S, y < x  PROVE FALSE
  <2>1. <<y, x>> \in OpToRel(<, Nat)  BY <1>2 DEF OpToRel
  <2>. QED  BY <1>1, <2>1
<1>. QED  BY <1>2

\* Pruning stops at the first timestamp that is not older than the cutoff.
LEMMA PrunedToEffect ==
    ASSUME NEW c \in Clients, stamps[c] \in Seq(Nat),
           NEW i \in 1..(Len(stamps[c]) + 1), NEW cutoff \in Int
    PROVE  /\ PrunedTo(c, i, cutoff) \in i..(Len(stamps[c]) + 1)
           /\ \A k \in i..(PrunedTo(c, i, cutoff) - 1) : stamps[c][k] < cutoff
           /\ PrunedTo(c, i, cutoff) <= Len(stamps[c])
                 => stamps[c][PrunedTo(c, i, cutoff)] >= cutoff
<1>. DEFINE s == stamps[c]
            kept == {j \in i..Len(s) : s[j] >= cutoff} \cup {Len(s) + 1}
<1>1. Len(s) \in Nat /\ \A j \in 1..Len(s) : s[j] \in Nat
      OBVIOUS
<1>2. kept \in SUBSET Nat /\ kept # {}
      BY <1>1
<1>3. PICK j \in kept : \A k \in kept : j <= k
      BY <1>2, SmallestElement
<1>4. j \in i..(Len(s) + 1)
      BY <1>1, <1>3
<1>5. ASSUME NEW k \in i..(j - 1)  PROVE s[k] < cutoff
  <2>1. k \in i..Len(s) /\ k \in 1..Len(s)  BY <1>1, <1>4
  <2>2. k \notin kept  BY <1>1, <1>3, <1>4, <2>1
  <2>. QED  BY <1>1, <2>1, <2>2
<1>6. j <= Len(s) => s[j] >= cutoff
      BY <1>1, <1>3
<1>. QED  BY <1>4, <1>5, <1>6 DEF PrunedTo

\* The admissions in an interval of time are finitely many.
LEMMA AdmittedFinite ==
    ASSUME NEW c \in Clients, stamps[c] \in Seq(Nat), NEW a, NEW b
    PROVE  IsFiniteSet(Admitted(c, a, b))
<1>1. IsFiniteSet(1..Len(stamps[c]))  BY FS_Interval
<1>2. Admitted(c, a, b) \in SUBSET (1..Len(stamps[c]))  BY DEF Admitted
<1>. QED  BY <1>1, <1>2, FS_Subset

LEMMA WindowType == Window \in Nat /\ PurgeInterval \in Nat
BY LimitAssumption DEF Window, PurgeInterval

LEMMA RetryAfterType ==
    ASSUME NEW r, NEW oldest \in Nat, NEW now \in Nat,
           stamps[request[r].client][OwnFront(r)] = oldest, request[r].now = now
    PROVE  /\ RetryAfter(r) \in Nat \ {0}
           /\ oldest + Window < now + (RetryAfter(r) + 1) * TicksPerSecond
<1>. DEFINE left == oldest + Window - now
            sec == left \div TicksPerSecond
<1>. TicksPerSecond \in Nat \ {0}  BY LimitAssumption
<1>1. left \in Int  BY WindowType
<1>2. sec \in Int  BY <1>1
<1>3. RetryAfter(r) = IF sec <= 0 THEN 1 ELSE sec  BY DEF RetryAfter
<1>4. left < (sec + 1) * TicksPerSecond  BY <1>1
<1>. HIDE DEF sec, left
<1>5. RetryAfter(r) \in Nat \ {0} /\ sec <= RetryAfter(r)  BY <1>2, <1>3
<1>6. (sec + 1) * TicksPerSecond <= (RetryAfter(r) + 1) * TicksPerSecond
  <2>1. sec + 1 <= RetryAfter(r) + 1  BY <1>2, <1>5
  <2>. QED  BY <1>2, <1>5, <2>1
<1>7. (sec + 1) * TicksPerSecond \in Int /\ (RetryAfter(r) + 1) * TicksPerSecond \in Int
      BY <1>2, <1>5
<1>8. left < (RetryAfter(r) + 1) * TicksPerSecond  BY <1>1, <1>4, <1>6, <1>7
<1>. QED  BY <1>1, <1>5, <1>7, <1>8, WindowType DEF left

-----------------------------------------------------------------------------
(* The inductive invariant *)

\* No request waits for the mutex longer than Delay.
Waits == \A r \in Requests : request[r].pc = "waiting" =>
            request[r].now <= clock /\ clock <= request[r].now + Delay

\* Timestamps lie in the past.
PastStamps == \A c \in Clients : \A i \in 1..Len(stamps[c]) : stamps[c][i] <= clock

\* What has left a deque is older than a window, by now.
DroppedOld == \A c \in Clients : \A i \in 1..(front[c] - 1) :
                 stamps[c][i] < clock - Window

\* A deque never holds more than MaxRequests timestamps.
SizeBounded == \A c \in Clients : Len(stamps[c]) - front[c] + 1 <= MaxRequests

\* A deque is sorted but for what a wait for the mutex may disturb.
NearlySorted == \A c \in Clients : \A i, j \in 1..Len(stamps[c]) :
                   i < j => stamps[c][i] <= stamps[c][j] + Delay

\* WindowBound, for the intervals that begin later too.
AllWindows == \A c \in Clients : \A a \in Nat :
    Cardinality(Admitted(c, a, a + Window - Delay)) <= MaxRequests

\* The refusals that nothing was admitted after: the oldest of the last
\* MaxRequests timestamps is what RetryAfter was computed from.
RefusalExplained == \A c \in Clients :
    /\ refusal[c].count <= Len(stamps[c])
    /\ refusal[c].count = Len(stamps[c]) =>
         LET i == Len(stamps[c]) - MaxRequests + 1
         IN  /\ i \in 1..Len(stamps[c])
             /\ stamps[c][i] + Window
                   < refusal[c].at + (refusal[c].retry + 1) * TicksPerSecond

\* The front of a deque is as recent as the last purge, give or take.
PurgeInv ==
    /\ lastPurge <= clock
    /\ lastRun <= lastPurge + PurgeInterval
    /\ \A c \in Clients : front[c] <= Len(stamps[c]) =>
          stamps[c][front[c]] + Window + Delay >= lastPurge

LimitInv ==
    TypeOK /\ Waits /\ PastStamps /\ DroppedOld /\ SizeBounded /\ NearlySorted
      /\ AllWindows /\ RefusalDeserved /\ RefusalExplained /\ PurgeInv

\* A request that is not idle has all the fields of a waiting one.
LEMMA WaitingRequests ==
    ASSUME TypeOK, NEW r \in Requests, request[r].pc = "waiting"
    PROVE  request[r] \in Waiting
BY DEF TypeOK, Idle

LEMMA LogType ==
    ASSUME TypeOK, NEW c \in Clients
    PROVE  /\ stamps[c] \in Seq(Nat)
           /\ Len(stamps[c]) \in Nat
           /\ \A i \in 1..Len(stamps[c]) : stamps[c][i] \in Nat
           /\ front[c] \in 1..(Len(stamps[c]) + 1)
BY DEF TypeOK

-----------------------------------------------------------------------------
(* Init *)

LEMMA InitLimitInv == Init => LimitInv
<1>. SUFFICES ASSUME Init PROVE LimitInv
     OBVIOUS
<1>. USE LimitAssumption
<1>0. \A c \in Clients : stamps[c] = <<>> /\ front[c] = 1 /\ refusal[c] = None
      BY DEF Init
<1>1. TypeOK  BY <1>0 DEF Init, TypeOK, Idle, None
<1>2. Waits  BY DEF Init, Waits, Idle
<1>3. PastStamps /\ DroppedOld /\ NearlySorted
      BY <1>0 DEF PastStamps, DroppedOld, NearlySorted
<1>4. SizeBounded  BY <1>0 DEF SizeBounded
<1>5. AllWindows
  <2>. SUFFICES ASSUME NEW c \in Clients, NEW a \in Nat
                PROVE  Cardinality(Admitted(c, a, a + Window - Delay)) <= MaxRequests
       BY DEF AllWindows
  <2>1. Admitted(c, a, a + Window - Delay) = {}  BY <1>0 DEF Admitted
  <2>. QED  BY <2>1, FS_EmptySet
<1>6. RefusalDeserved  BY <1>0 DEF RefusalDeserved
<1>7. RefusalExplained  BY <1>0 DEF RefusalExplained, None
<1>8. PurgeInv  BY <1>0, WindowType DEF Init, PurgeInv
<1>. QED  BY <1>1, <1>2, <1>3, <1>4, <1>5, <1>6, <1>7, <1>8 DEF LimitInv

-----------------------------------------------------------------------------
(* The critical section *)

\* Where a purge leaves the fronts.
LEMMA PurgeFrontEffect ==
    ASSUME LimitInv, NEW c \in Clients
    PROVE  /\ PurgeFront(c) \in front[c]..(Len(stamps[c]) + 1)
           /\ \A i \in 1..(PurgeFront(c) - 1) : stamps[c][i] < clock - Window
           /\ PurgeFront(c) = front[c] \/ PurgeDue
           /\ PurgeDue /\ PurgeFront(c) <= Len(stamps[c])
                 => stamps[c][PurgeFront(c)] >= clock - Window
<1>. DEFINE s == stamps[c]
            f == front[c]
            cut == clock - Window
<1>1. s \in Seq(Nat) /\ Len(s) \in Nat /\ f \in 1..(Len(s) + 1)
      BY LogType DEF LimitInv
<1>2. cut \in Int  BY WindowType DEF LimitInv, TypeOK
<1>3. \A i \in 1..(f - 1) : s[i] < cut  BY DEF LimitInv, DroppedOld
<1>4. CASE PurgeDue
  <2>. DEFINE p == PrunedTo(c, f, cut)
  <2>1. /\ p \in f..(Len(s) + 1)
        /\ \A k \in f..(p - 1) : s[k] < cut
        /\ p <= Len(s) => s[p] >= cut
        BY <1>1, <1>2, PrunedToEffect
  <2>2. PurgeFront(c) = p  BY <1>4 DEF PurgeFront
  <2>. HIDE DEF p, s, f, cut
  <2>3. \A i \in 1..(p - 1) : s[i] < cut
    <3>. SUFFICES ASSUME NEW i \in 1..(p - 1) PROVE s[i] < cut
         OBVIOUS
    <3>1. i \in 1..(f - 1) \/ i \in f..(p - 1)  BY <1>1, <2>1
    <3>. QED  BY <1>3, <2>1, <3>1
  <2>. QED  BY <1>4, <2>1, <2>2, <2>3 DEF s, f, cut
<1>5. CASE ~PurgeDue
  <2>1. PurgeFront(c) = f  BY <1>5 DEF PurgeFront
  <2>. QED  BY <1>1, <1>3, <1>5, <2>1
<1>. QED  BY <1>4, <1>5

\* Where the critical section of r leaves the front of its client.
LEMMA OwnFrontEffect ==
    ASSUME LimitInv, NEW r \in Requests, request[r].pc = "waiting",
           NEW c \in Clients, c = request[r].client,
           NEW n \in Nat, n = request[r].now
    PROVE  /\ OwnFront(r) \in front[c]..(Len(stamps[c]) + 1)
           /\ \A i \in 1..(OwnFront(r) - 1) : stamps[c][i] < clock - Window
           /\ OwnFront(r) <= Len(stamps[c]) => stamps[c][OwnFront(r)] >= n - Window
<1>. DEFINE s == stamps[c]
            p == PurgeFront(c)
            cut == n - Window
            o == PrunedTo(c, p, cut)
<1>1. s \in Seq(Nat) /\ Len(s) \in Nat /\ front[c] \in 1..(Len(s) + 1)
         /\ (\A i \in 1..Len(s) : s[i] \in Nat)
      BY LogType DEF LimitInv
<1>2. p \in front[c]..(Len(s) + 1) /\ (\A i \in 1..(p - 1) : s[i] < clock - Window)
      BY PurgeFrontEffect
<1>3. cut \in Int /\ clock \in Nat /\ Window \in Nat
      BY WindowType DEF LimitInv, TypeOK
<1>4. n <= clock  BY DEF LimitInv, Waits
<1>5. p \in 1..(Len(s) + 1)  BY <1>1, <1>2
<1>6. /\ o \in p..(Len(s) + 1)
      /\ \A k \in p..(o - 1) : s[k] < cut
      /\ o <= Len(s) => s[o] >= cut
      BY <1>1, <1>3, <1>5, PrunedToEffect
<1>7. OwnFront(r) = o  BY DEF OwnFront
<1>. HIDE DEF o, p, s
<1>8. \A i \in 1..(o - 1) : s[i] < clock - Window
  <2>. SUFFICES ASSUME NEW i \in 1..(o - 1) PROVE s[i] < clock - Window
       OBVIOUS
  <2>1. i \in 1..(p - 1) \/ i \in p..(o - 1)  BY <1>5, <1>6
  <2>2. s[i] \in Nat  BY <1>1, <1>5, <1>6
  <2>3. i \in p..(o - 1) => s[i] < n - Window  BY <1>6
  <2>. QED  BY <1>2, <1>3, <1>4, <2>1, <2>2, <2>3
<1>9. o \in front[c]..(Len(s) + 1)  BY <1>1, <1>2, <1>6
<1>. QED  BY <1>6, <1>7, <1>8, <1>9 DEF s

\* What every critical section does, to the client of the request and to the
\* others.
LEMMA PruneEffect ==
    ASSUME LimitInv, NEW r \in Requests, Prune(r)
    PROVE  /\ request[r] \in Waiting
           /\ request[r].now <= clock /\ clock <= request[r].now + Delay
           /\ front' \in [Clients -> Nat]
           /\ front'[request[r].client] = OwnFront(r)
           /\ \A c \in Clients :
                 /\ front'[c] \in front[c]..(Len(stamps[c]) + 1)
                 /\ \A i \in 1..(front'[c] - 1) : stamps[c][i] < clock - Window
                 /\ front'[c] <= Len(stamps[c]) =>
                       stamps[c][front'[c]] + Window + Delay >= lastPurge'
           /\ OwnFront(r) <= Len(stamps[request[r].client]) =>
                 stamps[request[r].client][OwnFront(r)] >= request[r].now - Window
           /\ lastPurge' \in Nat /\ lastPurge' <= clock
           /\ lastRun' = clock /\ clock <= lastPurge' + PurgeInterval
           /\ clock' = clock /\ clock \in Nat
           /\ request' \in [Requests -> Waiting \cup {Idle}]
           /\ Waits'
<1>. DEFINE c0 == request[r].client
            n0 == request[r].now
<1>. TypeOK  BY DEF LimitInv
<1>1. request[r] \in Waiting /\ request[r].pc = "waiting"
      BY WaitingRequests DEF Prune
<1>2. c0 \in Clients /\ n0 \in Nat  BY <1>1 DEF Waiting
<1>3. n0 <= clock /\ clock <= n0 + Delay  BY <1>1 DEF LimitInv, Waits
<1>4. clock \in Nat /\ lastPurge \in Nat /\ Window \in Nat /\ PurgeInterval \in Nat
         /\ Delay \in Nat /\ clock' = clock /\ lastRun' = clock
      BY WindowType, LimitAssumption DEF TypeOK, Prune
<1>5. lastPurge <= clock  BY DEF LimitInv, PurgeInv
<1>6. lastPurge' \in Nat /\ lastPurge' <= clock /\ clock <= lastPurge' + PurgeInterval
      BY <1>4, <1>5 DEF Prune, PurgeDue
<1>7. \A c \in Clients : front'[c] = IF c = c0 THEN OwnFront(r) ELSE PurgeFront(c)
      BY DEF Prune
<1>8. /\ OwnFront(r) \in front[c0]..(Len(stamps[c0]) + 1)
      /\ \A i \in 1..(OwnFront(r) - 1) : stamps[c0][i] < clock - Window
      /\ OwnFront(r) <= Len(stamps[c0]) => stamps[c0][OwnFront(r)] >= n0 - Window
      BY <1>1, <1>2, OwnFrontEffect
<1>9. ASSUME NEW c \in Clients
      PROVE  /\ front'[c] \in front[c]..(Len(stamps[c]) + 1)
             /\ \A i \in 1..(front'[c] - 1) : stamps[c][i] < clock - Window
             /\ front'[c] <= Len(stamps[c]) =>
                   stamps[c][front'[c]] + Window + Delay >= lastPurge'
  <2>1. \A i \in 1..Len(stamps[c]) : stamps[c][i] \in Nat
        BY LogType
  <2>2. front[c] \in 1..(Len(stamps[c]) + 1) /\ Len(stamps[c]) \in Nat  BY LogType
  <2>3. CASE c = c0
    <3>1. front'[c] = OwnFront(r)  BY <1>7, <2>3
    <3>2. OwnFront(r) <= Len(stamps[c]) =>
             stamps[c][OwnFront(r)] + Window + Delay >= lastPurge'
      <4>. SUFFICES ASSUME OwnFront(r) <= Len(stamps[c])
                    PROVE  stamps[c][OwnFront(r)] + Window + Delay >= lastPurge'
           OBVIOUS
      <4>1. OwnFront(r) \in 1..Len(stamps[c])  BY <1>8, <2>2, <2>3
      <4>2. stamps[c][OwnFront(r)] \in Nat  BY <2>1, <4>1
      <4>3. stamps[c][OwnFront(r)] >= n0 - Window  BY <1>8, <2>3
      <4>. QED  BY <1>2, <1>3, <1>4, <1>6, <4>2, <4>3
    <3>. QED  BY <1>8, <2>3, <3>1, <3>2
  <2>4. CASE c # c0
    <3>1. front'[c] = PurgeFront(c)  BY <1>7, <2>4
    <3>2. /\ PurgeFront(c) \in front[c]..(Len(stamps[c]) + 1)
          /\ \A i \in 1..(PurgeFront(c) - 1) : stamps[c][i] < clock - Window
          /\ PurgeFront(c) = front[c] \/ PurgeDue
          /\ PurgeDue /\ PurgeFront(c) <= Len(stamps[c])
                => stamps[c][PurgeFront(c)] >= clock - Window
          BY PurgeFrontEffect
    <3>3. PurgeFront(c) <= Len(stamps[c]) =>
             stamps[c][PurgeFront(c)] + Window + Delay >= lastPurge'
      <4>. SUFFICES ASSUME PurgeFront(c) <= Len(stamps[c])
                    PROVE  stamps[c][PurgeFront(c)] + Window + Delay >= lastPurge'
           OBVIOUS
      <4>1. PurgeFront(c) \in 1..Len(stamps[c])  BY <2>2, <3>2
      <4>2. stamps[c][PurgeFront(c)] \in Nat  BY <2>1, <4>1
      <4>3. CASE PurgeDue
            BY <1>4, <1>6, <3>2, <4>2, <4>3
      <4>4. CASE ~PurgeDue
        <5>1. lastPurge' = lastPurge  BY <4>4 DEF Prune
        <5>2. PurgeFront(c) = front[c]  BY <3>2, <4>4
        <5>3. stamps[c][front[c]] + Window + Delay >= lastPurge
              BY <5>2 DEF LimitInv, PurgeInv
        <5>. QED  BY <5>1, <5>2, <5>3
      <4>. QED  BY <4>3, <4>4
    <3>. QED  BY <3>1, <3>2, <3>3
  <2>. QED  BY <2>3, <2>4
<1>10. front' \in [Clients -> Nat]
  <2>1. \A c \in Clients : front'[c] \in Nat  BY <1>9, LogType
  <2>. QED  BY <2>1 DEF Prune
<1>11. request' \in [Requests -> Waiting \cup {Idle}]
       BY DEF Prune, TypeOK
<1>12. Waits'
  <2>1. \A x \in Requests : request'[x].pc = "waiting" => request'[x] = request[x]
        BY DEF Prune, Idle, TypeOK
  <2>. QED  BY <1>4, <2>1 DEF LimitInv, Waits
<1>13. front'[c0] = OwnFront(r)  BY <1>2, <1>7
<1>. QED  BY <1>1, <1>3, <1>4, <1>6, <1>8, <1>9, <1>10, <1>11, <1>12, <1>13

\* A window that gains the admission of r held less than the limit: all that
\* it had is still in the deque.
LEMMA AdmitKeepsWindows ==
    ASSUME LimitInv, NEW r \in Requests, Admit(r)
    PROVE  AllWindows'
<1>. DEFINE c0 == request[r].client
            n0 == request[r].now
<1>. TypeOK  BY DEF LimitInv
<1>1. Prune(r) /\ ~Full(r) /\ stamps' = [stamps EXCEPT ![c0] = Append(@, n0)]
      BY DEF Admit
<1>2. /\ c0 \in Clients /\ n0 \in Nat /\ n0 <= clock /\ clock <= n0 + Delay
      /\ clock \in Nat
      /\ OwnFront(r) \in front[c0]..(Len(stamps[c0]) + 1)
      /\ \A i \in 1..(OwnFront(r) - 1) : stamps[c0][i] < clock - Window
      BY <1>1, PruneEffect DEF Waiting
<1>3. Window \in Nat /\ Delay \in Nat /\ MaxRequests \in Nat
      BY WindowType, LimitAssumption
<1>. SUFFICES ASSUME NEW c \in Clients, NEW a \in Nat
              PROVE  Cardinality(Admitted(c, a, a + Window - Delay)') <= MaxRequests
     BY DEF AllWindows
<1>4. stamps[c] \in Seq(Nat) /\ Len(stamps[c]) \in Nat
         /\ (\A i \in 1..Len(stamps[c]) : stamps[c][i] \in Nat)
         /\ front[c] \in 1..(Len(stamps[c]) + 1)
      BY LogType
<1>5. Cardinality(Admitted(c, a, a + Window - Delay)) <= MaxRequests
      BY DEF LimitInv, AllWindows
<1>. DEFINE b == a + Window - Delay
            old == Admitted(c, a, b)
            new == Admitted(c, a, b)'
<1>6. CASE c # c0
  <2>1. stamps'[c] = stamps[c]  BY <1>1, <1>6 DEF TypeOK
  <2>2. new = old  BY <2>1 DEF Admitted
  <2>. QED  BY <1>5, <2>2
<1>7. CASE c = c0
  <2>. DEFINE o == OwnFront(r)
              len == Len(stamps[c])
  <2>1. stamps'[c] = Append(stamps[c], n0)  BY <1>1, <1>2, <1>7 DEF TypeOK
  <2>2. /\ Len(stamps'[c]) = len + 1
        /\ stamps'[c][len + 1] = n0
        /\ \A i \in 1..len : stamps'[c][i] = stamps[c][i]
        BY <1>2, <1>4, <2>1
  <2>3. CASE n0 \notin a..b
    <3>1. new = {i \in 1..(len + 1) : stamps'[c][i] \in a..b}
          BY <2>2 DEF Admitted
    <3>2. old = {i \in 1..len : stamps[c][i] \in a..b}
          BY DEF Admitted
    <3>3. \A i \in 1..(len + 1) : i = len + 1 \/ i \in 1..len
          BY <1>4
    <3>. HIDE DEF new, old, len, b
    <3>4. \A i \in new : i \in old
          BY <2>2, <2>3, <3>1, <3>2, <3>3
    <3>5. 1..len \subseteq 1..(len + 1)
          BY <1>4 DEF len
    <3>6. \A i \in old : i \in new
          BY <2>2, <3>1, <3>2, <3>5
    <3>7. new = old  BY <3>1, <3>2, <3>4, <3>6
    <3>. QED  BY <1>5, <3>7 DEF new, old, b
  <2>4. CASE n0 \in a..b
    <3>1. new \subseteq o..(len + 1)
      <4>. SUFFICES ASSUME NEW i \in new PROVE i \in o..(len + 1)
           OBVIOUS
      <4>1. i \in 1..(len + 1) /\ stamps'[c][i] \in a..b
            BY <2>2 DEF Admitted
      <4>2. ASSUME i \in 1..(o - 1)  PROVE FALSE
        <5>1. stamps[c][i] < clock - Window  BY <1>2, <1>7, <4>2
        <5>2. i \in 1..len  BY <1>2, <1>4, <1>7, <4>2
        <5>3. stamps[c][i] \in Nat /\ stamps[c][i] >= a  BY <1>4, <2>2, <4>1, <5>2
        <5>4. n0 <= a + Window - Delay  BY <2>4
        <5>. QED  BY <1>2, <1>3, <5>1, <5>3, <5>4
      <4>. QED  BY <1>2, <1>4, <1>7, <4>1, <4>2
    <3>2. len - o + 1 < MaxRequests
          BY <1>1, <1>2, <1>3, <1>4, <1>7 DEF Full
    <3>3. o \in 1..(len + 1)  BY <1>2, <1>4, <1>7
    <3>4. IsFiniteSet(o..(len + 1)) /\ Cardinality(o..(len + 1)) = len + 1 - o + 1
      <4>. HIDE DEF o, len
      <4>1. len \in Nat  BY <1>4 DEF len
      <4>. QED  BY <3>3, <4>1, FS_Interval
    <3>5. Cardinality(new) <= Cardinality(o..(len + 1))
          BY <3>1, <3>4, FS_Subset
    <3>6. Cardinality(new) \in Nat
          BY <3>1, <3>4, FS_Subset, FS_CardinalityType
    <3>. HIDE DEF o, len, new
    <3>7. len \in Nat  BY <1>4 DEF len
    <3>8. len + 1 - o + 1 <= MaxRequests  BY <1>3, <3>2, <3>3, <3>7
    <3>9. Cardinality(new) <= MaxRequests  BY <1>3, <3>3, <3>4, <3>5, <3>6, <3>7, <3>8
    <3>. QED  BY <3>9 DEF new
  <2>. QED  BY <2>3, <2>4
<1>. QED  BY <1>6, <1>7

\* The indices of the timestamps of a log in an interval.
StampsIn(log, a, b) == {i \in 1..Len(log) : log[i] \in a..b}

LEMMA AdmittedStamps ==
    ASSUME NEW c, NEW a, NEW b
    PROVE  Admitted(c, a, b) = StampsIn(stamps[c], a, b)
BY DEF Admitted, StampsIn

\* A log that is extended has no fewer timestamps in an interval that grows.
LEMMA AdmittedGrows ==
    ASSUME NEW s \in Seq(Nat), NEW t \in Seq(Nat), Len(s) <= Len(t),
           \A i \in 1..Len(s) : t[i] = s[i],
           NEW x \in Nat, NEW y \in Nat, x <= y, NEW a \in Int,
           Cardinality(StampsIn(s, a, x)) >= MaxRequests
    PROVE  Cardinality(StampsIn(t, a, y)) >= MaxRequests
<1>. USE DEF StampsIn
<1>. DEFINE old == {i \in 1..Len(s) : s[i] \in a..x}
            new == {i \in 1..Len(t) : t[i] \in a..y}
<1>1. Len(s) \in Nat /\ Len(t) \in Nat /\ (\A i \in 1..Len(s) : s[i] \in Nat)
      OBVIOUS
<1>2. old \subseteq new
  <2>. SUFFICES ASSUME NEW i \in old PROVE i \in new
       OBVIOUS
  <2>1. i \in 1..Len(s) /\ s[i] \in a..x  OBVIOUS
  <2>2. i \in 1..Len(t)  BY <1>1, <2>1
  <2>3. t[i] \in a..y  BY <1>1, <2>1
  <2>. QED  BY <2>2, <2>3
<1>3. IsFiniteSet(1..Len(t))  BY <1>1, FS_Interval
<1>4. IsFiniteSet(new)
  <2>1. new \in SUBSET (1..Len(t))  OBVIOUS
  <2>. QED  BY <1>3, <2>1, FS_Subset
<1>5. Cardinality(old) >= MaxRequests  OBVIOUS
<1>. HIDE DEF old, new
<1>6. /\ Cardinality(old) <= Cardinality(new)
      /\ Cardinality(old) \in Nat /\ Cardinality(new) \in Nat
      BY <1>2, <1>4, FS_Subset, FS_CardinalityType
<1>7. MaxRequests \in Nat  BY LimitAssumption
<1>8. Cardinality(new) >= MaxRequests  BY <1>5, <1>6, <1>7
<1>. QED  BY <1>8 DEF new

LEMMA AdmitStep ==
    ASSUME LimitInv, NEW r \in Requests, Admit(r)
    PROVE  LimitInv'
<1>. DEFINE c0 == request[r].client
            n0 == request[r].now
<1>. TypeOK  BY DEF LimitInv
<1>1. /\ Prune(r) /\ ~Full(r) /\ refusal' = refusal
      /\ stamps' = [stamps EXCEPT ![c0] = Append(@, n0)]
      BY DEF Admit
<1>2. /\ c0 \in Clients /\ n0 \in Nat /\ n0 <= clock /\ clock <= n0 + Delay
      /\ front' \in [Clients -> Nat] /\ front'[c0] = OwnFront(r)
      /\ lastPurge' \in Nat /\ lastPurge' <= clock
      /\ lastRun' = clock /\ clock <= lastPurge' + PurgeInterval
      /\ clock' = clock /\ clock \in Nat
      /\ request' \in [Requests -> Waiting \cup {Idle}]
      /\ Waits'
      BY <1>1, PruneEffect DEF Waiting
<1>3. ASSUME NEW c \in Clients
      PROVE  /\ front'[c] \in front[c]..(Len(stamps[c]) + 1)
             /\ \A i \in 1..(front'[c] - 1) : stamps[c][i] < clock - Window
             /\ front'[c] <= Len(stamps[c]) =>
                   stamps[c][front'[c]] + Window + Delay >= lastPurge'
      BY <1>1, PruneEffect
<1>4. Window \in Nat /\ Delay \in Nat /\ MaxRequests \in Nat \ {0}
      BY WindowType, LimitAssumption
<1>5. ASSUME NEW c \in Clients
      PROVE  /\ stamps[c] \in Seq(Nat) /\ Len(stamps[c]) \in Nat
             /\ \A i \in 1..Len(stamps[c]) : stamps[c][i] \in Nat
             /\ front[c] \in 1..(Len(stamps[c]) + 1)
      BY LogType
<1>6. ASSUME NEW c \in Clients
      PROVE  /\ stamps'[c] \in Seq(Nat)
             /\ \A i \in 1..Len(stamps[c]) : stamps'[c][i] = stamps[c][i]
             /\ \/ Len(stamps'[c]) = Len(stamps[c]) /\ c # c0
                \/ /\ Len(stamps'[c]) = Len(stamps[c]) + 1 /\ c = c0
                   /\ stamps'[c][Len(stamps[c]) + 1] = n0
  <2>1. CASE c = c0
    <3>1. stamps'[c] = Append(stamps[c], n0)  BY <1>1, <1>2, <2>1 DEF TypeOK
    <3>. QED  BY <1>2, <1>5, <2>1, <3>1
  <2>2. CASE c # c0
    <3>1. stamps'[c] = stamps[c]  BY <1>1, <2>2 DEF TypeOK
    <3>. QED  BY <1>5, <2>2, <3>1
  <2>. QED  BY <2>1, <2>2
<1>7. TypeOK'
  <2>1. stamps' \in [Clients -> Seq(Nat)]  BY <1>1, <1>6 DEF TypeOK
  <2>2. \A c \in Clients : front'[c] \in 1..(Len(stamps'[c]) + 1)
        BY <1>3, <1>5, <1>6
  <2>3. refusal' \in [Clients -> Refusal \cup {None}]  BY <1>1 DEF TypeOK
  <2>. QED  BY <1>2, <2>1, <2>2, <2>3 DEF TypeOK
<1>8. PastStamps'
  <2>. SUFFICES ASSUME NEW c \in Clients, NEW i \in 1..Len(stamps'[c])
                PROVE  stamps'[c][i] <= clock'
       BY DEF PastStamps
  <2>1. CASE i \in 1..Len(stamps[c])
        BY <1>2, <1>6, <2>1 DEF LimitInv, PastStamps
  <2>2. CASE i \notin 1..Len(stamps[c])
    <3>1. Len(stamps'[c]) \in Nat  BY <1>5, <1>6
    <3>2. c = c0 /\ i = Len(stamps[c]) + 1  BY <1>5, <1>6, <2>2, <3>1
    <3>3. stamps'[c][i] = n0  BY <1>5, <1>6, <3>2
    <3>. QED  BY <1>2, <3>3
  <2>. QED  BY <2>1, <2>2
<1>9. DroppedOld'
  <2>. SUFFICES ASSUME NEW c \in Clients, NEW i \in 1..(front'[c] - 1)
                PROVE  stamps'[c][i] < clock' - Window
       BY DEF DroppedOld, Window
  <2>1. i \in 1..Len(stamps[c])  BY <1>3, <1>5
  <2>. QED  BY <1>2, <1>3, <1>6, <2>1
<1>10. SizeBounded'
  <2>. SUFFICES ASSUME NEW c \in Clients
                PROVE  Len(stamps'[c]) - front'[c] + 1 <= MaxRequests
       BY DEF SizeBounded
  <2>1. CASE c = c0
    <3>1. Len(stamps[c]) - front'[c] + 1 < MaxRequests
          BY <1>1, <1>2, <1>3, <1>4, <1>5, <2>1 DEF Full
    <3>2. Len(stamps'[c]) = Len(stamps[c]) + 1  BY <1>6, <2>1
    <3>. QED  BY <1>2, <1>4, <1>5, <3>1, <3>2
  <2>2. CASE c # c0
    <3>1. Len(stamps[c]) - front[c] + 1 <= MaxRequests  BY DEF LimitInv, SizeBounded
    <3>2. front'[c] \in Nat /\ front'[c] >= front[c]  BY <1>3, <1>5
    <3>. QED  BY <1>4, <1>5, <1>6, <2>2, <3>1, <3>2
  <2>. QED  BY <2>1, <2>2
<1>11. NearlySorted'
  <2>. SUFFICES ASSUME NEW c \in Clients, NEW i \in 1..Len(stamps'[c]),
                       NEW j \in 1..Len(stamps'[c]), i < j
                PROVE  stamps'[c][i] <= stamps'[c][j] + Delay
       BY DEF NearlySorted
  <2>1. i \in 1..Len(stamps[c])  BY <1>5, <1>6
  <2>2. stamps'[c][i] = stamps[c][i] /\ stamps[c][i] \in Nat  BY <1>5, <1>6, <2>1
  <2>3. CASE j \in 1..Len(stamps[c])
        BY <1>6, <2>1, <2>3 DEF LimitInv, NearlySorted
  <2>4. CASE j \notin 1..Len(stamps[c])
    <3>1. stamps'[c][j] = n0  BY <1>5, <1>6, <2>4
    <3>2. stamps[c][i] <= clock  BY <2>1 DEF LimitInv, PastStamps
    <3>. QED  BY <1>2, <1>4, <2>2, <3>1, <3>2
  <2>. QED  BY <2>3, <2>4
<1>12. AllWindows'  BY AdmitKeepsWindows
<1>13. RefusalDeserved'
  <2>. SUFFICES ASSUME NEW c \in Clients, refusal'[c] # None
                PROVE  Cardinality(Admitted(c, refusal[c].at - Window - Delay, clock))'
                          >= MaxRequests
       BY DEF RefusalDeserved, None, Window
  <2>1. refusal[c] \in Refusal /\ refusal[c] # None  BY <1>1 DEF TypeOK, None
  <2>2. PICK a \in Int : a = refusal[c].at - Window - Delay
        BY <1>4, <2>1 DEF Refusal
  <2>3. Cardinality(Admitted(c, a, clock)) >= MaxRequests
        BY <2>1, <2>2 DEF LimitInv, RefusalDeserved
  <2>4. Len(stamps[c]) <= Len(stamps'[c])  BY <1>5, <1>6
  <2>5. Cardinality(StampsIn(stamps'[c], a, clock')) >= MaxRequests
    <3>1. Cardinality(StampsIn(stamps[c], a, clock)) >= MaxRequests
          BY <2>3, AdmittedStamps
    <3>2. stamps[c] \in Seq(Nat) /\ stamps'[c] \in Seq(Nat)  BY <1>5, <1>6
    <3>3. \A i \in 1..Len(stamps[c]) : stamps'[c][i] = stamps[c][i]  BY <1>6
    <3>4. clock \in Nat /\ clock' \in Nat /\ clock <= clock'  BY <1>2
    <3>. QED  BY <2>4, <3>1, <3>2, <3>3, <3>4, AdmittedGrows
  <2>. QED  BY <1>1, <2>2, <2>5 DEF Window, Admitted, StampsIn
<1>14. RefusalExplained'
  <2>. SUFFICES ASSUME NEW c \in Clients
                PROVE  /\ refusal[c].count <= Len(stamps'[c])
                       /\ refusal[c].count = Len(stamps'[c]) => c # c0
                             /\ Len(stamps'[c]) = Len(stamps[c])
    <3>1. ASSUME NEW c \in Clients, c # c0  PROVE stamps'[c] = stamps[c]
          BY <1>1, <3>1 DEF TypeOK
    <3>. QED  BY <1>1, <3>1 DEF RefusalExplained, LimitInv
  <2>1. refusal[c] \in Refusal \cup {None}  BY DEF TypeOK
  <2>2. refusal[c].count \in Int  BY <2>1 DEF Refusal, None
  <2>3. refusal[c].count <= Len(stamps[c])  BY DEF LimitInv, RefusalExplained
  <2>. QED  BY <1>5, <1>6, <2>2, <2>3
<1>15. PurgeInv'
  <2>. SUFFICES ASSUME NEW c \in Clients, front'[c] <= Len(stamps'[c])
                PROVE  stamps'[c][front'[c]] + Window + Delay >= lastPurge'
       BY <1>2 DEF PurgeInv, Window, PurgeInterval
  <2>1. CASE front'[c] \in 1..Len(stamps[c])
        BY <1>3, <1>6, <2>1
  <2>2. CASE front'[c] \notin 1..Len(stamps[c])
    <3>1. front'[c] = Len(stamps[c]) + 1 /\ c = c0
          BY <1>3, <1>5, <1>6, <2>2
    <3>2. stamps'[c][front'[c]] = n0  BY <1>5, <1>6, <3>1
    <3>. QED  BY <1>2, <1>4, <3>2
  <2>. QED  BY <2>1, <2>2
<1>. QED  BY <1>2, <1>7, <1>8, <1>9, <1>10, <1>11, <1>12, <1>13, <1>14, <1>15 DEF LimitInv

\* A client is refused when its deque holds exactly MaxRequests timestamps, all
\* of them in the window before the request, give or take Delay.
LEMMA RefusedWhenFull ==
    ASSUME LimitInv, NEW r \in Requests, Prune(r), Full(r),
           NEW c \in Clients, c = request[r].client
    PROVE  /\ OwnFront(r) \in 1..Len(stamps[c])
           /\ OwnFront(r) = Len(stamps[c]) - MaxRequests + 1
           /\ Cardinality(Admitted(c, request[r].now - Window - Delay, clock))
                 >= MaxRequests
<1>. DEFINE n == request[r].now
            s == stamps[c]
            f == OwnFront(r)
            a == n - Window - Delay
<1>. TypeOK  BY DEF LimitInv
<1>1. /\ n \in Nat /\ n <= clock /\ clock \in Nat
      /\ f \in front[c]..(Len(s) + 1)
      /\ f <= Len(s) => s[f] >= n - Window
      BY PruneEffect DEF Waiting
<1>2. Window \in Nat /\ Delay \in Nat /\ MaxRequests \in Nat \ {0}
      BY WindowType, LimitAssumption
<1>3. Len(s) \in Nat /\ front[c] \in 1..(Len(s) + 1)
         /\ (\A i \in 1..Len(s) : s[i] \in Nat)
      BY LogType
<1>4. Len(s) - f + 1 >= MaxRequests  BY DEF Full
<1>5. Len(s) - front[c] + 1 <= MaxRequests  BY DEF LimitInv, SizeBounded
<1>. HIDE DEF s, f, n
<1>6. f \in 1..Len(s) /\ f = Len(s) - MaxRequests + 1
  <2>1. f \in Nat /\ front[c] \in Nat /\ front[c] <= f /\ 1 <= f  BY <1>1, <1>3
  <2>2. f = Len(s) - MaxRequests + 1
    <3>1. PICK len \in Nat : len = Len(s)  BY <1>3
    <3>2. PICK g \in Nat : g = front[c]  BY <2>1
    <3>3. len - f + 1 >= MaxRequests /\ len - g + 1 <= MaxRequests /\ g <= f
          BY <1>4, <1>5, <2>1, <3>1, <3>2
    <3>. QED  BY <1>2, <2>1, <3>1, <3>3
  <2>. QED  BY <1>2, <1>3, <2>1, <2>2
<1>7. f..Len(s) \subseteq StampsIn(s, a, clock)
  <2>. SUFFICES ASSUME NEW i \in f..Len(s) PROVE i \in StampsIn(s, a, clock)
       OBVIOUS
  <2>1. i \in 1..Len(s)  BY <1>3, <1>6
  <2>2. s[i] \in Nat /\ s[f] \in Nat  BY <1>3, <1>6, <2>1
  <2>3. s[i] <= clock  BY <2>1 DEF LimitInv, PastStamps, s
  <2>4. s[f] >= n - Window  BY <1>1, <1>6
  <2>5. s[f] <= s[i] + Delay
    <3>1. CASE i = f  BY <1>2, <2>2, <3>1
    <3>2. CASE i # f
      <4>1. f < i  BY <1>6, <3>2
      <4>. QED  BY <1>6, <2>1, <4>1 DEF LimitInv, NearlySorted, s
    <3>. QED  BY <3>1, <3>2
  <2>6. a \in Int /\ a <= s[i]  BY <1>1, <1>2, <2>2, <2>4, <2>5
  <2>7. s[i] \in a..clock  BY <1>1, <2>2, <2>3, <2>6
  <2>. QED  BY <2>1, <2>7 DEF StampsIn
<1>8. IsFiniteSet(StampsIn(s, a, clock))
      BY AdmittedFinite, AdmittedStamps, LogType DEF s
<1>. HIDE DEF a
<1>9. Cardinality(f..Len(s)) = Len(s) - f + 1
      BY <1>3, <1>6, FS_Interval
<1>10. Cardinality(f..Len(s)) <= Cardinality(StampsIn(s, a, clock))
       BY <1>7, <1>8, FS_Subset
<1>11. Cardinality(StampsIn(s, a, clock)) \in Nat
       BY <1>8, FS_CardinalityType
<1>12. Cardinality(StampsIn(s, a, clock)) >= MaxRequests
       BY <1>2, <1>3, <1>4, <1>6, <1>9, <1>10, <1>11 DEF s, f
<1>. QED  BY <1>6, <1>12, AdmittedStamps DEF s, f, a, n

LEMMA RefuseStep ==
    ASSUME LimitInv, NEW r \in Requests, Refuse(r)
    PROVE  LimitInv'
<1>. DEFINE c0 == request[r].client
            n0 == request[r].now
            new == [at |-> n0, retry |-> RetryAfter(r), count |-> Len(stamps[c0])]
<1>. TypeOK  BY DEF LimitInv
<1>1. /\ Prune(r) /\ Full(r) /\ stamps' = stamps
      /\ refusal' = [refusal EXCEPT ![c0] = new]
      BY DEF Refuse
<1>2. /\ c0 \in Clients /\ n0 \in Nat /\ n0 <= clock /\ clock <= n0 + Delay
      /\ front' \in [Clients -> Nat]
      /\ lastPurge' \in Nat /\ lastPurge' <= clock
      /\ lastRun' = clock /\ clock <= lastPurge' + PurgeInterval
      /\ clock' = clock /\ clock \in Nat
      /\ request' \in [Requests -> Waiting \cup {Idle}]
      /\ Waits'
      BY <1>1, PruneEffect DEF Waiting
<1>3. ASSUME NEW c \in Clients
      PROVE  /\ front'[c] \in front[c]..(Len(stamps[c]) + 1)
             /\ \A i \in 1..(front'[c] - 1) : stamps[c][i] < clock - Window
             /\ front'[c] <= Len(stamps[c]) =>
                   stamps[c][front'[c]] + Window + Delay >= lastPurge'
      BY <1>1, PruneEffect
<1>4. Window \in Nat /\ Delay \in Nat /\ MaxRequests \in Nat \ {0}
      BY WindowType, LimitAssumption
<1>5. ASSUME NEW c \in Clients
      PROVE  /\ Len(stamps[c]) \in Nat
             /\ \A i \in 1..Len(stamps[c]) : stamps[c][i] \in Nat
             /\ front[c] \in 1..(Len(stamps[c]) + 1)
      BY LogType
<1>6. /\ OwnFront(r) \in 1..Len(stamps[c0])
      /\ OwnFront(r) = Len(stamps[c0]) - MaxRequests + 1
      /\ Cardinality(Admitted(c0, n0 - Window - Delay, clock)) >= MaxRequests
      BY <1>1, <1>2, RefusedWhenFull
<1>7. /\ RetryAfter(r) \in Nat \ {0}
      /\ stamps[c0][OwnFront(r)] + Window
            < n0 + (RetryAfter(r) + 1) * TicksPerSecond
  <2>1. stamps[c0][OwnFront(r)] \in Nat  BY <1>2, <1>5, <1>6
  <2>. QED  BY <1>2, <2>1, RetryAfterType
<1>8. new \in Refusal  BY <1>2, <1>5, <1>7 DEF Refusal
<1>9. \A c \in Clients : refusal'[c] = IF c = c0 THEN new ELSE refusal[c]
      BY <1>1, <1>2 DEF TypeOK
<1>10. TypeOK'
  <2>1. refusal' \in [Clients -> Refusal \cup {None}]  BY <1>1, <1>8 DEF TypeOK
  <2>2. \A c \in Clients : front'[c] \in 1..(Len(stamps[c]) + 1)  BY <1>3, <1>5
  <2>. QED  BY <1>1, <1>2, <2>1, <2>2 DEF TypeOK
<1>11. PastStamps' /\ NearlySorted'
       BY <1>1, <1>2 DEF LimitInv, PastStamps, NearlySorted
<1>12. DroppedOld'  BY <1>1, <1>2, <1>3 DEF DroppedOld, Window
<1>13. SizeBounded'
  <2>. SUFFICES ASSUME NEW c \in Clients
                PROVE  Len(stamps[c]) - front'[c] + 1 <= MaxRequests
       BY <1>1 DEF SizeBounded
  <2>1. Len(stamps[c]) - front[c] + 1 <= MaxRequests  BY DEF LimitInv, SizeBounded
  <2>. QED  BY <1>3, <1>4, <1>5, <2>1
<1>14. AllWindows'  BY <1>1 DEF LimitInv, AllWindows, Admitted, Window
<1>15. RefusalDeserved'
  <2>. SUFFICES ASSUME NEW c \in Clients, refusal'[c] # None
                PROVE  Cardinality(Admitted(c, refusal'[c].at - Window - Delay, clock))
                          >= MaxRequests
       BY <1>1, <1>2 DEF RefusalDeserved, None, Window, Admitted
  <2>1. CASE c = c0  BY <1>6, <1>9, <2>1
  <2>2. CASE c # c0
        BY <1>9, <2>2 DEF LimitInv, RefusalDeserved
  <2>. QED  BY <2>1, <2>2
<1>16. RefusalExplained'
  <2>. SUFFICES ASSUME NEW c \in Clients
                PROVE  /\ refusal'[c].count <= Len(stamps[c])
                       /\ refusal'[c].count = Len(stamps[c]) =>
                            LET i == Len(stamps[c]) - MaxRequests + 1
                            IN  /\ i \in 1..Len(stamps[c])
                                /\ stamps[c][i] + Window < refusal'[c].at
                                      + (refusal'[c].retry + 1) * TicksPerSecond
       BY <1>1 DEF RefusalExplained, Window
  <2>1. CASE c = c0
    <3>1. refusal'[c] = new  BY <1>9, <2>1
    <3>. QED  BY <1>5, <1>6, <1>7, <2>1, <3>1
  <2>2. CASE c # c0
    <3>1. refusal'[c] = refusal[c]  BY <1>9, <2>2
    <3>. QED  BY <3>1 DEF LimitInv, RefusalExplained
  <2>. QED  BY <2>1, <2>2
<1>17. PurgeInv'
       BY <1>1, <1>2, <1>3 DEF PurgeInv, Window, PurgeInterval
<1>. QED  BY <1>2, <1>10, <1>11, <1>12, <1>13, <1>14, <1>15, <1>16, <1>17 DEF LimitInv

-----------------------------------------------------------------------------
(* The other steps *)

LEMMA ArriveStep ==
    ASSUME LimitInv, NEW r \in Requests, NEW c \in Clients, Arrive(r, c)
    PROVE  LimitInv'
<1>. DEFINE new == [pc |-> "waiting", client |-> c, now |-> clock]
<1>1. /\ request' = [request EXCEPT ![r] = new]
      /\ UNCHANGED <<clock, stamps, front, lastPurge, refusal, lastRun>>
      BY DEF Arrive
<1>2. TypeOK  BY DEF LimitInv
<1>3. new \in Waiting  BY <1>2 DEF TypeOK, Waiting
<1>4. TypeOK'  BY <1>1, <1>2, <1>3 DEF TypeOK
<1>5. Waits'
  <2>. SUFFICES ASSUME NEW x \in Requests, request'[x].pc = "waiting"
                PROVE  request'[x].now <= clock /\ clock <= request'[x].now + Delay
       BY <1>1 DEF Waits
  <2>1. clock \in Nat /\ Delay \in Nat  BY <1>2, LimitAssumption DEF TypeOK
  <2>2. CASE x = r  BY <1>1, <1>2, <2>1, <2>2 DEF TypeOK
  <2>3. CASE x # r  BY <1>1, <1>2, <2>3 DEF TypeOK, LimitInv, Waits
  <2>. QED  BY <2>2, <2>3
<1>6. (PastStamps /\ DroppedOld /\ SizeBounded /\ NearlySorted /\ AllWindows
         /\ RefusalDeserved /\ RefusalExplained /\ PurgeInv)'
      BY <1>1 DEF LimitInv, PastStamps, DroppedOld, SizeBounded, NearlySorted,
                  AllWindows, RefusalDeserved, RefusalExplained, PurgeInv,
                  Admitted, Window, PurgeInterval
<1>. QED  BY <1>4, <1>5, <1>6 DEF LimitInv

LEMMA TickStep ==
    ASSUME LimitInv, Tick
    PROVE  LimitInv'
<1>1. /\ clock' = clock + 1
      /\ UNCHANGED <<stamps, front, lastPurge, request, refusal, lastRun>>
      /\ \A r \in Requests : request[r].pc = "waiting" => clock < request[r].now + Delay
      BY DEF Tick
<1>2. TypeOK  BY DEF LimitInv
<1>3. clock \in Nat /\ Window \in Nat /\ Delay \in Nat
      BY <1>2, WindowType, LimitAssumption DEF TypeOK
<1>4. TypeOK'  BY <1>1, <1>2 DEF TypeOK
<1>5. Waits'
  <2>. SUFFICES ASSUME NEW r \in Requests, request[r].pc = "waiting"
                PROVE  request[r].now <= clock + 1 /\ clock + 1 <= request[r].now + Delay
       BY <1>1 DEF Waits
  <2>1. request[r].now \in Nat  BY <1>2, WaitingRequests DEF Waiting
  <2>. QED  BY <1>1, <1>3, <2>1 DEF LimitInv, Waits
<1>6. PastStamps'
  <2>. SUFFICES ASSUME NEW c \in Clients, NEW i \in 1..Len(stamps[c])
                PROVE  stamps[c][i] <= clock + 1
       BY <1>1 DEF PastStamps
  <2>1. stamps[c][i] \in Nat  BY <1>2, LogType
  <2>. QED  BY <1>3, <2>1 DEF LimitInv, PastStamps
<1>7. DroppedOld'
  <2>. SUFFICES ASSUME NEW c \in Clients, NEW i \in 1..(front'[c] - 1)
                PROVE  stamps'[c][i] < clock' - Window
       BY DEF DroppedOld, Window
  <2>0. i \in 1..(front[c] - 1) /\ stamps'[c][i] = stamps[c][i]  BY <1>1
  <2>1. i \in 1..Len(stamps[c])  BY <1>2, <2>0, LogType
  <2>2. stamps[c][i] \in Nat  BY <1>2, <2>1, LogType
  <2>3. stamps[c][i] < clock - Window  BY <2>0 DEF LimitInv, DroppedOld
  <2>. QED  BY <1>1, <1>3, <2>0, <2>2, <2>3
<1>8. (SizeBounded /\ NearlySorted /\ AllWindows /\ RefusalExplained)'
      BY <1>1 DEF LimitInv, SizeBounded, NearlySorted, AllWindows,
                  RefusalExplained, Admitted, Window
<1>9. RefusalDeserved'
  <2>. SUFFICES ASSUME NEW c \in Clients, refusal[c] # None
                PROVE  Cardinality(Admitted(c, refusal[c].at - Window - Delay, clock + 1))
                          >= MaxRequests
       BY <1>1 DEF RefusalDeserved, None, Window, Admitted
  <2>1. refusal[c] \in Refusal  BY <1>2 DEF TypeOK
  <2>2. PICK a \in Int : a = refusal[c].at - Window - Delay
        BY <1>3, <2>1 DEF Refusal
  <2>3. Cardinality(StampsIn(stamps[c], a, clock)) >= MaxRequests
        BY <2>2, AdmittedStamps DEF LimitInv, RefusalDeserved
  <2>4. stamps[c] \in Seq(Nat) /\ Len(stamps[c]) \in Nat  BY <1>2, LogType
  <2>5. clock + 1 \in Nat /\ clock <= clock + 1 /\ Len(stamps[c]) <= Len(stamps[c])
        BY <1>3, <2>4
  <2>6. Cardinality(StampsIn(stamps[c], a, clock + 1)) >= MaxRequests
        BY <1>3, <2>3, <2>4, <2>5, AdmittedGrows
  <2>. QED  BY <2>2, <2>6, AdmittedStamps
<1>10. PurgeInv'
  <2>1. lastPurge \in Nat  BY <1>2 DEF TypeOK
  <2>. QED  BY <1>1, <1>3, <2>1 DEF LimitInv, PurgeInv, Window, PurgeInterval
<1>. QED  BY <1>4, <1>5, <1>6, <1>7, <1>8, <1>9, <1>10 DEF LimitInv

LEMMA LimitInvStep == LimitInv /\ [Next]_vars => LimitInv'
<1>. SUFFICES ASSUME LimitInv, [Next]_vars PROVE LimitInv'
     OBVIOUS
<1>1. ASSUME NEW r \in Requests, NEW c \in Clients, Arrive(r, c)  PROVE LimitInv'
      BY <1>1, ArriveStep
<1>2. ASSUME NEW r \in Requests, Admit(r)  PROVE LimitInv'
      BY <1>2, AdmitStep
<1>3. ASSUME NEW r \in Requests, Refuse(r)  PROVE LimitInv'
      BY <1>3, RefuseStep
<1>4. CASE Tick  BY <1>4, TickStep
<1>5. CASE UNCHANGED vars
      BY <1>5 DEF vars, LimitInv, TypeOK, Waits, PastStamps, DroppedOld, SizeBounded,
                  NearlySorted, AllWindows, RefusalDeserved, RefusalExplained,
                  PurgeInv, Admitted, Window, PurgeInterval
<1>. QED  BY <1>1, <1>2, <1>3, <1>4, <1>5 DEF Next

LEMMA LimitInvariant == Spec => []LimitInv
BY InitLimitInv, LimitInvStep, PTL DEF Spec

-----------------------------------------------------------------------------
(* Theorems *)

\* The front of a deque stays within its log, and requests and refusals keep
\* their fields, whatever is admitted, refused, pruned and purged.
THEOREM TypeCorrect == Spec => []TypeOK
<1>1. LimitInv => TypeOK  BY DEF LimitInv
<1>. QED  BY <1>1, LimitInvariant, PTL

\* However long requests wait for the mutex after reading the clock, and
\* whichever purges run meanwhile, no interval of a window's length less Delay
\* has more than MaxRequests admissions of one client.
THEOREM WindowBounded == Spec => []WindowBound
<1>1. LimitInv => WindowBound
  <2>1. LimitInv => \A a \in 0..clock : a \in Nat  BY DEF LimitInv, TypeOK
  <2>. QED  BY <2>1 DEF LimitInv, AllWindows, WindowBound
<1>. QED  BY <1>1, LimitInvariant, PTL

\* A client is refused only after MaxRequests admissions in the last window,
\* give or take Delay.
THEOREM RefusalsDeserved == Spec => []RefusalDeserved
<1>1. LimitInv => RefusalDeserved  BY DEF LimitInv
<1>. QED  BY <1>1, LimitInvariant, PTL

\* A client that nothing was admitted for since its refusal is not refused
\* again once it has waited one second more than Retry-After.
THEOREM RetryAfterIsEnough == Spec => RetryAfterSuffices
<1>. DEFINE Step == \A c \in Clients :
          /\ refusal[c] # None
          /\ refusal'[c].count = refusal[c].count
          => refusal'[c].at = refusal[c].at
             \/ refusal'[c].at < refusal[c].at + (refusal[c].retry + 1) * TicksPerSecond
<1>1. LimitInv /\ [Next]_vars => [Step]_vars
  <2>. SUFFICES ASSUME LimitInv, Next, NEW c \in Clients, refusal[c] # None,
                       refusal'[c].count = refusal[c].count,
                       refusal'[c].at # refusal[c].at
                PROVE  refusal'[c].at < refusal[c].at
                          + (refusal[c].retry + 1) * TicksPerSecond
       OBVIOUS
  <2>. TypeOK  BY DEF LimitInv
  <2>1. PICK r \in Requests : Refuse(r)
        BY DEF Next, Arrive, Admit, Tick
  <2>2. c = request[r].client
    <3>1. ASSUME c # request[r].client  PROVE refusal'[c] = refusal[c]
          BY <2>1, <3>1 DEF Refuse, TypeOK
    <3>. QED  BY <3>1
  <2>3. refusal'[c].count = Len(stamps[c]) /\ refusal'[c].at = request[r].now
        BY <2>1, <2>2 DEF Refuse, TypeOK
  <2>4. /\ OwnFront(r) \in 1..Len(stamps[c])
        /\ OwnFront(r) = Len(stamps[c]) - MaxRequests + 1
        BY <2>1, <2>2, RefusedWhenFull DEF Refuse
  <2>5. stamps[c][OwnFront(r)] >= request[r].now - Window
    <3>1. OwnFront(r) <= Len(stamps[c])  BY <2>4, LogType
    <3>. QED  BY <2>1, <2>2, <3>1, PruneEffect DEF Refuse
  <2>6. stamps[c][OwnFront(r)] + Window
            < refusal[c].at + (refusal[c].retry + 1) * TicksPerSecond
        BY <2>3, <2>4 DEF LimitInv, RefusalExplained
  <2>7. /\ stamps[c][OwnFront(r)] \in Nat /\ request[r].now \in Nat
        /\ Window \in Nat
        BY <2>1, <2>4, LogType, WindowType, PruneEffect DEF Refuse, Waiting
  <2>8. refusal[c] \in Refusal /\ TicksPerSecond \in Nat
        BY LimitAssumption DEF TypeOK
  <2>9. (refusal[c].retry + 1) * TicksPerSecond \in Int /\ refusal[c].at \in Nat
        BY <2>8 DEF Refusal
  <2>. HIDE DEF Step
  <2>10. PICK b \in Int : b = (refusal[c].retry + 1) * TicksPerSecond
        BY <2>9
  <2>11. request[r].now < refusal[c].at + b
        BY <2>5, <2>6, <2>7, <2>9, <2>10
  <2>. QED  BY <2>3, <2>10, <2>11
<1>2. LimitInv /\ [Next]_vars => [Step]_vars  BY <1>1
<1>. HIDE DEF Step
<1>3. Spec => [][Step]_vars  BY <1>2, LimitInvariant, PTL DEF Spec
<1>. QED  BY <1>3 DEF Step, RetryAfterSuffices

\* A client has an entry after a critical section only if it was active in the
\* last window and purge interval.
THEOREM SilentClientsForgotten == Spec => []IdleClientsForgotten
<1>1. LimitInv => IdleClientsForgotten
  <2>. SUFFICES ASSUME LimitInv, NEW c \in Clients, front[c] <= Len(stamps[c])
                PROVE  \E i \in front[c]..Len(stamps[c]) :
                          stamps[c][i] + Window + Delay + PurgeInterval >= lastRun
       BY DEF IdleClientsForgotten
  <2>. TypeOK  BY DEF LimitInv
  <2>1. front[c] \in front[c]..Len(stamps[c]) /\ front[c] \in 1..Len(stamps[c])
        BY LogType
  <2>2. stamps[c][front[c]] \in Nat  BY <2>1, LogType
  <2>3. stamps[c][front[c]] + Window + Delay >= lastPurge
           /\ lastRun <= lastPurge + PurgeInterval
        BY DEF LimitInv, PurgeInv
  <2>4. Window \in Nat /\ Delay \in Nat /\ PurgeInterval \in Nat
           /\ lastPurge \in Nat /\ lastRun \in Nat
        BY WindowType, LimitAssumption DEF TypeOK
  <2>5. stamps[c][front[c]] + Window + Delay + PurgeInterval >= lastRun
        BY <2>2, <2>3, <2>4
  <2>. QED  BY <2>1, <2>5
<1>. QED  BY <1>1, LimitInvariant, PTL
=============================================================================
