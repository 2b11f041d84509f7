----------------------------- MODULE RateLimiter -----------------------------
(***************************************************************************)
(* RateLimitFilter: a sliding window of admissions per client, kept for    *)
(* all event loops under one mutex.                                        *)
(*                                                                         *)
(* doFilter reads the clock before it locks the mutex, so a request may    *)
(* enter the critical section with a time that others have overtaken:      *)
(* Arrive is the code before the lock, Admit and Refuse are the two ways   *)
(* through the critical section.                                           *)
(*                                                                         *)
(* A deque only loses elements at its front and gains them at its back, so *)
(* it is modelled by the log of everything ever pushed on it and by the    *)
(* index of its front in that log.  A client without an entry in clients_  *)
(* is one whose deque is empty: a request leaves none behind that is.      *)
(***************************************************************************)
EXTENDS Integers, Sequences, FiniteSets

CONSTANTS
    Requests,        \* requests that may be in doFilter at the same time
    Clients,         \* what getClientIp returns
    MaxRequests,     \* RATE_LIMIT_MAX
    WindowSeconds,   \* RATE_LIMIT_WINDOW
    PurgeSeconds,    \* purgeInterval_
    TicksPerSecond,  \* resolution of the clock
    Delay,           \* longest time, in ticks, a request waits for the mutex
    MaxTime          \* bound on the clock

\* A limit of zero would make Refuse read the front of an empty deque.
ASSUME LimitAssumption ==
    /\ MaxRequests \in Nat \ {0}
    /\ WindowSeconds \in Nat
    /\ PurgeSeconds \in Nat
    /\ TicksPerSecond \in Nat \ {0}
    /\ Delay \in Nat
    /\ MaxTime \in Nat

VARIABLES
    clock,      \* the steady clock, in ticks
    stamps,     \* stamps[c]: every timestamp pushed on the deque of c, in order
    front,      \* front[c]: index in stamps[c] of the front of the deque of c
    lastPurge,  \* when the records of all clients were last pruned
    request,    \* request[r]: the call of doFilter r
    refusal,    \* history: refusal[c] is the latest refusal of c
    lastRun     \* history: when a critical section was last executed

vars == <<clock, stamps, front, lastPurge, request, refusal, lastRun>>

Window        == WindowSeconds * TicksPerSecond
PurgeInterval == PurgeSeconds * TicksPerSecond

Idle    == [pc |-> "idle"]
Waiting == [pc : {"waiting"}, client : Clients, now : Nat]

\* at: the time the request had read; retry: the Retry-After header, in
\* seconds; count: how many requests of the client had been admitted.
Refusal == [at : Nat, retry : Nat \ {0}, count : Nat]
None    == [at |-> 0, retry |-> 1, count |-> -1]

Init ==
    /\ clock = 0
    /\ stamps = [c \in Clients |-> <<>>]
    /\ front = [c \in Clients |-> 1]
    /\ lastPurge = 0
    /\ request = [r \in Requests |-> Idle]
    /\ refusal = [c \in Clients |-> None]
    /\ lastRun = 0

-----------------------------------------------------------------------------

\* The deque of c, from index i on, is left with nothing but its end or with a
\* front that is not older than the cutoff.
PrunedTo(c, i, cutoff) ==
    CHOOSE j \in i..(Len(stamps[c]) + 1) :
        /\ \A k \in i..(j - 1) : stamps[c][k] < cutoff
        /\ j <= Len(stamps[c]) => stamps[c][j] >= cutoff

\* It is time to prune the records of all clients.
PurgeDue == clock - lastPurge >= PurgeInterval

\* Mutant of PurgeFront: only the record of the requesting client is pruned.
PurgeFrontSkips(c) == front[c]

\* Where purgeStaleClients, which reads the clock anew, leaves the front of c.
PurgeFront(c) == IF PurgeDue THEN PrunedTo(c, front[c], clock - Window) ELSE front[c]

\* Mutant of OwnFront: the record is left to the next purge.
OwnFrontUnpruned(r) == PurgeFront(request[r].client)

\* Where the critical section of r leaves the front of its client.
OwnFront(r) ==
    LET c == request[r].client
    IN  PrunedTo(c, PurgeFront(c), request[r].now - Window)

Full(r) == Len(stamps[request[r].client]) - OwnFront(r) + 1 >= MaxRequests

\* Mutants of RetryAfter: the time since the oldest admission, not what is
\* left; no minimum.
RetryAfterElapsed(r) ==
    LET oldest  == stamps[request[r].client][OwnFront(r)]
        seconds == (request[r].now - oldest) \div TicksPerSecond
    IN  IF seconds <= 0 THEN 1 ELSE seconds

RetryAfterNoMinimum(r) ==
    (stamps[request[r].client][OwnFront(r)] + Window - request[r].now) \div TicksPerSecond

\* Whole seconds until the oldest admission leaves the window, one at least.
RetryAfter(r) ==
    LET oldest  == stamps[request[r].client][OwnFront(r)]
        seconds == (oldest + Window - request[r].now) \div TicksPerSecond
    IN  IF seconds <= 0 THEN 1 ELSE seconds

\* The client is identified and the clock read; the mutex is not locked yet.
Arrive(r, c) ==
    /\ request[r].pc = "idle"
    /\ request' = [request EXCEPT ![r] = [pc |-> "waiting", client |-> c, now |-> clock]]
    /\ UNCHANGED <<clock, stamps, front, lastPurge, refusal, lastRun>>

\* What the critical section of r does whatever the answer.
Prune(r) ==
    /\ request[r].pc = "waiting"
    /\ front' = [c \in Clients |-> IF c = request[r].client THEN OwnFront(r)
                                                            ELSE PurgeFront(c)]
    /\ lastPurge' = IF PurgeDue THEN clock ELSE lastPurge
    /\ request' = [request EXCEPT ![r] = Idle]
    /\ lastRun' = clock
    /\ UNCHANGED clock

\* Mutant of Admit: the check lets one request too many through.
AdmitOneMore(r) ==
    /\ Prune(r)
    /\ Len(stamps[request[r].client]) - OwnFront(r) + 1 <= MaxRequests
    /\ stamps' = [stamps EXCEPT ![request[r].client] = Append(@, request[r].now)]
    /\ UNCHANGED refusal

\* The request is recorded and passed on (fccb, called under the mutex).
Admit(r) ==
    /\ Prune(r)
    /\ ~Full(r)
    /\ stamps' = [stamps EXCEPT ![request[r].client] = Append(@, request[r].now)]
    /\ UNCHANGED refusal

\* The request is answered with 429.
Refuse(r) ==
    LET c == request[r].client
    IN  /\ Prune(r)
        /\ Full(r)
        /\ refusal' = [refusal EXCEPT ![c] = [at |-> request[r].now,
                                              retry |-> RetryAfter(r),
                                              count |-> Len(stamps[c])]]
        /\ UNCHANGED stamps

\* Time passes; no request waits for the mutex longer than Delay.
Tick ==
    /\ clock < MaxTime
    /\ \A r \in Requests : request[r].pc = "waiting" => clock < request[r].now + Delay
    /\ clock' = clock + 1
    /\ UNCHANGED <<stamps, front, lastPurge, request, refusal, lastRun>>

Next ==
    \/ \E r \in Requests :
          \/ \E c \in Clients : Arrive(r, c)
          \/ Admit(r)
          \/ Refuse(r)
    \/ Tick

Spec == Init /\ [][Next]_vars

-----------------------------------------------------------------------------
(* Properties *)

\* Type invariant.
TypeOK ==
    /\ clock \in Nat
    /\ stamps \in [Clients -> Seq(Nat)]
    /\ front \in [Clients -> Nat]
    /\ \A c \in Clients : front[c] \in 1..(Len(stamps[c]) + 1)
    /\ lastPurge \in Nat
    /\ request \in [Requests -> Waiting \cup {Idle}]
    /\ refusal \in [Clients -> Refusal \cup {None}]
    /\ lastRun \in Nat

\* The admissions of c whose time is from a to b.
Admitted(c, a, b) == {i \in 1..Len(stamps[c]) : stamps[c][i] \in a..b}

\* Requests of a client that overtake each other between reading the clock
\* and locking the mutex, and purges that run in between with a newer time,
\* may drop admissions that a waiting request should still count.  But no
\* interval of a window's length, less the time a request may wait, ever sees
\* more than MaxRequests admissions.
WindowBound ==
    \A c \in Clients : \A a \in 0..clock :
        Cardinality(Admitted(c, a, a + Window - Delay)) <= MaxRequests

\* A client is refused only for requests it has made: MaxRequests of them were
\* admitted in the window before the refused one, give or take the time a
\* request may wait, although the deque may be out of order and hide expired
\* timestamps behind its front.
RefusalDeserved ==
    \A c \in Clients : refusal[c] # None =>
        Cardinality(Admitted(c, refusal[c].at - Window - Delay, clock)) >= MaxRequests

\* A client that was refused, that nothing was admitted for since, and that
\* has waited one second more than Retry-After said, is not refused again
\* (Retry-After alone is not enough, since it is rounded down).
RetryAfterSuffices ==
    [][\A c \in Clients :
          /\ refusal[c] # None
          /\ refusal'[c].count = refusal[c].count
          => refusal'[c].at = refusal[c].at
             \/ refusal'[c].at < refusal[c].at + (refusal[c].retry + 1) * TicksPerSecond]_vars

\* Memory is bounded by recent activity: after a critical section, a client
\* keeps an entry only if one of its timestamps is not older than a window and
\* a purge interval, although only requests (of any client) trigger a purge.
IdleClientsForgotten ==
    \A c \in Clients :
        front[c] <= Len(stamps[c]) =>
            \E i \in front[c]..Len(stamps[c]) :
                stamps[c][i] + Window + Delay + PurgeInterval >= lastRun
=============================================================================
