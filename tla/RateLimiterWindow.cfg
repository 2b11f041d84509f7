\* Two event loops, one client, a clock finer than the seconds of Retry-After
\* that runs past two windows.
CONSTANTS
    Requests = {r1, r2}
    Clients = {c1}
    MaxRequests = 2
    WindowSeconds = 2
    PurgeSeconds = 1
    TicksPerSecond = 2
    Delay = 1
    MaxTime = 8
SPECIFICATION Spec
SYMMETRY MCSymmetry
INVARIANTS
    TypeOK
    WindowBound
    RefusalDeserved
PROPERTIES
    RetryAfterSuffices
