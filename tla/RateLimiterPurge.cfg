\* Two clients that go silent in turn.
CONSTANTS
    Requests = {r1, r2}
    Clients = {c1, c2}
    MaxRequests = 1
    WindowSeconds = 1
    PurgeSeconds = 2
    TicksPerSecond = 1
    Delay = 1
    MaxTime = 5
SPECIFICATION Spec
SYMMETRY MCSymmetry
INVARIANTS
    IdleClientsForgotten
