\* Two requests on two connections to MySQL, without failures.
SPECIFICATION Spec
CONSTANTS
    Requests = {r1, r2}
    Connections = {c1, c2}
    Engines = {"mysql"}
    Faults = {}
    BulkSize = 2
    MaxId = 3
SYMMETRY MCSymmetry
INVARIANT CreatedRowIsOwn
\* Every request is made once.
CHECK_DEADLOCK FALSE
