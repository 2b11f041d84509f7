\* Two writes of any kind and a list, one connection, either kind of engine.
CONSTANTS
    Requests = {r1, r2}
    Connections = {c1}
    Engines = {"returning", "mysql"}
    Faults = {"reply"}
    BulkSize = 2
    MaxId = 3
    Lists = {l1}
    Numbers <- MCNumbers
    Filters <- MCFilters
    DefaultLimit = 1
    MaxLimit = 2
    Word = 8
SYMMETRY MCSymmetry
SPECIFICATION ListSpec
INVARIANTS
    TypeOK
    AnswerTellsEffect
    BulkAccountsForAll
    PageShape
    TotalWasTrue
    QuietPagesExact
\* Every request is made once.
CHECK_DEADLOCK FALSE
