\* Two tables, one with a name that SQLite's PRAGMA is not given, a change of the
\* schema, a request and a document.
CONSTANTS
    user = user
    userLog = userLog
    id = id
    name = name
    Tables = {user, userLog}
    ValidNames = {user}
    Columns = {id, name}
    Definitions <- MCDefinitions
    Engines = {"mysql", "sqlite3", "oracle"}
    Requests = {r1}
    Leftover = {user}
    MaxChanges = 1
SPECIFICATION FairSpec
INVARIANTS
    TypeOK
    RefsResolve
    FailedScanRegistersNothing
    QuietScanExact
PROPERTIES
    IsWriteOnce
    EverythingEnds
