\* Two instances on MySQL without Redis, one table a prefix of the other, room
\* for one of two keys, single and bulk writes, crashes.
CONSTANTS
    user = user
    userLog = userLog
    listUser = listUser
    itemUser = itemUser
    listLog = listLog
    Instances = {i1, i2}
    Readers = {r1}
    Writers = {w1}
    Tables = {user, userLog}
    PkTables = {user}
    PrefixOf <- MCPrefixOf
    Keys = {itemUser, listLog}
    ItemKeys = {itemUser}
    TableOf <- MCTableOf
    RedisEnabled = FALSE
    MySql = TRUE
    Ops = {"create", "delete", "bulk"}
    Faults = {"crash"}
    L1Capacity = 1
    Ttl = 1
    Latency = 0
    BulkSize = 2
    MaxPages = 1
    MaxVersion = 1
    MaxTime = 0
SPECIFICATION FairSpec
INVARIANTS
    TypeOK
    OwnWritesCleared
    ClearedStaysFresh
PROPERTIES
    EveryRequestAnswered
