\* Two invalidations of one table, their SCANs interleaved with fills.
CONSTANTS
    user = user
    userLog = userLog
    listUser = listUser
    itemUser = itemUser
    listLog = listLog
    Instances = {i1}
    Readers = {r1}
    Writers = {w1, w2}
    Tables = {user}
    PkTables = {user}
    PrefixOf <- MCPrefixOf
    Keys = {listUser, itemUser}
    ItemKeys = {itemUser}
    TableOf <- MCTableOf
    RedisEnabled = TRUE
    MySql = FALSE
    Ops = {"update"}
    Faults = {}
    L1Capacity = 2
    Ttl = 1
    Latency = 0
    BulkSize = 1
    MaxPages = 2
    MaxVersion = 1
    MaxTime = 0
SPECIFICATION FairSpec
INVARIANTS
    ClearedStaysFresh
    OwnWritesCleared
PROPERTIES
    EveryRequestAnswered
