\* A created row that MySQL cannot read back.
CONSTANTS
    user = user
    userLog = userLog
    listUser = listUser
    itemUser = itemUser
    listLog = listLog
    Instances = {i1}
    Readers = {r1}
    Writers = {w1}
    Tables = {user}
    PkTables = {user}
    PrefixOf <- MCPrefixOf
    Keys = {listUser, itemUser}
    ItemKeys = {itemUser}
    TableOf <- MCTableOf
    RedisEnabled = FALSE
    MySql = TRUE
    Ops = {"create"}
    Faults = {"db"}
    L1Capacity = 2
    Ttl = 1
    Latency = 0
    BulkSize = 1
    MaxPages = 1
    MaxVersion = 1
    MaxTime = 0
SPECIFICATION Spec
SYMMETRY MCSymmetry
INVARIANTS
    OwnWritesCleared
