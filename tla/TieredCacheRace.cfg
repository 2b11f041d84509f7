\* A fill that a write overtakes, without failures.
CONSTANTS
    user = user
    userLog = userLog
    listUser = listUser
    itemUser = itemUser
    listLog = listLog
    Instances = {i1}
    Readers = {r1}
    Writers = {w1}
    Tables = {user}
    PkTables = {user}
    PrefixOf <- MCPrefixOf
    Keys = {listUser, itemUser}
    ItemKeys = {itemUser}
    TableOf <- MCTableOf
    RedisEnabled = FALSE
    MySql = FALSE
    Ops = {"update"}
    Faults = {}
    L1Capacity = 2
    Ttl = 1
    Latency = 0
    BulkSize = 1
    MaxPages = 1
    MaxVersion = 1
    MaxTime = 0
SPECIFICATION Spec
SYMMETRY MCSymmetry
INVARIANTS
    NoStaleDataAtRest
