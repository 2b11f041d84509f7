\* One key in both tiers, the clock running past both staleness bounds.
CONSTANTS
    user = user
    userLog = userLog
    listUser = listUser
    itemUser = itemUser
    listLog = listLog
    Instances = {i1}
    Readers = {r1, r2}
    Writers = {w1}
    Tables = {user}
    PkTables = {user}
    PrefixOf <- MCPrefixOf
    Keys = {listUser}
    ItemKeys = {}
    TableOf <- MCTableOf
    RedisEnabled = TRUE
    MySql = TRUE
    Ops = {"update"}
    Faults = {"redis", "db", "reply", "crash"}
    L1Capacity = 2
    Ttl = 2
    Latency = 1
    BulkSize = 1
    MaxPages = 1
    MaxVersion = 1
    MaxTime = 7
SPECIFICATION Spec
SYMMETRY MCSymmetry
INVARIANTS
    BoundedStaleness
