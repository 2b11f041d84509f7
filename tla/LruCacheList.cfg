\* A list with room for two of three keys, whose entries expire.
CONSTANTS
    listUser = listUser
    itemUser = itemUser
    listLog = listLog
    Keys = {listUser, itemUser, listLog}
    Values = {v1, v2}
    PrefixSets <- MCPrefixSets
    MaxSize = 2
    Ttls = {1, 2}
    MaxTime = 2
    MaxUses = 4
SPECIFICATION Spec
INVARIANTS
    Coherent
    WorkingSetKept
PROPERTY
    IsRecencyCache
