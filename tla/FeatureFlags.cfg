SPECIFICATION Spec
CONSTANTS
    f = f  u = u  t = t  editor = editor
    None = None
    Requests = {r1, r2}
    Operators = {o1}
    Flags = {f}
    Principals <- MCPrincipals
    Targets <- MCTargets
    Tables <- MCTables
    TTL = 1
    Cap = 2
    MaxChanges = 1
    MaxFetch = 1
    MayFail = TRUE
SYMMETRY Symmetry
CHECK_DEADLOCK FALSE
INVARIANTS TypeOK CacheIsConsistent StaleForAWhileOnly
PROPERTY EvictsLeastRecentlyUsed
