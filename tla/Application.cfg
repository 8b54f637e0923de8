SPECIFICATION Spec
\* Every part comes to an end: requests that are answered, bounds, a crash.
CHECK_DEADLOCK FALSE
CONSTANTS
    r1 = r1
    r2 = r2
    r3 = r3
    e1 = e1
    t1 = t1
    t2 = t2
    k1 = k1
    k2 = k2
    w1 = w1
    w2 = w2
    c1 = c1
    c2 = c2
    c3 = c3
    m1 = m1
    b1 = b1
    ra = ra
    rb = rb
    p1 = p1
    v1 = v1
    Requests <- MCRequests
    Emails <- MCEmails
    Tokens <- MCTokens
    Calls <- MCCalls
    Clients <- MCClients
    Limits <- MCLimits
    Readers <- MCReaders
    Writers <- MCWriters
    Keys <- MCKeys
    Tags <- MCTags
    Subject <- MCSubject
    Rooms <- MCRooms
    Conns <- MCConns
    Broadcasts <- MCBroadcasts
    Tenant <- MCTenant
    ByDomain <- MCByDomain
    Routers <- MCRouters
    Paths <- MCPaths
    Views <- MCViews
    Browser <- MCBrowser
    Exempt <- MCExempt
    NoToken = ""
    MaxFaults = 1
    Window = 3
    MaxTime = 7
    MaxMoves = 5
    Root = ra
    MaxUsed = 5
    MaxCalls = 3
    None = None
INVARIANTS
    TypeOK
    OneAccountPerEmail
    SpentTokenStaysSpent
    RateBound
    StaleOnlyByRace
    BroadcastReachesTheRoom
    RowsAndFilesAgree
    RoutesRunTheirMiddlewares
    
    RefusedForAReason
