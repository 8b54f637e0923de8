SPECIFICATION PagesSpec
CONSTANTS
    Requests <- MCRequests
    Ids <- MCIds
    Users <- MCUsers
    Messages <- MCMessages
    None = None
    MaxFaults = 0
    r1 = r1
    s1 = s1
    s2 = s2
    u1 = u1
    m1 = m1
INVARIANTS
    PageShowsFlash
CHECK_DEADLOCK FALSE
