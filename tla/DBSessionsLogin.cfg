SPECIFICATION Spec
CONSTANTS
    Requests <- MCRequests
    Ids <- MCIds
    Users <- MCUsers
    Messages <- MCMessages
    None = None
    MaxFaults = 0
    r1 = r1
    r2 = r2
    s1 = s1
    s2 = s2
    s3 = s3
    u1 = u1
    u2 = u2
    m1 = m1
PROPERTIES
    SavedLoginStays
