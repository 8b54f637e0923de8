SPECIFICATION Spec
\* Every request is answered once.
CHECK_DEADLOCK FALSE
CONSTANTS
    r1 = r1
    r2 = r2
    b1 = b1
    b2 = b2
    v1 = v1
    Requests <- TwoRequests
    Views <- OneView
    Browser <- OwnBrowsers
    Exempt = {}
    NoToken = ""
    None = None
INVARIANT PageShowsItsOwnRequest
