SPECIFICATION Spec
CONSTANTS
    None = None
    Requests = {r1, r2}
    Ids = {s1, s2, s3}
    Users = {u1, u2}
    Messages = {m1}
SYMMETRY Symmetry
INVARIANT AnnouncedIdLoads
