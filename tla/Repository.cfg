SPECIFICATION Spec
CONSTANTS
    Requests <- MCRequests
    Ids <- MCIds
    Names <- MCNames
    Domains <- MCDomains
    Contexts <- MCContexts
    Queries <- MCQueries
    MaxOps <- MCMaxOps
    Stored <- MCStored
    MaxDepth = 2
    NoDomain = NoDomain
    None = None
    r1 = r1
    r2 = r2
    i1 = i1
    i2 = i2
    a = a
    b = b
    blue = blue
    red = red
SYMMETRY Symmetry
INVARIANTS
    TypeOK
    OnlyCommittedTransactions
    DuplicatesAreLoose
    IncrementsAreLostToStaleCopies
    CreatedRowIsReturned
    OnlyAnOrLeavesTheDomain
CHECK_DEADLOCK FALSE
