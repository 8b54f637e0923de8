SPECIFICATION Spec
CONSTANTS
    Tenants <- MCTenants
    Requests <- MCRequests
    Creations <- MCCreations
    Commands <- MCCommands
    Latest = 2
    MaxFaults = 1
    Calls <- MCCalls
    Base = Base
    Central = Central
    None = None
    t1 = t1
    t2 = t2
    r1 = r1
    r2 = r2
    c1 = c1
    c2 = c2
INVARIANTS
    TypeOK
    ServedFromOwnDatabase
    LostConnectionsAreExplained
    ClashOnlyWithCreation
PROPERTIES
    EveryRequestIsAnswered
CHECK_DEADLOCK FALSE
