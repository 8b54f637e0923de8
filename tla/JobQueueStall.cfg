SPECIFICATION FairSpec
CONSTANTS
    Jobs <- MCJobs
    Workers <- MCWorkers
    MaxRetries <- MCMaxRetries
    Capacity = 1
    Caller = Caller
    None = None
    w1 = w1
    w2 = w2
    j1 = j1
    j2 = j2
    j3 = j3
PROPERTIES
    JobsAreHandled
CHECK_DEADLOCK FALSE
