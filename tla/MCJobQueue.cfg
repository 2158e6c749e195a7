\* Two clients, a table of two slots, three requests; the worker and a client's
\* send run on.  With TTL = 2 two live results can differ in age.
CONSTANTS
    Client = {c1, c2}
    Request <- MCFewRequests
    JobMax = 2
    TTL = 2
    IdMax = 3
    SubmitBound = 3
    ReuseBound = 1
    MaxClock = 2
SPECIFICATION FairSpec
INVARIANTS
    TypeOK
    NoStrandedJob
    AcceptedNotLost
    SingleFlight
    MetricsBalance
PROPERTIES
    ResultKept
    AcceptedCompletes
    ImplementsFairService
