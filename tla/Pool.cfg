\* One pool, a tick and a request at once, one of each mishap, and a cap above the
\* target and every row that can be orphaned (three).
SPECIFICATION FairSpec
CONSTANTS
    Pools = {p1}
    Target = 2
    MaxCluster = 6
    Workers = 2
    MaxAttempts = 2
    Tick = tick
    Callers = {tick, request}
    MaxTakes = 1
    MaxFailures = 1
    MaxCrashes = 1
    MaxHangs = 1
INVARIANTS TypeOK OverrunBounded
PROPERTY PoolsRefilled
\* Every clone taken and every session over: nothing is left to do.
CHECK_DEADLOCK FALSE
