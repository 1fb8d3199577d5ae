\* Outages and the recovery script, without the two races.
SPECIFICATION Spec
CONSTANTS
    Hard = 1
    Extension = 2
    Idle = 1
    Grace = 0
    MaxAttempts = 1
    Named = {"stop", "admin"}
    Timers = {t1, t2}
    MaxTime = 4
    MaxResets = 1
    MaxCrashes = 0
    Faults = {"outage"}
    None = None
SYMMETRY TimerPerms
INVARIANT TypeOK
PROPERTY EndsForCause
\* The session over and its jobs through: there is nothing left to do.
CHECK_DEADLOCK FALSE
