\* Races and a crash, no outage.
SPECIFICATION FairSpec
CONSTANTS
    Hard = 1
    Extension = 2
    Idle = 1
    Grace = 0
    MaxAttempts = 1
    Named = {"stop"}
    Timers = {t1, t2}
    MaxTime = 4
    MaxResets = 0
    MaxCrashes = 1
    Faults = {"extend", "heartbeat"}
    None = None
INVARIANT NotStranded
PROPERTY SessionEnds
\* The session over and its jobs through: there is nothing left to do.
CHECK_DEADLOCK FALSE
