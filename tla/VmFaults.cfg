\* Every named fault, two sessions after one clone.
SPECIFICATION Spec
CONSTANTS
    Vmids = {v1}
    Builds = {b1}
    Sessions = {s1, s2}
    JobKinds = {"stop", "timeout"}
    Destroyers = {d1, d2}
    MaxAttempts = 2
    Faults = {"overlap", "late", "stale", "lateBuild", "expiry", "forget"}
    None = None
SYMMETRY Perms
INVARIANT OneOwner
PROPERTY ImplementsOwnership
\* Everything built, used and cleaned up: there is nothing left to do.
CHECK_DEADLOCK FALSE
