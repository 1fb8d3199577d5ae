\* One VMID used by two clones in turn, failures and crashes, no named fault.
SPECIFICATION Spec
CONSTANTS
    Vmids = {v1}
    Builds = {b1, b2}
    Sessions = {s1, s2}
    JobKinds = {"stop", "timeout"}
    Destroyers = {d1, d2}
    MaxAttempts = 2
    Faults = {}
    None = None
SYMMETRY Perms
INVARIANTS TypeOK Served HeldVmidClaimed
PROPERTIES TouchOnlyOwn StoppedIsFinal
\* Everything built, used and cleaned up: there is nothing left to do.
CHECK_DEADLOCK FALSE
