SPECIFICATION Spec
CONSTANTS
    Uploads = {u1}
    Admins = {a1, a2}
    MaxCrashes = 1
    Faults = {}
INVARIANTS TypeOK WorksOnWhole FinishableVm CleanAfter
PROPERTIES CancelHolds SucceededHolds
CHECK_DEADLOCK FALSE
