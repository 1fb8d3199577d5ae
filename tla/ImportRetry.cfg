SPECIFICATION FairSpec
CONSTANTS
    Uploads = {u1}
    Admins = {a1}
    MaxCrashes = 0
    Faults = {"retry"}
PROPERTIES NoEndlessSpinner
CHECK_DEADLOCK FALSE
