SPECIFICATION FairSpec
CONSTANTS
    Uploads = {u1}
    Admins = {a1}
    MaxCrashes = 2
    Faults = {"lostRow", "rerun", "leak", "lateFail"}
PROPERTIES NoEndlessSpinner
CHECK_DEADLOCK FALSE
