CONSTANTS
    Pages = {owner, student}
    Owner = owner
    Admins = {owner}
    Stale = 1
    MaxChoices = 1
SPECIFICATION Spec
INVARIANTS
    TypeOK
PROPERTIES
    AbandonedEnds
    FallsBackOnlyAtFirst
    Settles
    GoneShown
CHECK_DEADLOCK FALSE
