CONSTANTS
    MaxRequests = 2
    MaxInputs = 3
    Spans = {2, 3, 4}
SPECIFICATION Spec
INVARIANTS
    TypeOK
    
    HandshakeInOrder
PROPERTIES
    BothEndsClose
    OwnerSees
CHECK_DEADLOCK FALSE
