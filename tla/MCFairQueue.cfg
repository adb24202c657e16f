CONSTANTS
    Flow = {f1, f2}
    None = None
    MTU = 1
    packet_weight = 1
    FAIRQUEUE_MAX_TIME = 5
SPECIFICATION Spec
INVARIANTS
    FairTypeOK
    FairAsserts
    LeastIsSent
    ToldBeforeNext
    NothingForgotten
PROPERTIES
    ChargedExactly
    LagBounded
    EachIsSent
