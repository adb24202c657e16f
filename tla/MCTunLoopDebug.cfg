CONSTANTS
    Stops = {main}
    main = main
    NDEBUG = FALSE
SPECIFICATION Spec
INVARIANT TunAsserts
CHECK_DEADLOCK FALSE
