CONSTANTS
    Stops = {binder, main}
    main = main
    NDEBUG = TRUE
SPECIFICATION Spec
INVARIANTS TunTypeOK TornDown AtMostOneMore
PROPERTY TunStops
CHECK_DEADLOCK FALSE
