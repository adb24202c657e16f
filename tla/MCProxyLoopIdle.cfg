CONSTANTS
    MaxActive = 2
    MaxStops = 2
\* The loop ends for good, and nobody has to start or stop it.
CHECK_DEADLOCK FALSE
SPECIFICATION Spec
PROPERTIES
    StopEndsLoop
