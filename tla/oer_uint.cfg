\* The variable length integers of both ends.
CONSTANTS
    Words <- MCEdges
    SWords = {}
    Sizes = {}
    Trails <- MCTrails
    Noise = {}
SPECIFICATION Spec
INVARIANT UintsRoundTrip
CHECK_DEADLOCK FALSE
