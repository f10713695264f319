\* Every type at the edges of its range, from either end to both, and bytes that
\* nobody encoded.
CONSTANTS
    Words <- MCWords
    SWords <- MCSWords
    Sizes <- MCSizes
    Trails <- MCTrails
    Noise <- MCNoise
SPECIFICATION Spec
INVARIANTS
    RoundTrip
    DecodersAgree
CHECK_DEADLOCK FALSE
