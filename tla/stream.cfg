\* Words of four bits: every sum, every size and every position.
CONSTANTS
    Half = 8
    MaxCalls = 2
SPECIFICATION Spec
INVARIANT TypeOK
PROPERTIES
    SeekExact
    OneCallExact
    RewindExact
