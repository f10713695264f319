CONSTANTS
    Threads = {t1, t2}
    Payloads <- MCPayloads
    Checksum <- MCChecksum
    Kinds = {"slip", "slip_crc16", "c"}
    Max = 2
    Noise = {1, 192, 219}
    MaxFrames = 3
    MaxFaults = 2
SPECIFICATION Spec
INVARIANTS
    TypeOK
    Faithful
PROPERTIES
    LineKept
    Resync
CHECK_DEADLOCK FALSE
