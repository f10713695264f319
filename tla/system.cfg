\* One application thread and the alert callback, two objects, and a serial line that
\* loses frames and is closed and opened again.
CONSTANTS
    Callers = {c1}
    Reader = reader
    IdMod = 2
    Transports = {"slip_crc16"}
    Results = {"success", "failure"}
    MaxCalls = 2
    MaxUnsolicited = 1
    MaxTcpCloses = 0
    MaxSlipCloses = 1
    Objects = {o1, o2}
SPECIFICATION FairSystem
INVARIANTS
    SystemTypeOK
    ReadsCurrent
    WritesHappened
PROPERTIES
    CallsReturn
    FramesDrain
CHECK_DEADLOCK FALSE
