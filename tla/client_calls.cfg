\* Two application threads and the alert callback share one client past the wrap of
\* the invoke ids, over a serial line that loses frames or over TCP, which are closed,
\* wherever the reader is, and opened again.  A result is success: which it is only
\* changes what a read returns.
CONSTANTS
    Callers = {c1, c2}
    Reader = reader
    IdMod = 2
    Transports = {"tcp", "slip_crc16"}
    Results = {"success"}
    MaxCalls = 3
    MaxUnsolicited = 1
    MaxTcpCloses = 1
    MaxSlipCloses = 1
SPECIFICATION Spec
SYMMETRY CallerSymmetry
INVARIANTS
    TypeOK
    PendingTracksCalls
    OwnResponse
    DeliveredIsQueued
    ReaderCannotAnswerItself
PROPERTY DropsOnlyUnclaimed
CHECK_DEADLOCK FALSE
