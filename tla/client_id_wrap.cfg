\* One thread, one call more than there are invoke ids.
CONSTANTS
    Callers = {c1}
    Reader = reader
    IdMod = 2
    Transports = {"tcp"}
    Results = {"success", "failure"}
    MaxCalls = 3
    MaxUnsolicited = 0
    MaxTcpCloses = 0
    MaxSlipCloses = 0
SPECIFICATION Spec
INVARIANT RegisteredUnderWireId
CHECK_DEADLOCK FALSE
