\* One call over TCP, answered before the caller has registered it.
CONSTANTS
    Callers = {c1}
    Reader = reader
    IdMod = 2
    Transports = {"tcp"}
    Results = {"success", "failure"}
    MaxCalls = 1
    MaxUnsolicited = 0
    MaxTcpCloses = 0
    MaxSlipCloses = 0
SPECIFICATION Spec
PROPERTY TimeoutMeansUnanswered
CHECK_DEADLOCK FALSE
