CONSTANTS
    Callers = {caller}
    Reader = reader
    Payloads <- MCPayloads
    Reply <- MCReply
    Base = 2
    Buffer = 2
    Capacity = 3
    MaxMessages = 3
    MaxSessions = 2
SPECIFICATION Spec
INVARIANTS
    TypeOK
    UpKept
    DownKept
PROPERTIES
    
    Heard
    TxReturns
CHECK_DEADLOCK FALSE
