\* Requests of every kind, alone and two in one stream, and alerts among the
\* responses, in an output that fills up; with and without a write handler.
SPECIFICATION Spec
CONSTANTS
    Batches <- ServerBatches
    Alerts <- ServerAlerts
    AlertLimit = 10
    AlertsAnytime = FALSE
    TxSize = 12
    Capacity = 2
    Stale = {0, 4}
    Handlers <- FrameSets
INVARIANT TypeOK
PROPERTIES
    ServiceKept
    MessagesConsumed
