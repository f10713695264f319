\* An alert stands in the output when an unconfirmed command is processed.
SPECIFICATION Spec
CONSTANTS
    Batches <- RewindBatches
    Alerts <- ServerAlerts
    AlertLimit = 6
    AlertsAnytime = TRUE
    TxSize = 16
    Capacity = 2
    Stale = {0, 4}
    Handlers <- Both
PROPERTY AnswersKept
