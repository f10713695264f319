\* Three threads, of which each may push, pop, close or be interrupted.
CONSTANTS
    Threads = {t1, t2, t3}
    Items = {a, b, c}
    Max = 2
    MaxInterrupts = 1
SPECIFICATION FairSpec
INVARIANTS
    TypeOK
    NoLostWakeup
    CloseWakesAll
    WaitingExact
PROPERTIES
    QueueKept
    TimedPopsEnd
    CloseEndsPops
    WaitersServed
CHECK_DEADLOCK FALSE
