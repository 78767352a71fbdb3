\* Two goroutines with a slot each, two entries, three task IDs: a new task
\* evicts the oldest finished one.
SPECIFICATION FairSpec
CONSTANTS
    Requests = {r1, r2}
    TaskIds = {t1, t2, t3}
    Untracked = untracked
    MaxConcurrent = 2
    MaxRetained = 2
    Retention = 0
INVARIANTS
    SlotsHeld
    ActiveIsOwned
    RoomForNewTask
    CompletedIsDelivered
PROPERTIES
    TerminalIsFinal
    TransfersEnd
