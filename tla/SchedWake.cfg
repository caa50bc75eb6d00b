SPECIFICATION Spec
CONSTANTS
    CPU = {c1, c2}
    Task = {t1}
    NoTask = NoTask
    IrqCPU = {c1, c2}
    MaxPending = 1
    MaxWakes = 2
INVARIANTS NodeQueuedOnce WakeNotLost NoSleepOverWork
CHECK_DEADLOCK FALSE
