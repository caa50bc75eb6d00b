SPECIFICATION FairSpec
CONSTANTS
    CPU = {c1, c2}
    Task = {t1, t2}
    NoTask = NoTask
    IrqCPU = {c1}
    MaxPending = 1
    MaxWakes = 1
INVARIANTS TypeOK OneOwner
PROPERTIES WokenIsPolled
CHECK_DEADLOCK FALSE
