\* A reader on a CPU that has just woken up.
SPECIFICATION Spec
CONSTANTS
    c1 = c1
    c2 = c2
    w1 = w1
    n1 = n1
    n2 = n2
    CPU = {c1, c2}
    Node = {n1, n2}
    FirstNode = n1
    Null = Null
    Worker = {w1}
    WorkerOf <- OneWorker
    Hook = TRUE
    Writers = {c1, c2}
    Sleepers = {c2}
    IrqCPUs = {}
    Syncers = {}
    Inactive = 99
    MaxEpoch = 3
INVARIANTS PinProtects
