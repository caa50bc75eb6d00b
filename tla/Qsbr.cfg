\* Two CPUs that both write, one of which may sleep for good; drops run inline.
SPECIFICATION FairSpec
CONSTANTS
    c1 = c1
    c2 = c2
    w1 = w1
    n1 = n1
    n2 = n2
    CPU = {c1, c2}
    Node = {n1}
    FirstNode = n1
    Null = Null
    Worker = {w1}
    WorkerOf <- OneWorker
    Hook = FALSE
    Writers = {c1, c2}
    Sleepers = {c2}
    IrqCPUs = {}
    Syncers = {}
    Inactive = 99
    MaxEpoch = 3
INVARIANTS TypeOK ReaderProtected
PROPERTIES Reclaimed
