\* CPU c1 writes, is interrupted by handlers that retire, and calls sync(); c2
\* reads and may sleep; a reclaim worker runs the droppers.
SPECIFICATION Spec
CONSTANTS
    c1 = c1
    c2 = c2
    w1 = w1
    n1 = n1
    n2 = n2
    CPU = {c1, c2}
    Node = {n1, n2}
    FirstNode = n1
    Null = Null
    Worker = {w1}
    WorkerOf <- OneWorker
    Hook = TRUE
    Writers = {c1}
    Sleepers = {c2}
    IrqCPUs = {c1}
    Syncers = {c1}
    Inactive = 99
    MaxEpoch = 3
INVARIANTS ReaderProtected NodesConserved SyncWaitsForReaders SyncLeavesNothingQueued
